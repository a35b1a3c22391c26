------------------------------ MODULE EventFold ------------------------------
(***************************************************************************)
(* What a log of Baraza events means, for the modules that share one log   *)
(* (fold/graph.py, schema/event.py).                                       *)
(*                                                                         *)
(* An event is a record [type, at, h, ...payload].  at is occurred_at in   *)
(* epoch millis; h stands for event_id, the content hash, and only its     *)
(* order among events of the same instant matters.  A log is the SET of    *)
(* its events: append is idempotent on the id, and the fold sorts.         *)
(*                                                                         *)
(* The operators below are declarative: they say which event decides each  *)
(* part of GraphState, without replaying the log.  Fold.tla replays it one *)
(* event at a time, as the code does, and checks that the two agree.       *)
(***************************************************************************)
EXTENDS Integers

\* Event.order_key: the instant first, the id as the tie-breaker.
Before(e, f) == e.at < f.at \/ (e.at = f.at /\ e.h < f.h)

IsLatest(e, S) == e \in S /\ \A f \in S : f = e \/ Before(f, e)

OfType(log, types) == {e \in log : e.type \in types}

-----------------------------------------------------------------------------
(* Claims.                                                                 *)

KnownClaims(log) == {e.claim : e \in OfType(log, {"claim.asserted"})}

\* An event about a claim counts only if an assertion of the claim sorts
\* before it: applied to a claim the fold does not hold yet, it is dropped.
EffectiveOn(log, c, types) ==
  {e \in OfType(log, types) :
     /\ e.claim = c
     /\ \E a \in OfType(log, {"claim.asserted"}) : a.claim = c /\ Before(a, e)}

DecisionTypes == {"claim.committed", "claim.rejected"}

Decisions(log, c) == EffectiveOn(log, c, DecisionTypes)

\* The last decision wins.
DecidedAs(log, c, type) ==
  \E e \in Decisions(log, c) : e.type = type /\ IsLatest(e, Decisions(log, c))

Tier(log, c) ==
  CASE DecidedAs(log, c, "claim.committed") -> "committed"
    [] DecidedAs(log, c, "claim.rejected")  -> "rejected"
    [] OTHER                                -> "pending"

Visibilities == {"private", "successor", "org", "public"}

\* A visibility event that does not parse closes the claim, never opens it.
ParsedVisibility(raw) == IF raw \in Visibilities THEN raw ELSE "private"

Visibility(log, c) ==
  LET chosen == EffectiveOn(log, c, {"claim.visibility_set"})
  IN  IF chosen = {} THEN "private"
      ELSE ParsedVisibility((CHOOSE e \in chosen : IsLatest(e, chosen)).vis)

\* GraphState.retrievable_claims: everything that is not retracted.
Retrievable(log) == {c \in KnownClaims(log) : ~DecidedAs(log, c, "claim.rejected")}

Committed(log) == {c \in KnownClaims(log) : Tier(log, c) = "committed"}

Adjudicated(log) == {e.claim : e \in OfType(log, {"claim.adjudicated"})}

-----------------------------------------------------------------------------
(* The ledger.  A row [subject, sides] is the identity of a contradiction. *)

Rows(log) == {e.row : e \in OfType(log, {"contradiction.detected"})}

\* A resolution counts if a detection of its row sorts before it; nothing
\* that sorts after it reopens the row, because detection is setdefault.
Resolved(log) ==
  {k \in Rows(log) :
     \E r \in OfType(log, {"contradiction.resolved"}),
        d \in OfType(log, {"contradiction.detected"}) :
          r.row = k /\ d.row = k /\ Before(d, r)}

\* GraphState.open_contradictions: open, and every side still in the pool.
OpenRows(log) ==
  {k \in Rows(log) \ Resolved(log) : k.sides \subseteq Retrievable(log)}

-----------------------------------------------------------------------------
(* Identity edges and nightly runs.                                        *)

\* The last link of an alias wins.
Aliases(log) ==
  LET links == OfType(log, {"entity.alias_linked"})
  IN  [a \in {e.alias : e \in links} |->
         LET own == {e \in links : e.alias = a}
         IN  (CHOOSE e \in own : IsLatest(e, own)).canonical]

\* GraphState.resolve_entity: follow the edges, and stop where they cycle.
Canonical(aliases, entity) ==
  LET linked == DOMAIN aliases
      walk[at \in (linked \cup {aliases[a] : a \in linked}) \X SUBSET linked] ==
        LET cur == at[1]
            seen == at[2]
        IN  IF cur \in linked \ seen THEN walk[<<aliases[cur], seen \cup {cur}>>] ELSE cur
  IN  IF entity \in linked THEN walk[<<entity, {}>>] ELSE entity

Heartbeats(log) == OfType(log, {"heartbeat"})
=============================================================================
