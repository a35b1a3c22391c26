------------------------------- MODULE MCFold -------------------------------
(***************************************************************************)
(* Small universes of events for Fold: one claim decided several times,    *)
(* and one ledger row between two claims, both within two instants so that *)
(* the id tie-break is exercised.                                          *)
(***************************************************************************)
EXTENDS Fold

CONSTANTS c1, c2, e1, e2, e3

Instants == {1, 2}

ClaimEvents(c) ==
  {[type |-> ty, at |-> t, claim |-> c] :
     ty \in DecisionTypes \cup {"claim.asserted"}, t \in Instants}

ClaimContents ==
  ClaimEvents(c1) \cup
  {[type |-> "claim.visibility_set", at |-> t, claim |-> c1, vis |-> v] :
     t \in Instants, v \in {"public", "unparseable"}}

Row == [subject |-> e1, sides |-> {c1, c2}]

LedgerContents ==
  {[type |-> ty, at |-> t, row |-> Row] :
     ty \in {"contradiction.detected", "contradiction.resolved"}, t \in Instants} \cup
  {[type |-> "claim.asserted", at |-> 1, claim |-> c] : c \in {c1, c2}} \cup
  {[type |-> "claim.rejected", at |-> 2, claim |-> c1],
   [type |-> "claim.adjudicated", at |-> 2, claim |-> c1],
   [type |-> "entity.alias_linked", at |-> 1, alias |-> e1, canonical |-> e2],
   [type |-> "entity.alias_linked", at |-> 1, alias |-> e1, canonical |-> e3],
   [type |-> "heartbeat", at |-> 2], [type |-> "session.proposed", at |-> 2]}

AllContents == ClaimContents \cup LedgerContents

\* A log speaks of the decisions on a claim, or of the ledger.
OneTopic ==
  LET contents == {Content(arrived[i]) : i \in DOMAIN arrived}
  IN  contents \subseteq ClaimContents \/ contents \subseteq LedgerContents
=============================================================================
