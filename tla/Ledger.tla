------------------------------- MODULE Ledger -------------------------------
(***************************************************************************)
(* The disputed ledger (reconcile/ledger.py): the open disagreements,      *)
(* ranked, and rendered for one audience; and the interview agenda made    *)
(* from its first rows (reconcile/agenda.py).  Both are functions of the   *)
(* folded log, as the doctrine is.                                         *)
(*                                                                         *)
(* Scores are kept as the code rounds them, in ten-thousandths.  The       *)
(* wording of a question is left out: an answer of the model that does not *)
(* parse costs the item its wording and nothing else.                      *)
(***************************************************************************)
EXTENDS Doctrine, SequencesExt

CONSTANTS
  Disputes,   \* disagreements that may be found: [subject, sides]
  Weight,     \* of each: [confidence, stakes, rank], in hundredths and tenths
  Source,     \* the document each claim is from (anchor.source_id)
  AgendaSize  \* DEFAULT_AGENDA_SIZE

\* rank is the order of the contradiction ids.
ASSUME LedgerAssumption ==
  /\ IsFiniteSet(Disputes)
  /\ \A k \in Disputes :
       /\ k.sides \subseteq Claims /\ Cardinality(k.sides) > 1
       /\ Weight[k].confidence \in 0..100 /\ Weight[k].stakes \in {3, 5, 7, 8, 9, 10}
       /\ Weight[k].rank \in Int
  /\ \A j, k \in Disputes : Weight[j].rank = Weight[k].rank => j = k
  /\ AgendaSize \in Nat \ {0}

-----------------------------------------------------------------------------
(* The ranking.                                                            *)

\* _newest_claim_at.
NewestClaimAt(k) == Max({Attr[c].observed : c \in k.sides})

\* Between documents a disagreement weighs more than within one.
Spread(k) == IF Cardinality({Source[c] : c \in k.sides}) > 1 THEN 4 ELSE 3

\* confidence * stakes * recency * spread, where recency runs from a half, for
\* the oldest of the open rows, to one; rounded.
Score(k, open) ==
  LET instants == {NewestClaimAt(j) : j \in open}
      span == Max({Max(instants) - Min(instants), 1})
      recency == span + NewestClaimAt(k) - Min(instants)
  IN  (5 * Weight[k].confidence * Weight[k].stakes * recency * Spread(k) + 2 * span)
        \div (4 * span)

\* The sort key of rows.
Above(j, k, open) ==
  \/ Score(j, open) > Score(k, open)
  \/ Score(j, open) = Score(k, open) /\ NewestClaimAt(j) > NewestClaimAt(k)
  \/ /\ Score(j, open) = Score(k, open) /\ NewestClaimAt(j) = NewestClaimAt(k)
     /\ Weight[j].rank < Weight[k].rank

\* The rows given, in the order of the key.
Ranked(rows, open) ==
  [n \in 1..Cardinality(rows) |->
     CHOOSE k \in rows : Cardinality({j \in rows : Above(j, k, open)}) = n - 1]

\* DisputedLedger.rows.
LedgerRows(graph) == Ranked(Open(graph), Open(graph))

-----------------------------------------------------------------------------
(* What an audience sees of it.                                            *)

\* Contradiction.render_for: the sides that are quoted.  The others are counted.
Quoted(graph, k, audience) == {c \in k.sides : ReadableBy(graph, c, audience)}

FullyReadable(graph, k, audience) == Quoted(graph, k, audience) = k.sides

\* DisputedLedger.summary.
LedgerSummary(graph, audience) ==
  [open  |-> Cardinality(Open(graph)),
   whole |-> Cardinality({k \in Open(graph) : FullyReadable(graph, k, audience)})]

\* _item.  An item whose sides may not all be read is asked without quotes.
Item(graph, k, audience) ==
  [row |-> k, cited |-> IF FullyReadable(graph, k, audience) THEN k.sides ELSE {}]

\* Mutant of Agenda: rows that may not be quoted are not asked about.
AgendaOfReadable(graph, audience) ==
  LET rows == Ranked({k \in Open(graph) : FullyReadable(graph, k, audience)}, Open(graph))
  IN  [i \in 1..Min({AgendaSize, Len(rows)}) |-> Item(graph, rows[i], audience)]

\* AgendaGenerator.generate: the first rows.
Agenda(graph, audience) ==
  LET rows == LedgerRows(graph)
  IN  [i \in 1..Min({AgendaSize, Len(rows)}) |-> Item(graph, rows[i], audience)]

\* The public page of the agenda: every row that may be quoted whole.
AgendaPreview(graph, audience) ==
  Ranked({k \in Open(graph) : FullyReadable(graph, k, audience)}, Open(graph))
=============================================================================
