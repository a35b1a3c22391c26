---------------------------- MODULE MCSessionTurns ----------------------------
(***************************************************************************)
(* Instances of SessionTurns: one session at a time, two disagreements to  *)
(* begin with and a third to be found.                                     *)
(***************************************************************************)
EXTENDS SessionTurns, TLC

CONSTANTS r1, r2, r3, i1, i2, k1, k2, yes, no

TwoRows == <<k1, k2>>

\* One session is opened.
OneSession == Cardinality(opened) <= 1

\* Of four things that vary one at a time: the ledger changes, requests
\* overlap, the session is closed, and a turn comes in by the older endpoint,
\* which is partner_turn without its extraction.  One death comes with any.
OneOddity ==
  /\ Cardinality({r \in Requests : req[r].pc = "dead"}) <= 1
  /\ Cardinality({n \in 1..4 :
       \/ n = 1 /\ Len(ledgers) > 1
       \/ n = 2 /\ overlaps # {}
       \/ n = 3 /\ closed # {}
       \/ n = 4 /\ \E r \in Requests : req[r].kind = "answer"}) <= 1

Threads == Permutations(Requests) \cup Permutations(Instances) \cup Permutations(Words)
=============================================================================
