------------------------------- MODULE MCPartner -------------------------------
(* Two items: a step of the task and, before it in the order of the ids, a
   disagreement.  The script answers twice, once too briefly to make a claim. *)
EXTENDS Partner

CONSTANTS yes, ok, row

MCAnswers == {yes, ok}
MCShort == {ok}
MCHints == {"h", "g"}
MCAgenda == <<[row |-> NoRow, rank |-> 2], [row |-> row, rank |-> 1]>>
MCScript == <<ok, yes>>
MCIdRank == <<2, 1>>
MCReadings == {0, 4}
=============================================================================
