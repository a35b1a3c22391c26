------------------------------ MODULE MCApproval ------------------------------
(***************************************************************************)
(* Instances of Approval: an old belief, a new pending claim, the claim    *)
(* that corrects the new one, and the card between the two.                *)
(***************************************************************************)
EXTENDS Approval, FiniteSets, TLC

CONSTANTS old, new, fix, h1, h2, h3

OneCard == {[old |-> old, new |-> new, row |-> "estimates", fix |-> fix]}

Item(c, decision, vis, row, edit) ==
  [claim |-> c, decision |-> decision, vis |-> vis, row |-> row, edit |-> edit]

TheRow == [subject |-> "estimates", sides |-> {old, new}]

\* Publish, keep private, retract, and a batch that does two of them.
SomeBatches ==
  {<<Item(new, "approve", "public", TheRow, NoEdit)>>,
   <<Item(new, "approve", "unset", NoRow, NoEdit), Item(old, "defer", "unset", NoRow, NoEdit)>>,
   <<Item(new, "reject", "unset", NoRow, NoEdit),
     Item(old, "approve", "public", NoRow, NoEdit)>>}

\* The same, with a correction.
EditedBatches == {<<Item(new, "approve", "org", TheRow, fix)>>}

\* At most one submission stops half way.
OneDies == Cardinality({h \in Handlers : pc[h] = "dead"}) <= 1

Threads == Permutations(Handlers)
=============================================================================
