------------------------------- MODULE MCDossier -------------------------------
(* Four beliefs of one slot.  a, b and c hold at different times; d says what a
   says, later and for all times, and so collides with b and c; disagreements of
   b and c, and of a and b, may be found; the agenda has room for one. *)
EXTENDS Dossier

CONSTANTS a, b, c, d

MCClaims == {a, b, c, d}
MCSays(from, until, observed, rank) ==
  [subject |-> "user", object |-> NoEntity, hint |-> "rule", from |-> from,
   until |-> until, observed |-> observed, rank |-> rank]
MCAttr ==
  a :> MCSays(20, 30, 1, 1) @@ b :> MCSays(0, 5, 1, 2) @@
  c :> MCSays(5, 10, 2, 3) @@ d :> MCSays(0, 30, 3, 4)
MCWording == a :> "x" @@ b :> "y" @@ c :> "z" @@ d :> "x"
MCOne == [subject |-> "user", sides |-> {b, c}]
MCOther == [subject |-> "user", sides |-> {a, b}]
MCDisputes == {MCOne, MCOther}
MCWeight == MCOne :> [confidence |-> 60, stakes |-> 10, rank |-> 1]
            @@ MCOther :> [confidence |-> 90, stakes |-> 7, rank |-> 2]
MCSource == a :> "minutes" @@ b :> "minutes" @@ c :> "thread" @@ d :> "thread"
MCHistories == {{}, MCClaims}
MCQuestions == {MCClaims}
MCChosen == {"private", "public"}
=============================================================================
