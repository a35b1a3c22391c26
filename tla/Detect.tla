------------------------------- MODULE Detect -------------------------------
(***************************************************************************)
(* One detection pass over one claim (reconcile/detect.py): which claims   *)
(* of the pool are put to the model, and which rows its answer makes.      *)
(***************************************************************************)
EXTENDS EventFold, FiniteSets

CONSTANTS
  Claims,        \* claim ids
  Attr,          \* what each claim says: [subject, object, hint, from, until, observed, rank]
  NoEntity,      \* object_id is None: the claim asserts a literal
  MaxRetrieved   \* cap on the candidates of one prompt (MAX_RETRIEVED)

\* rank is the order of the claim ids.  Claim.create refuses an interval
\* that ends before it starts; an absent bound is the least or last instant.
ASSUME DetectAssumption ==
  /\ MaxRetrieved \in Nat \ {0}
  /\ IsFiniteSet(Claims)
  /\ \A c \in Claims :
       /\ Attr[c].from \in Int /\ Attr[c].until \in Int /\ Attr[c].from <= Attr[c].until
       /\ Attr[c].observed \in Int /\ Attr[c].rank \in Nat
  /\ \A c, d \in Claims : Attr[c].rank = Attr[d].rank => c = d

Entities(c, aliases) ==
  {Canonical(aliases, e) : e \in {Attr[c].subject, Attr[c].object} \ {NoEntity}}

SharesBlock(c, d, aliases) ==
  /\ Attr[c].hint = Attr[d].hint
  /\ Entities(c, aliases) \cap Entities(d, aliases) # {}

\* build_block.  The pool holds no rejected claim.
Block(c, pool, aliases) == {d \in pool \ {c} : SharesBlock(c, d, aliases)}

\* intervals_overlap, on half-open intervals.
Overlap(c, d) ==
  Attr[c].from < Attr[d].until /\ Attr[d].from < Attr[c].until

Gated(c, pool, aliases) == {d \in Block(c, pool, aliases) : Overlap(c, d)}

\* The newest first, then in the order of the ids.
RanksAbove(d, e) ==
  \/ Attr[d].observed > Attr[e].observed
  \/ Attr[d].observed = Attr[e].observed /\ Attr[d].rank < Attr[e].rank

\* Mutant of Submitted: the cap is off by one.
SubmittedOneLess(c, pool, aliases) ==
  LET gated == Gated(c, pool, aliases)
  IN  {d \in gated : Cardinality({e \in gated : RanksAbove(e, d)}) < MaxRetrieved - 1}

\* The candidates in the prompt.
Submitted(c, pool, aliases) ==
  LET gated == Gated(c, pool, aliases)
  IN  {d \in gated : Cardinality({e \in gated : RanksAbove(e, d)}) < MaxRetrieved}

\* Contradiction.create: the row's id covers the subject of the claim being
\* examined and the two claims, in no order.
RowOf(c, d) == [subject |-> Attr[c].subject, sides |-> {c, d}]
=============================================================================
