------------------------------ MODULE Doctrine ------------------------------
(***************************************************************************)
(* The doctrine: which committed beliefs are rules in force for an         *)
(* audience (doctrine/compiler.py), and what changed between two doctrines *)
(* (doctrine/diff.py).  Both are functions of the folded log, of which     *)
(* they need [committed, rejected, visibility, found, resolved]: the       *)
(* claims by tier, what was chosen for each claim, and the disagreements.  *)
(***************************************************************************)
EXTENDS Detect, Sequences

CONSTANTS
  Wording,     \* what each claim says (_content_key)
  BeliefShaped \* claims said in an interview, or with a hint of BELIEF_HINTS

ASSUME DoctrineAssumption == BeliefShaped \subseteq Claims /\ DOMAIN Wording = Claims

-----------------------------------------------------------------------------
(* The boundary (schema/visibility.py).                                    *)

Audiences == {"public", "org", "successor", "owner"}

Clearance(audience) ==
  CASE audience = "public" -> 0 [] audience = "org" -> 1
    [] audience = "successor" -> 2 [] audience = "owner" -> 3

Required(visibility) ==
  CASE visibility = "public" -> 0 [] visibility = "org" -> 1
    [] visibility = "successor" -> 2 [] visibility = "private" -> 3

\* readable_by, of the visibility the fold has for the claim.
ReadableBy(graph, c, audience) == Clearance(audience) >= Required(graph.visibility[c])

\* GraphState.open_contradictions: not resolved, and no side rejected.
Open(graph) == {k \in graph.found \ graph.resolved : k.sides \cap graph.rejected = {}}

-----------------------------------------------------------------------------
(* compile.                                                                *)

Beliefs(graph) == graph.committed \cap BeliefShaped

Slot(c) == <<Attr[c].subject, Attr[c].hint>>

Earlier(c, d) ==
  \/ Attr[c].observed < Attr[d].observed
  \/ Attr[c].observed = Attr[d].observed /\ Attr[c].rank < Attr[d].rank

\* The pairs that say different things in one slot for a common time.
Collisions ==
  {p \in Claims \X Claims :
     Slot(p[1]) = Slot(p[2]) /\ Wording[p[1]] # Wording[p[2]] /\ Overlap(p[1], p[2])}

Collide(c, d) == <<c, d>> \in Collisions

\* Per blocking key, everything that collides with something.
Structural(beliefs) ==
  {{c \in beliefs : Slot(c) = s /\ \E d \in beliefs : Collide(c, d)} :
     s \in {Slot(d) : d \in beliefs}} \ {{}}

\* Open rows all of whose sides are committed beliefs.
OfLedger(graph, beliefs) == {k.sides : k \in {r \in Open(graph) : r.sides \subseteq beliefs}}

\* Mutant of Conflicts: only what the audience may read can collide.
ConflictsReadable(graph, audience) ==
  LET readable == {c \in Beliefs(graph) : ReadableBy(graph, c, audience)}
  IN  Structural(readable) \cup OfLedger(graph, readable)

\* _find_conflicts, over all committed beliefs, readable or not.
Conflicts(graph, audience) == Structural(Beliefs(graph)) \cup OfLedger(graph, Beliefs(graph))

Same(c, d) == Slot(c) = Slot(d) /\ Wording[c] = Wording[d]

\* The restatements of what was said before.
Repeats == {p \in Claims \X Claims : Same(p[1], p[2]) /\ Earlier(p[2], p[1])}

\* Of beliefs that say the same, the one stated first.
Kept(readable) == {c \in readable : ~\E d \in readable : <<c, d>> \in Repeats}

Compile(graph, audience) ==
  LET conflicts == Conflicts(graph, audience)
      undisputed == Beliefs(graph) \ UNION conflicts
      readable == {c \in undisputed : ReadableBy(graph, c, audience)}
  IN  [rules |-> Kept(readable), withheld |-> undisputed \ readable, conflicts |-> conflicts]

-----------------------------------------------------------------------------
(* diff, of two sets of rules.                                             *)

\* The place of a rule among those of its slot, in the doctrine's order.
Place(c, rules) == Cardinality({d \in rules : Slot(d) = Slot(c) /\ Earlier(d, c)})

\* Mutant of Changed: every addition is paired with the first removal.
ChangedFromFirst(old, new) ==
  {p \in (old \ new) \X (new \ old) : Slot(p[1]) = Slot(p[2]) /\ Place(p[1], old \ new) = 0}

\* The additions of a slot are paired with its removals, each with the next.
Changed(old, new) ==
  {p \in (old \ new) \X (new \ old) :
     Slot(p[1]) = Slot(p[2]) /\ Place(p[1], old \ new) = Place(p[2], new \ old)}

Diff(old, new) ==
  LET changed == Changed(old, new)
  IN  [changed |-> changed,
       added   |-> (new \ old) \ {p[2] : p \in changed},
       removed |-> (old \ new) \ {p[1] : p \in changed}]
=============================================================================
