----------------------------- MODULE MCReconcile -----------------------------
(***************************************************************************)
(* Instances of Reconcile: one or two claims about one relation, written   *)
(* on given days.                                                          *)
(***************************************************************************)
EXTENDS Reconcile, TLC

CONSTANTS c1, c2, x1, x2, ann, bob, NoOne

Says(subject, object, observed, rank) ==
  [subject |-> subject, object |-> object, hint |-> "treasurer", from |-> 0,
   until |-> 10, observed |-> observed, rank |-> rank]

\* Two documents that meet in bob, the object of one and the subject of the
\* other: a finding is filed under ann or under bob, by who is examined.
SharedName ==
  [c \in Claims |-> IF c = c1 THEN Says(ann, bob, 0, 1) ELSE Says(bob, NoOne, 1, 2)]

NoEdges == {}
OneEdge == {[alias |-> bob, canonical |-> ann]}

\* Executions close the night one after the other: nothing that one of them
\* finds, records or proposes depends on how their last steps interleave.
OneCloses ==
  Cardinality({x \in Executions : pc[x] \in {"snapshot", "reread", "propose", "mail"}}) <= 1

\* At most one execution has died, or has a failed call behind it, or has
\* recorded an answer that did not parse.
OneFault ==
  Cardinality({x \in Executions : \/ pc[x] = "dead"
                                  \/ skipped[x] # {}
                                  \/ \E ex \in exams : ex.by = x /\ ~ex.parsed}) <= 1

\* There is a second day only after a night of the first, without decisions,
\* and no execution of the first works on into it.
SecondDayIsQuiet ==
  Today = 2 =>
    /\ now = Midnight(2) /\ Heartbeats(log) # {}
    /\ OfType(log, DecisionTypes \cup {"contradiction.resolved", "entity.alias_linked"}) = {}
    /\ \A x \in Executions : run[x] = 1 => pc[x] \in {"done", "dead"}

\* An execution that does not die also invites: initiation that fails is a
\* matter of ReconcileNights.
InitiationSucceeds == \A x \in Executions : pc[x] = "done" => run[x] \in mailed

\* Approvals change nothing but the stale beliefs, which ReconcileNights has.
NoneApproved == OfType(log, {"claim.committed"}) = {}

\* One claim is approved on the first day, among runs in real mode, and is
\* stale on the second.
OneApproval ==
  /\ OfType(log, {"claim.rejected"}) = {}
  /\ Committed(log) # {} => \A x \in Executions : pc[x] = "idle" \/ mode[x] = "real"
  /\ Today = 2 => now = Midnight(2)

\* A second claim is there only on the first day, undecided, and among the
\* executions of Scheduler in real mode, which do not get to propose: two
\* claims are for the calls and the deaths between them, one for the nights.
SecondClaimIsExamined ==
  /\ KnownClaims(log) # {c2}
  /\ KnownClaims(log) = {c1, c2} =>
       /\ Today = 1 /\ OneFault
       /\ OfType(log, DecisionTypes \cup {"contradiction.resolved"}) = {}
       /\ \A x \in Executions :
            \/ pc[x] = "idle"
            \/ mode[x] = "real" /\ sched[x] /\ pc[x] \notin {"propose", "mail"}

Executors == Permutations(Executions)
=============================================================================
