------------------------------- MODULE Dossier -------------------------------
(***************************************************************************)
(* The dossier service (dossier/service.py) before an audience: the record *)
(* it publishes, the doctrine with what changed in the last epoch, and the *)
(* librarian's answers (dossier/librarian.py).  All are made from a fold   *)
(* that the instance keeps for a while; only the diff reads the log again. *)
(* Meanwhile others append to the log, and a visitor may reject what the   *)
(* page shows.                                                             *)
(*                                                                         *)
(* The steps inside _Runtime.state are the subject of StateCache; here it  *)
(* is one step.  All claims are asserted before anything else happens.     *)
(***************************************************************************)
EXTENDS Ledger

CONSTANTS
  Audience,   \* BARAZA_PUBLIC_AUDIENCE
  Chosen,     \* visibilities that are chosen
  Histories,  \* the sets of claims that may be approved at first
  TTL,        \* STATE_TTL_SECONDS, in ticks
  MaxClaims,  \* max_claims of the librarian
  Questions,  \* the sets of claims whose words match a question
  MaxEvents,  \* bound on the events after the first
  NoState, NoQuestion

ASSUME DossierAssumption ==
  /\ Audience \in Audiences /\ Chosen \subseteq Visibilities
  /\ Histories \subseteq SUBSET Claims
  /\ Questions \subseteq SUBSET Claims
  /\ TTL \in Nat /\ MaxClaims \in Nat \ {0} /\ MaxEvents \in Nat

VARIABLES
  graph,    \* the fold of the log
  epoch,    \* the fold of the log up to the last session, if there is one
  state,    \* _Runtime: the cached fold
  age,      \* ticks since it was read
  question, \* the librarian's request: [claims, cited, unpublished]
  events,   \* the number of events so far
  gone,     \* history: ticks since each claim was last published, 0 while it is
  since     \* history: ticks since the last session was opened

vars == <<graph, epoch, state, age, question, events, gone, since>>

-----------------------------------------------------------------------------
(* The record.                                                             *)

\* _public_claims: committed and readable.
PublicClaims(g) == {c \in g.committed : ReadableBy(g, c, Audience)}

\* _record_summary: the count of what is withheld, without its content.
RecordSummary(g) ==
  [published |-> Cardinality(PublicClaims(g)),
   withheld  |-> Cardinality(g.committed \ PublicClaims(g))]

\* _resolve_doctrine: the quotes are looked up by the claims' ids again.
DoctrinePage(g) == {c \in Compile(g, Audience).rules : ReadableBy(g, c, Audience)}

\* The cached fold is used for so long.
Fresh == state # NoState /\ age <= TTL

\* _Runtime.state: what a request works on.
Current == IF Fresh THEN state ELSE graph

\* Mutant of Serve: the time to live starts again with every read.
ServeRenewing == state' = Current /\ age' = 0

Serve ==
  IF Fresh THEN UNCHANGED <<state, age>> ELSE state' = graph /\ age' = 0

\* _resolve_doctrine_diff: the log up to the last session, read again, against
\* the fold at hand, which need not be of the present log.
DoctrineDiff(before, now) ==
  Diff(Compile(before, Audience).rules, Compile(now, Audience).rules)

\* What the entries of the diff name in full: rules of both sides, in the words
\* of the doctrine they are from.
Printed(g) ==
  IF epoch = NoState THEN {}
  ELSE LET it == DoctrineDiff(epoch, g)
       IN  it.added \cup it.removed \cup UNION {{p[1], p[2]} : p \in it.changed}

\* The claims some page quotes: the record and the dossier, the doctrine and its
\* diff, and the rows of the ledger, of which those quoted whole are also asked
\* about.
Shown(g) ==
  PublicClaims(g) \cup DoctrinePage(g) \cup Printed(g)
    \cup UNION {Quoted(g, k, Audience) : k \in Open(g)}

Forever == TTL + 1   \* a bound on gone and since

\* An event is appended, dated after all others: the fold changes by it.
Record(g) ==
  /\ events < MaxEvents
  /\ events' = events + 1
  /\ graph' = g
  /\ gone' = [c \in Claims |-> IF c \in PublicClaims(g) THEN 0 ELSE gone[c]]

Ratified(c) == [graph EXCEPT !.committed = @ \cup {c}, !.rejected = @ \ {c}]
Retracted(c) == [graph EXCEPT !.committed = @ \ {c}, !.rejected = @ \cup {c}]

-----------------------------------------------------------------------------
(* What happens elsewhere: approvals, the Job, sessions.                   *)

Elsewhere ==
  /\ \/ \E c \in Claims :
          \/ c \notin graph.committed /\ Record(Ratified(c))
          \/ c \notin graph.rejected /\ Record(Retracted(c))
          \/ \E v \in Chosen \ {graph.visibility[c]} :
               c \in graph.committed /\ Record([graph EXCEPT !.visibility[c] = v])
     \/ \E k \in Disputes :
          \/ k \notin graph.found /\ Record([graph EXCEPT !.found = @ \cup {k}])
          \/ k \in Open(graph) /\ Record([graph EXCEPT !.resolved = @ \cup {k}])
  /\ UNCHANGED <<epoch, state, age, question, since>>

OpenSession ==
  /\ Record(graph)
  /\ epoch' = graph /\ since' = 0
  /\ UNCHANGED <<state, age, question>>

-----------------------------------------------------------------------------
(* Requests.                                                               *)

\* A page is read: what it shows is a function of Current, below.
Visit ==
  /\ Serve
  /\ UNCHANGED <<graph, epoch, question, events, gone, since>>

\* dossier_reject: the fold is read anew, and only what the page shows can be
\* rejected; afterwards the fold is dropped.
Reject(c) ==
  /\ c \in PublicClaims(graph)
  /\ Record(Retracted(c))
  /\ state' = NoState /\ age' = 0
  /\ UNCHANGED <<epoch, question, since>>

\* It answers 404, or the append is refused: the fold that was read stays.
RejectNot ==
  /\ state' = graph /\ age' = 0
  /\ UNCHANGED <<graph, epoch, question, events, gone, since>>

\* Librarian.retrieve: the claims that match, all alike, up to the cap in the
\* order of their ids.  What may not be read is not given to the model.
Retrieve(matching) ==
  LET found == PublicClaims(Current) \cap matching
  IN  {c \in found : Cardinality({d \in found : Attr[d].rank < Attr[c].rank}) < MaxClaims}

\* Librarian.ask, up to the call: with nothing to give it, no call is made.
Ask(matching) ==
  /\ Serve
  /\ LET given == Retrieve(matching)
     IN  question' = IF given = {} THEN NoQuestion
                     ELSE [claims |-> given, cited |-> {},
                           unpublished |-> {c \in Claims : gone[c] > TTL}]
  /\ UNCHANGED <<graph, epoch, events, gone, since>>

\* Mutant of Verified: whatever the model names is cited.
VerifiedNot(named) == named

\* A citation counts only if its claim was given to the model.
Verified(named) == named \cap question.claims

\* The model answers and names claims, perhaps some not given to it, or none.  A
\* failure, "insufficient", and an answer none of whose citations checks out are
\* refusals.
Reply(named) ==
  /\ question # NoQuestion /\ question.cited = {}
  /\ question' = IF Verified(named) = {} THEN NoQuestion
                 ELSE [question EXCEPT !.cited = Verified(named)]
  /\ UNCHANGED <<graph, epoch, state, age, events, gone, since>>

\* The instance starts anew.
Restart ==
  /\ state' = NoState /\ age' = 0 /\ question' = NoQuestion
  /\ UNCHANGED <<graph, epoch, events, gone, since>>

\* Time passes; counters stop where more makes no difference.
Tick ==
  /\ age' = IF Fresh THEN age + 1 ELSE age
  /\ gone' = [c \in Claims |->
                IF c \in PublicClaims(graph) \/ gone[c] = Forever THEN gone[c] ELSE gone[c] + 1]
  /\ since' = IF since = Forever THEN since ELSE since + 1
  /\ UNCHANGED <<graph, epoch, state, question, events>>

-----------------------------------------------------------------------------
\* Some disagreements were found and some claims approved, with one choice for
\* all of them; if any was, a session was opened after that.
Init ==
  /\ \E committed \in Histories, found \in SUBSET Disputes, v \in Chosen :
       graph = [committed |-> committed, rejected |-> {}, found |-> found, resolved |-> {},
                visibility |-> [c \in Claims |-> IF c \in committed THEN v ELSE "private"]]
  /\ epoch = IF graph.committed = {} THEN NoState ELSE graph
  /\ state = NoState /\ age = 0 /\ question = NoQuestion /\ events = 0
  /\ gone = [c \in Claims |-> IF c \in PublicClaims(graph) THEN 0 ELSE Forever]
  /\ since = 0

Next ==
  \/ Elsewhere
  \/ OpenSession
  \/ Visit
  \/ \E c \in Claims : Reject(c)
  \/ \E named \in SUBSET Claims : Reply(named)
  \/ RejectNot
  \/ \E matching \in Questions : Ask(matching)
  \/ Restart
  \/ Tick

Spec == Init /\ [][Next]_vars

-----------------------------------------------------------------------------
(* Properties.                                                             *)

\* Nobody is shown, or cited, a claim that has not been published for longer
\* than the fold may live, whatever was retracted or closed meanwhile; an
\* answer counts from the moment it was asked for.  The exception is the diff: a
\* rule of the last epoch that is in force no more stays on the page until the
\* next session is opened, however long ago it was taken back.
ShownWasPublished ==
  /\ \A c \in Shown(Current) :
       \/ gone[c] <= TTL
       \/ /\ epoch # NoState /\ since > TTL
          /\ c \in Compile(epoch, Audience).rules \ Compile(Current, Audience).rules
  /\ question # NoQuestion => question.cited \cap question.unpublished = {}

\* For the audience and for the owner, no rule in force collides with another
\* committed belief, be it one the audience may not read, or is a side of an
\* open disagreement of committed beliefs; and every rule the audience is
\* shown is, in its words, a rule of the owner (compiler.py, _find_conflicts:
\* a private rule cannot be silently outvoted).
NothingDisputedInForce ==
  LET beliefs == Beliefs(graph)
      owners == Compile(graph, "owner").rules
      shown == Compile(graph, Audience).rules
  IN  /\ \A c \in owners \cup shown :
           /\ ~\E d \in beliefs : Collide(c, d)
           /\ ~\E k \in Open(graph) : c \in k.sides /\ k.sides \subseteq beliefs
      /\ \A c \in shown : \E d \in owners : Same(c, d)

\* The boundary takes away words, never questions: whatever the audience may
\* not read, its agenda asks of the same rows in the same order as the owner's,
\* and it is told as many open rows and committed beliefs; but it is given no
\* citation it may not read, and a row the public page asks about is quoted
\* whole (agenda.py: downgraded, not dropped; ledger.py: the count is honest).
BoundaryKeepsAgenda ==
  LET agenda == Agenda(graph, Audience)
      owners == Agenda(graph, "owner")
  IN  /\ [i \in DOMAIN agenda |-> agenda[i].row] = [i \in DOMAIN owners |-> owners[i].row]
      /\ \A i \in DOMAIN agenda : \A c \in agenda[i].cited : ReadableBy(graph, c, Audience)
      /\ \A i \in DOMAIN owners : owners[i].cited = owners[i].row.sides
      /\ LedgerSummary(graph, Audience).open = LedgerSummary(graph, "owner").open
      /\ RecordSummary(graph).published + RecordSummary(graph).withheld
           = Cardinality(graph.committed)
      /\ Range(AgendaPreview(graph, Audience)) =
           {k \in Open(graph) : FullyReadable(graph, k, Audience)}
      /\ Len(AgendaPreview(graph, Audience)) = LedgerSummary(graph, Audience).whole

\* What the page says of the last epoch is exact: with its removals and
\* changes taken away and its additions put in, the rules of before are the
\* rules it shows, and each rule appears in one entry only.
DiffAccounts ==
  epoch # NoState =>
  LET new == Compile(Current, Audience).rules
      old == Compile(epoch, Audience).rules
      it == DoctrineDiff(epoch, Current)
      outs == {p[1] : p \in it.changed}
      ins == {p[2] : p \in it.changed}
  IN  /\ (old \ (it.removed \cup outs)) \cup it.added \cup ins = new
      /\ it.removed \cap outs = {} /\ it.added \cap ins = {}
      /\ Cardinality(outs) = Cardinality(it.changed) /\ Cardinality(ins) = Cardinality(it.changed)

=============================================================================
