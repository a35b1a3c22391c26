------------------------------ MODULE Reconcile ------------------------------
(***************************************************************************)
(* The nightly Job (reconcile/job.py, initiate.py), run by any number of   *)
(* executions at once: Cloud Scheduler's, its retries, and runs started by *)
(* hand, all of which share the run id of their UTC day.  Each reads the   *)
(* log once, examines every claim the log does not record as adjudicated,  *)
(* appends what it finds, closes the night with a heartbeat, and reads the *)
(* log again to propose a session.  Meanwhile claims arrive, are decided   *)
(* and linked, and any execution may die between two appends.              *)
(*                                                                         *)
(* The log is AppendOnlyLog's: a set, to which an append adds atomically.  *)
(* A run's events are stamped with the midnight that opens its UTC day;    *)
(* people's acts with the instant they happen.                             *)
(***************************************************************************)
EXTENDS Detect

CONSTANTS
  Executions,   \* Job executions
  Modes,        \* the modes they may be started in: "stub", "real"
  Triggers,     \* what may start them: "cloud-scheduler", "manual"
  Edges,        \* identity edges that may be linked: [alias, canonical]
  DayLen,       \* instants in a UTC day: bounds people's acts per day
  LastDay,      \* bound on the number of days
  StaleDays,    \* STALE_AFTER_DAYS
  MaxAgenda,    \* MAX_AGENDA_ITEMS
  NoClaim

ASSUME ReconcileAssumption ==
  /\ Modes \subseteq {"stub", "real"}
  /\ Triggers \subseteq {"cloud-scheduler", "manual"}
  /\ DayLen \in Nat \ {0} /\ LastDay \in Nat /\ StaleDays \in Nat /\ MaxAgenda \in Nat
  /\ NoClaim \notin Claims

VARIABLES
  log,       \* the events
  now,       \* the clock
  pc,        \* where each execution is
  run,       \* its UTC day, from the run id
  sched,     \* whether Cloud Scheduler started it
  mode,
  events,    \* the events it read last
  todo,      \* the claims it has still to examine
  claim,     \* the claim it is recording
  answer,    \* the model's answer on that claim: [parsed, rows]
  left,      \* the rows of the answer still to append
  skipped,   \* the claims whose examination failed
  exams,     \* history: the examinations the log records
  ledgers,   \* history: the ledgers snapshotted, [run, rows, compared, before]
  mailed     \* history: the days an invitation was sent for

runVars  == <<run, sched, mode>>
examVars == <<claim, answer, left>>
jobVars  == <<pc, runVars, events, todo, examVars, skipped>>
histVars == <<exams, ledgers, mailed>>
vars     == <<log, now, jobVars, histVars>>

Days == 1..LastDay
Today == now \div DayLen
Midnight(day) == day * DayLen

-----------------------------------------------------------------------------
(* Appending.  The id of an event covers everything but its scheduled      *)
(* flag; an event whose id the log holds is not written.                   *)

\* Mutant of SameId: the scheduled flag is hashed as well.
SameIdAndFlag(e, f) == e = f

SameId(e, f) ==
  /\ DOMAIN e = DOMAIN f
  /\ \A k \in DOMAIN e \ {"sched"} : e[k] = f[k]

Appended(e) == IF \E f \in log : SameId(e, f) THEN log ELSE log \cup {e}

\* Events carry h = 0: people's acts have an instant each, and nothing below
\* depends on the order of the ids of one run's events.
DetectedEvent(x, row) ==
  [type |-> "contradiction.detected", at |-> Midnight(run[x]), h |-> 0,
   sched |-> sched[x], row |-> row]

AdjudicatedEvent(x) ==
  [type |-> "claim.adjudicated", at |-> Midnight(run[x]), h |-> 0,
   sched |-> sched[x], claim |-> claim[x]]

Trigger(x) == IF sched[x] THEN "cloud-scheduler" ELSE "manual"

\* Only the stub's heartbeat has the trigger in its payload, hence in its id:
\* of runs in real mode the flag is all that tells who started them.
HeartbeatEvent(x) ==
  IF mode[x] = "stub"
    THEN [type |-> "heartbeat", at |-> Midnight(run[x]), h |-> 0, sched |-> sched[x],
          mode |-> "stub", trigger |-> Trigger(x)]
    ELSE [type |-> "heartbeat", at |-> Midnight(run[x]), h |-> 0, sched |-> sched[x],
          mode |-> "real"]

ProposedEvent(x, agenda) ==
  [type |-> "session.proposed", at |-> Midnight(run[x]), h |-> 0,
   sched |-> sched[x], trigger |-> Trigger(x), agenda |-> agenda]

-----------------------------------------------------------------------------
(* An execution starts: it derives its run id from the clock and, in real  *)
(* mode, reads the log and selects the claims never adjudicated.           *)

Go(x, to) == pc' = [pc EXCEPT ![x] = to]

NoAnswer == [parsed |-> TRUE, rows |-> {}]

\* The variables of a finished loop or function are gone.
ForgetClaim(x) ==
  /\ claim' = [claim EXCEPT ![x] = NoClaim]
  /\ answer' = [answer EXCEPT ![x] = NoAnswer]
  /\ left' = [left EXCEPT ![x] = {}]

End(x, as) ==
  /\ Go(x, as)
  /\ events' = [events EXCEPT ![x] = {}]
  /\ todo' = [todo EXCEPT ![x] = {}]
  /\ skipped' = [skipped EXCEPT ![x] = {}]
  /\ ForgetClaim(x)
  /\ UNCHANGED runVars

\* Mutant of Start: the pool holds only the claims still to examine.
StartWithoutPast(x, trigger, m) ==
  /\ pc[x] = "idle"
  /\ Today \in Days
  /\ run' = [run EXCEPT ![x] = Today]
  /\ sched' = [sched EXCEPT ![x] = (trigger = "cloud-scheduler")]
  /\ mode' = [mode EXCEPT ![x] = m]
  /\ LET past == {e \in log : "claim" \in DOMAIN e /\ e.claim \in Adjudicated(log)}
     IN  events' = [events EXCEPT ![x] = log \ past]
  /\ todo' = [todo EXCEPT ![x] = Retrievable(log) \ Adjudicated(log)]
  /\ Go(x, "examine")
  /\ UNCHANGED <<log, now, examVars, skipped, histVars>>

Start(x, trigger, m) ==
  /\ pc[x] = "idle"
  /\ Today \in Days
  /\ run' = [run EXCEPT ![x] = Today]
  /\ sched' = [sched EXCEPT ![x] = (trigger = "cloud-scheduler")]
  /\ mode' = [mode EXCEPT ![x] = m]
  /\ IF m = "stub"
       THEN UNCHANGED <<events, todo>>
       ELSE /\ events' = [events EXCEPT ![x] = log]
            /\ todo' = [todo EXCEPT ![x] = Retrievable(log) \ Adjudicated(log)]
  /\ Go(x, "examine")
  /\ UNCHANGED <<log, now, examVars, skipped, histVars>>

-----------------------------------------------------------------------------
(* One claim is examined against the pool as it was read at the start.     *)

Asked(x, c) == Submitted(c, Retrievable(events[x]), Aliases(events[x]))

\* Mutant of ExamineFails: one failed call ends the loop over the claims.
ExamineFailsAll(x, c) ==
  /\ pc[x] = "examine"
  /\ c \in todo[x]
  /\ Asked(x, c) # {}
  /\ todo' = [todo EXCEPT ![x] = {}]
  /\ skipped' = [skipped EXCEPT ![x] = @ \cup {c}]
  /\ UNCHANGED <<log, now, pc, runVars, events, examVars, histVars>>

\* The call raises: the claim is left without a claim.adjudicated event.
ExamineFails(x, c) ==
  /\ pc[x] = "examine"
  /\ c \in todo[x]
  /\ Asked(x, c) # {}
  /\ todo' = [todo EXCEPT ![x] = @ \ {c}]
  /\ skipped' = [skipped EXCEPT ![x] = @ \cup {c}]
  /\ UNCHANGED <<log, now, pc, runVars, events, examVars, histVars>>

\* The model names some of the candidates (an id that was not in the prompt
\* is discarded), or its answer does not parse, or there was nobody to ask
\* about.  The claims come in the order they were asserted, which nothing
\* below depends on.
Examine(x, c) ==
  /\ pc[x] = "examine"
  /\ c \in todo[x]
  /\ LET asked == Asked(x, c)
     IN  \E named \in SUBSET asked, parsed \in BOOLEAN :
           /\ ~parsed => asked # {} /\ named = {}
           /\ LET rows == {RowOf(c, d) : d \in named}
              IN  /\ answer' = [answer EXCEPT ![x] = [parsed |-> parsed, rows |-> rows]]
                  /\ left' = [left EXCEPT ![x] = rows]
  /\ claim' = [claim EXCEPT ![x] = c]
  /\ Go(x, "record")
  /\ UNCHANGED <<log, now, runVars, events, todo, skipped, histVars>>

\* Each finding is appended, and only then the examination itself.
Record(x, row) ==
  /\ pc[x] = "record"
  /\ row \in left[x]
  /\ log' = Appended(DetectedEvent(x, row))
  /\ left' = [left EXCEPT ![x] = @ \ {row}]
  /\ UNCHANGED <<now, pc, runVars, events, todo, claim, answer, skipped, histVars>>

Exam(x) ==
  [by |-> x, claim |-> claim[x], pool |-> Retrievable(events[x]),
   asked |-> Asked(x, claim[x]), parsed |-> answer[x].parsed, found |-> answer[x].rows]

\* Mutant of Adjudicate: the examination is recorded before its findings.
AdjudicateFirst(x) ==
  /\ pc[x] = "record"
  /\ log' = Appended(AdjudicatedEvent(x))
  /\ exams' = exams \cup {Exam(x)}
  /\ todo' = [todo EXCEPT ![x] = @ \ {claim[x]}]
  /\ ForgetClaim(x)
  /\ Go(x, "examine")
  /\ UNCHANGED <<now, runVars, events, skipped, ledgers, mailed>>

Adjudicate(x) ==
  /\ pc[x] = "record"
  /\ left[x] = {}
  /\ log' = Appended(AdjudicatedEvent(x))
  /\ exams' = exams \cup {Exam(x)}
  /\ todo' = [todo EXCEPT ![x] = @ \ {claim[x]}]
  /\ ForgetClaim(x)
  /\ Go(x, "examine")
  /\ UNCHANGED <<now, runVars, events, skipped, ledgers, mailed>>

-----------------------------------------------------------------------------
(* The night closes.                                                       *)

Heartbeat(x) ==
  /\ pc[x] = "examine"
  /\ todo[x] = {}
  /\ log' = Appended(HeartbeatEvent(x))
  /\ Go(x, IF mode[x] = "stub" THEN "reread" ELSE "snapshot")
  /\ UNCHANGED <<now, runVars, events, todo, examVars, skipped, histVars>>

\* Mutant of PriorRun: the night of a retry is compared with itself.
PriorRunAny(x) ==
  {e \in Heartbeats(events[x]) : \A f \in Heartbeats(events[x]) : f.at <= e.at}

\* _prior_run: the last heartbeat of another night, as it was at the start.
PriorRun(x) ==
  LET others == {e \in Heartbeats(events[x]) : e.at # Midnight(run[x])}
  IN  {e \in others : \A f \in others : f.at <= e.at}

\* _snapshot_as_of: the ledger of the events up to that heartbeat.
LastNight(x) ==
  OpenRows({e \in events[x] : \E heartbeat \in PriorRun(x) : e.at <= heartbeat.at})

\* Tonight's ledger, from a new read of the log, beside last night's.
Snapshot(x) ==
  /\ pc[x] = "snapshot"
  /\ ledgers' = ledgers \cup
       {[run |-> run[x], rows |-> OpenRows(log),
         compared |-> PriorRun(x) # {}, before |-> LastNight(x)]}
  /\ Go(x, "reread")
  /\ UNCHANGED <<log, now, runVars, events, todo, examVars, skipped, exams, mailed>>

-----------------------------------------------------------------------------
(* The next session is proposed.                                           *)

\* Mutant of Reread: the agenda is built from what was read at the start.
RereadNot(x) ==
  /\ pc[x] = "reread"
  /\ Go(x, "propose")
  /\ UNCHANGED <<log, now, runVars, events, todo, examVars, skipped, histVars>>

Reread(x) ==
  /\ pc[x] = "reread"
  /\ events' = [events EXCEPT ![x] = log]
  /\ Go(x, "propose")
  /\ UNCHANGED <<log, now, runVars, todo, examVars, skipped, histVars>>

Touches(evs, c) == {e.at : e \in {f \in evs : "claim" \in DOMAIN f /\ f.claim = c}}

\* stale_beliefs: committed, and named by no event since the cutoff.
Stale(evs, day) ==
  {c \in Committed(evs) : \A t \in Touches(evs, c) : t <= Midnight(day - StaleDays)}

\* Touched last no later than d.
OlderThan(evs, c, d) == \A t \in Touches(evs, c) : \E u \in Touches(evs, d) : t <= u

\* The size best elements, when a precedes b allows a before b.
Best(S, size, Precedes(_, _)) ==
  {T \in SUBSET S :
     /\ Cardinality(T) = IF Cardinality(S) < size THEN Cardinality(S) ELSE size
     /\ \A a \in T, b \in S \ T : Precedes(a, b)}

\* build_agenda: open rows first, by a score that is not modelled, then the
\* stalest beliefs in the slots that remain.
Agendas(evs, day) ==
  UNION {{[rows |-> R, stale |-> S] :
            S \in Best(Stale(evs, day), MaxAgenda - Cardinality(R),
                       LAMBDA c, d : OlderThan(evs, c, d))} :
         R \in Best(OpenRows(evs), MaxAgenda, LAMBDA k, l : TRUE)}

\* Mutant of Propose: nothing is appended on a night Scheduler did not start.
ProposeUnsaved(x) ==
  /\ pc[x] = "propose"
  /\ \E agenda \in Agendas(events[x], run[x]) :
       log' = IF sched[x] THEN Appended(ProposedEvent(x, agenda)) ELSE log
  /\ Go(x, "mail")
  /\ UNCHANGED <<now, runVars, events, todo, examVars, skipped, histVars>>

Propose(x) ==
  /\ pc[x] = "propose"
  /\ \E agenda \in Agendas(events[x], run[x]) :
       log' = Appended(ProposedEvent(x, agenda))
  /\ Go(x, "mail")
  /\ UNCHANGED <<now, runVars, events, todo, examVars, skipped, histVars>>

\* The invitation is sent whether the append wrote or collided.
Mail(x) ==
  /\ pc[x] = "mail"
  /\ mailed' = mailed \cup {run[x]}
  /\ End(x, "done")
  /\ UNCHANGED <<log, now, exams, ledgers>>

\* Initiation raises, or the send fails: swallowed, the run has succeeded.
InitiateFails(x) ==
  /\ pc[x] \in {"reread", "propose", "mail"}
  /\ End(x, "done")
  /\ UNCHANGED <<log, now, histVars>>

\* Killed, or an append or a read raised: what was appended stays.
Die(x) ==
  /\ pc[x] \notin {"idle", "done", "dead"}
  /\ End(x, "dead")
  /\ UNCHANGED <<log, now, histVars>>

-----------------------------------------------------------------------------
(* Meanwhile: documents are ingested at the date they were written, people *)
(* decide claims, answer contradictions and link names, and days pass.     *)

AssertClaim(c) ==
  /\ Attr[c].observed <= now
  /\ c \notin KnownClaims(log)
  /\ log' = Appended([type |-> "claim.asserted", at |-> Attr[c].observed, h |-> 0,
                      sched |-> FALSE, claim |-> c])
  /\ UNCHANGED <<now, jobVars, histVars>>

Act(e) ==
  /\ (now + 1) % DayLen # 0
  /\ now' = now + 1
  /\ log' = Appended(e)
  /\ UNCHANGED <<jobVars, histVars>>

Decide(c, type) ==
  /\ c \in KnownClaims(log)
  /\ Act([type |-> type, at |-> now + 1, h |-> 0, sched |-> FALSE, claim |-> c])

Resolve(row) ==
  /\ row \in OpenRows(log)
  /\ Act([type |-> "contradiction.resolved", at |-> now + 1, h |-> 0,
          sched |-> FALSE, row |-> row])

Link(edge) ==
  Act([type |-> "entity.alias_linked", at |-> now + 1, h |-> 0, sched |-> FALSE,
       alias |-> edge.alias, canonical |-> edge.canonical])

NextDay ==
  /\ Today < LastDay
  /\ now' = Midnight(Today + 1)
  /\ UNCHANGED <<log, jobVars, histVars>>

-----------------------------------------------------------------------------
Init ==
  /\ log = {}
  /\ now = Midnight(1)
  /\ pc = [x \in Executions |-> "idle"]
  /\ run = [x \in Executions |-> 0]
  /\ sched = [x \in Executions |-> FALSE]
  /\ mode = [x \in Executions |-> "stub"]
  /\ events = [x \in Executions |-> {}]
  /\ todo = [x \in Executions |-> {}]
  /\ claim = [x \in Executions |-> NoClaim]
  /\ answer = [x \in Executions |-> NoAnswer]
  /\ left = [x \in Executions |-> {}]
  /\ skipped = [x \in Executions |-> {}]
  /\ exams = {}
  /\ ledgers = {}
  /\ mailed = {}

\* Every step an execution takes by itself.
Step(x) ==
  \/ \E c \in todo[x] : Examine(x, c) \/ ExamineFails(x, c)
  \/ \E row \in left[x] : Record(x, row)
  \/ Adjudicate(x)
  \/ Heartbeat(x)
  \/ Snapshot(x)
  \/ Reread(x)
  \/ Propose(x)
  \/ Mail(x)
  \/ InitiateFails(x)

Next ==
  \/ \E x \in Executions :
       \/ \E trigger \in Triggers, m \in Modes : Start(x, trigger, m)
       \/ Step(x)
       \/ Die(x)
  \/ \E c \in Claims :
       \/ AssertClaim(c)
       \/ \E type \in DecisionTypes : Decide(c, type)
  \/ \E row \in OpenRows(log) : Resolve(row)
  \/ \E edge \in Edges : Link(edge)
  \/ NextDay

Spec == Init /\ [][Next]_vars

\* A container that is scheduled runs on; nothing obliges it to start, to
\* die, or people to act.
FairSpec == Spec /\ \A x \in Executions : WF_vars(Step(x))

-----------------------------------------------------------------------------
(* Properties.                                                             *)

PCs == {"idle", "examine", "record", "snapshot", "reread", "propose", "mail",
        "done", "dead"}

AllRows == [subject : {Attr[c].subject : c \in Claims}, sides : SUBSET Claims]

\* Executions stay within their types, name claims only, and each read a
\* part of the log; past examinations are of claims and rows.
TypeOK ==
  /\ KnownClaims(log) \subseteq Claims
  /\ Rows(log) \subseteq AllRows
  /\ now \in Nat
  /\ pc \in [Executions -> PCs]
  /\ run \in [Executions -> 0..LastDay]
  /\ sched \in [Executions -> BOOLEAN]
  /\ mode \in [Executions -> {"stub", "real"}]
  /\ events \in [Executions -> SUBSET log]
  /\ todo \in [Executions -> SUBSET Claims]
  /\ claim \in [Executions -> Claims \cup {NoClaim}]
  /\ \A x \in Executions : pc[x] = "record" => claim[x] \in Claims
  /\ answer \in [Executions -> [parsed : BOOLEAN, rows : SUBSET AllRows]]
  /\ left \in [Executions -> SUBSET AllRows]
  /\ skipped \in [Executions -> SUBSET Claims]
  /\ exams \subseteq
       [by : Executions, claim : Claims, pool : SUBSET Claims, asked : SUBSET Claims,
        parsed : BOOLEAN, found : SUBSET AllRows]
  /\ ledgers \subseteq [run : 0..LastDay, rows : SUBSET AllRows,
                         compared : BOOLEAN, before : SUBSET AllRows]
  /\ mailed \subseteq 0..LastDay

NeverRejected(c) == \A e \in OfType(log, {"claim.rejected"}) : e.claim # c

\* No pair of claims slips between two examinations: of any two claims that
\* the log records as adjudicated and nobody ever rejected, one examination
\* recorded in the log had the other claim in its pool, although every
\* execution works on the pool it read at its start, several run at once and
\* any of them may have died.
EveryPairCompared ==
  \A c, d \in Adjudicated(log) :
    c # d /\ NeverRejected(c) /\ NeverRejected(d) =>
      \E ex \in exams : \/ ex.claim = c /\ d \in ex.pool
                        \/ ex.claim = d /\ c \in ex.pool

\* As long as nobody links identities, a pair that shares a block and whose
\* intervals overlap was also put to the model, by one of the two, unless
\* there were more candidates than the prompt holds.
NoPairMissed ==
  OfType(log, {"entity.alias_linked"}) = {} =>
    \A c, d \in Adjudicated(log) :
      /\ c # d /\ NeverRejected(c) /\ NeverRejected(d)
      /\ SharesBlock(c, d, Aliases(log)) /\ Overlap(c, d)
      => \E ex \in exams :
           /\ {ex.claim} \subseteq {c, d}
           /\ \/ {c, d} \subseteq {ex.claim} \cup ex.asked
              \/ Cardinality(Gated(ex.claim, ex.pool, Aliases(log))) > MaxRetrieved

\* A claim recorded as adjudicated has every finding of that examination in
\* the ledger, wherever the execution died: a death costs a repeated call,
\* never a finding (the comment above the claim.adjudicated append).
NoFindingLost ==
  /\ Adjudicated(log) \subseteq {ex.claim : ex \in exams}
  /\ \A ex \in exams : ex.found \subseteq Rows(log)

\* The executions that have closed their night.
Closed == {x \in Executions : pc[x] \in {"snapshot", "reread", "propose", "mail", "done"}}

\* Heartbeats count nights and not attempts: however many executions a night
\* has, its heartbeats in one mode are one, but for two of the stub, one of
\* which Scheduler started and the other a hand.  And none is missing: a
\* night that was closed has the heartbeat of that mode in the log, although
\* the append of it may have met the heartbeat of another execution.
NightsNotAttempts ==
  /\ \A e, f \in Heartbeats(log) :
       e.at = f.at /\ e.mode = f.mode /\ e # f => e.mode = "stub" /\ e.trigger # f.trigger
  /\ \A x \in Closed :
       \E e \in Heartbeats(log) :
         /\ e.at = Midnight(run[x]) /\ e.mode = mode[x]
         /\ e.mode = "stub" => e.trigger = Trigger(x)

\* An invitation goes out only for a night whose proposal is in the log.
MailedIsRecorded ==
  \A day \in mailed : \E e \in log : e.type = "session.proposed" /\ e.at = Midnight(day)

\* diff_snapshots: what a night reports as new on the ledger.
Added(night) == night.rows \ night.before

\* What a night found first is reported as new by every execution of that night
\* that reports at all: a retry does not compare the night with itself and say
\* that nothing changed (_prior_run).
FoundTonightIsReported ==
  \A night \in {l \in ledgers : l.compared} :
    \A row \in night.rows :
      (\A e \in OfType(log, {"contradiction.detected"}) :
          e.row = row => e.at >= Midnight(night.run))
      => row \in Added(night)

\* A proposal's agenda holds every row that its own execution found and that
\* is still open, whatever happened since it read the log at its start,
\* unless the agenda is full.
AgendaCoversTonight ==
  [][\A x \in Executions :
       pc[x] = "propose" /\ pc'[x] = "mail" =>
         \E e \in log' :
           /\ e.type = "session.proposed" /\ e.at = Midnight(run[x])
           /\ \/ Cardinality(e.agenda.rows) = MaxAgenda
              \/ \A ex \in exams : ex.by = x =>
                   \A row \in ex.found \cap OpenRows(log) :
                     (\A c \in row.sides : NeverRejected(c)) => row \in e.agenda.rows
    ]_vars

\* A claim an execution has to examine is adjudicated in the end, unless its
\* call failed or the execution died.
EveryClaimReached ==
  \A x \in Executions, c \in Claims :
    c \in todo[x] ~> c \in Adjudicated(log) \/ c \in skipped[x] \/ pc[x] = "dead"
=============================================================================
