------------------------------- MODULE Partner -------------------------------
(***************************************************************************)
(* PartnerSession (interview/interviewer.py) under its two drivers: the    *)
(* terminal (cli.py, stage_live_interview), where a person answers and the *)
(* model is called live under RetryPolicy, and the replay harness          *)
(* (interview/replay.py), where a script answers, the model's answers come *)
(* from a tape, and the demo then approves what was said (stage_approval). *)
(* Either may be killed at any step; a replay may be run again.            *)
(*                                                                         *)
(* A claim is [turn, n, hint]: the n-th belief of a turn of the user, or   *)
(* with n = 0 the turn itself.  A log is a set of events (EventFold).  All *)
(* beliefs are about the user, and build_belief_claim gives them no limits *)
(* in time: the block of a belief is the pool's beliefs of its hint, and   *)
(* the temporal gate lets all of them through.                             *)
(***************************************************************************)
EXTENDS EventFold, FiniteSets, Sequences, SequencesExt, RetryPolicy

CONSTANTS
  Answers,     \* what the user may say
  Short,       \* those shorter than a claim may be
  Hints,       \* predicate hints of beliefs
  MaxBeliefs,  \* bound on the beliefs of one answer
  IdRank,      \* the order of the ids of one turn's beliefs, which are hashes
  MaxRetrieved, \* cap on the candidates of one prompt (MAX_RETRIEVED)
  Agenda,      \* sequence of [row, rank]: rank is the order of the item ids
  NoRow,       \* the item is a step of the task
  Script,      \* the fixture: the replay's answers
  Blank,       \* an answer without text
  FollowUpBudget, MaxFollowUpDepth, MaxAgentTurns,
  Epoch,       \* REPLAY_EPOCH_SECONDS
  Readings,    \* what a wall clock may show, in any order
  MaxRuns,     \* bound on the replays
  MaxUserTurns \* bound on the answers at the terminal

ASSUME PartnerAssumption ==
  /\ Short \subseteq Answers /\ Agenda \in Seq(ToSet(Agenda)) /\ Script \in Seq(Answers \cup {Blank})
  /\ FollowUpBudget \in Nat /\ MaxFollowUpDepth \in Nat
  /\ Epoch \in Nat /\ Readings \subseteq Nat
  /\ IdRank \in [1..MaxBeliefs -> Nat] /\ MaxRetrieved \in Nat \ {0}
  /\ \A m, n \in 1..MaxBeliefs : IdRank[m] = IdRank[n] => m = n
  /\ MaxRuns \in Nat /\ MaxBeliefs \in Nat /\ MaxUserTurns \in Nat /\ MaxAgentTurns \in Nat \ {0}

VARIABLES
  driver, run,   \* "terminal" or "replay"; the number of this replay
  log,           \* the event store
  pc, why,       \* the step under way; why the loop was left
  turns,         \* session.turns
  item, depth, last,       \* _current_item, _depth, _last_instant
  pool, blocked, pending,  \* _pool, _blocked, _pending_cards
  todo,          \* the beliefs of the turn still to be asserted
  plan,          \* the turn about to be spoken
  call,          \* RetryPolicy: the attempt under way
  tape, played,  \* the cassette: prompts and their answers; the calls of this run
  failed,        \* _FailureWatchingClient.failures is not empty
  queue,         \* stage_approval: the appends still to come
  compared, raised, asked  \* history: pairs put to the model, cards, rows approved

sessionVars == <<turns, item, depth, last, pool, blocked, pending, todo, plan>>
tapeVars    == <<tape, played>>
histVars    == <<compared, raised, asked>>
vars == <<driver, run, log, pc, why, sessionVars, call, tapeVars, failed, queue, histVars>>

NoPlan == [kind |-> "none", item |-> 0, depth |-> 0, said |-> "none", card |-> {}]

-----------------------------------------------------------------------------
(* The clock.                                                              *)

\* Mutant of Instants: the replay reads the wall clock.
InstantsOfWallClock == {IF r > last THEN r ELSE last + 1 : r \in Readings}

\* PartnerSession._now, over the harness's constant or the wall clock.
Instants ==
  {IF r > last THEN r ELSE last + 1 : r \in IF driver = "replay" THEN {Epoch} ELSE Readings}

-----------------------------------------------------------------------------
(* Calls of the model.                                                     *)

\* An attempt fails and another one is due.
Backoff ==
  /\ driver = "terminal"
  /\ pc \in {"work", "extract", "detect", "followup"}
  /\ \E took \in 0..RetryBudget, delay \in 0..MaxDelay :
       /\ MayRetry(call, took, delay)
       /\ call' = NextAttempt(call, took, delay)
  /\ UNCHANGED <<driver, run, log, pc, why, sessionVars, tapeVars, failed, queue, histVars>>

\* Mutant of Block: the pool as it was before the turn.
BlockBeforeTurn(c) == {d \in pool : d.hint = c.hint /\ d.turn # c.turn}

\* build_block, for beliefs about one user.
Block(c) == {d \in pool : d.hint = c.hint}

\* The newest first, then in the order of the ids.
RanksAbove(d, e) == d.turn > e.turn \/ (d.turn = e.turn /\ IdRank[d.n] < IdRank[e.n])

\* detect: the candidates in the prompt, as many as it holds.
Submitted(c) ==
  {d \in Block(c) : Cardinality({e \in Block(c) : RanksAbove(e, d)}) < MaxRetrieved}

\* prompt_fingerprint: what the prompt of the call at hand is made of.
Prompt ==
  CASE pc = "work"     -> <<"work", plan.item>>
    [] pc = "extract"  -> <<"extract", turns[Len(turns)].said>>
    [] pc = "detect"   -> <<"detect", Head(todo), Submitted(Head(todo))>>
    [] pc = "followup" -> <<"followup", item, turns[Len(turns)].said>>

\* The model answers: a replay hears what the cassette holds for the prompt, and
\* what it was not asked before it is found to hold, or is recorded to.
Answered(said) ==
  /\ call' = FirstAttempt
  /\ IF driver = "terminal" THEN UNCHANGED tapeVars
     ELSE /\ IF Prompt \in DOMAIN tape THEN said = tape[Prompt] /\ UNCHANGED tape
               ELSE tape' = [p \in DOMAIN tape \cup {Prompt} |-> IF p = Prompt THEN said ELSE tape[p]]
          /\ played' = played + 1
  /\ UNCHANGED failed

\* The call raises: not worth another attempt, or none is left; in a replay,
\* nothing was recorded, and the watching client notes it.
Raised ==
  /\ call' = FirstAttempt
  /\ driver = "replay" => Prompt \notin DOMAIN tape
  /\ failed' = (driver = "replay")
  /\ UNCHANGED tapeVars

\* _check_failures raises; the terminal has no such check.
Checked(failures, next) == IF failures THEN "refused" ELSE next

-----------------------------------------------------------------------------
(* The session.                                                            *)

AgendaPlan(i, said) == [NoPlan EXCEPT !.kind = "agenda", !.item = i, !.said = said]

\* _plan_for_item: a question is at hand, a step has to be worked out.
PlanItem(i, next) ==
  IF Agenda[i].row # NoRow
    THEN plan' = AgendaPlan(i, "question") /\ pc' = next
    ELSE plan' = AgendaPlan(i, "none") /\ pc' = "work"

\* open.
Open ==
  /\ pc = "start"
  /\ \E t \in Instants :
       /\ last' = t
       /\ log' = log \cup {[type |-> "session.opened", at |-> t, h |-> 0]}
  /\ PlanItem(1, "speak")
  /\ UNCHANGED <<driver, run, why, turns, item, depth, pool, blocked, pending, todo, call,
                 tapeVars, failed, queue, histVars>>

\* _work_step: what the model made of the step; the step's own wording when
\* that is nothing or the call raised.  The replay checks a plan before it is spoken, but not the opening one.
Work ==
  /\ pc = "work"
  /\ \E said \in {"worked", "bare"} :
       /\ Answered(said) \/ (said = "bare" /\ Raised)
       /\ plan' = AgendaPlan(plan.item, said)
       /\ pc' = IF turns = <<>> THEN "speak" ELSE Checked(failed', "speak")
  /\ UNCHANGED <<driver, run, log, why, turns, item, depth, last, pool, blocked, pending, todo,
                 queue, histVars>>

AgentTurns == {n \in DOMAIN turns : turns[n].kind # "answer"}

AppendTurn(t, what) ==
  LET turn == [type |-> "session.turn", at |-> t, h |-> 0, index |-> Len(turns), kind |-> what.kind,
               item |-> what.item, depth |-> what.depth, said |-> what.said, card |-> what.card]
  IN  /\ turns' = Append(turns, turn)
      /\ log' = log \cup {turn}
      /\ last' = t

\* speak, and the replay's cap.
Speak ==
  /\ pc = "speak"
  /\ \E t \in Instants : AppendTurn(t, plan)
  /\ item' = plan.item
  /\ depth' = plan.depth
  /\ plan' = NoPlan
  /\ IF driver = "replay" /\ turns # <<>> /\ Cardinality(AgentTurns) + 1 >= MaxAgentTurns
       THEN pc' = "close" /\ why' = "cap"
       ELSE pc' = Checked(failed, "wait") /\ UNCHANGED why
  /\ UNCHANGED <<driver, run, pool, blocked, pending, todo, call, tapeVars, failed, queue, histVars>>

UserTurns == {n \in DOMAIN turns : turns[n].kind = "answer"}

\* The driver has no more answers: the script is over, or the line is blank.
Stop ==
  /\ pc = "wait"
  /\ driver = "replay" => Cardinality(UserTurns) = Len(Script)
  /\ pc' = "close"
  /\ why' = "no_answer"
  /\ UNCHANGED <<driver, run, log, sessionVars, call, tapeVars, failed, queue, histVars>>

\* observe_user_turn: the turn is in the log before the model is called.
Observe(a) ==
  /\ pc = "wait"
  /\ IF driver = "replay"
       THEN Cardinality(UserTurns) < Len(Script) /\ a = Script[Cardinality(UserTurns) + 1]
       ELSE Cardinality(UserTurns) < MaxUserTurns
  /\ \E t \in Instants :
       AppendTurn(t, [kind |-> "answer", item |-> item, depth |-> depth, said |-> a, card |-> {}])
  /\ pc' = "extract"
  /\ UNCHANGED <<driver, run, why, item, depth, pool, blocked, pending, todo, plan, call, tapeVars,
                 failed, queue, histVars>>

\* What repeats a belief of the same answer word for word has its id, and is
\* left out.
BeliefOf(hints, n) == [turn |-> Len(turns) - 1, n |-> n, hint |-> hints[n]]

\* extract_turn: an answer that does not parse yields nothing.
Extract ==
  /\ pc = "extract"
  /\ \E len \in 0..MaxBeliefs : \E hints \in [1..len -> Hints] :
       /\ Answered(hints)
       /\ todo' = [n \in 1..len |-> BeliefOf(hints, n)]
       /\ pc' = IF len = 0 THEN "plan" ELSE "assert"
  /\ UNCHANGED <<driver, run, log, why, turns, item, depth, last, pool, blocked, pending, plan,
                 queue, histVars>>

\* Nothing catches what extract_turn or detect raises: the terminal ends,
\* and the replay writes no transcript.
Crash ==
  /\ pc \in {"extract", "detect"}
  /\ Raised
  /\ pc' = "refused"
  /\ UNCHANGED <<driver, run, log, why, sessionVars, queue, histVars>>

Asserted(c, t) == [type |-> "claim.asserted", at |-> t, h |-> 0, claim |-> c]

Accept(c) ==
  /\ pool' = pool \cup {c}
  /\ todo' = Tail(todo)
  /\ pc' = IF Len(todo) = 1 THEN "plan" ELSE "assert"

\* Mutant of AssertBelief: the beliefs of a turn are asserted before any is held
\* against the pool.
AssertAll ==
  /\ pc = "assert"
  /\ log' = log \cup {Asserted(c, last) : c \in ToSet(todo)}
  /\ IF Block(Head(todo)) = {} THEN Accept(Head(todo))
     ELSE pc' = "detect" /\ UNCHANGED <<pool, todo>>
  /\ UNCHANGED <<driver, run, why, turns, item, depth, last, blocked, pending, plan, call, tapeVars,
                 failed, queue, histVars>>

\* A belief is in the log before it is held against the pool; with an empty
\* block no model is called.
AssertBelief ==
  /\ pc = "assert"
  /\ log' = log \cup {Asserted(Head(todo), last)}
  /\ IF Block(Head(todo)) = {} THEN Accept(Head(todo))
     ELSE pc' = "detect" /\ UNCHANGED <<pool, todo>>
  /\ UNCHANGED <<driver, run, why, turns, item, depth, last, blocked, pending, plan, call, tapeVars,
                 failed, queue, histVars>>

\* The pairs of a belief and the priors it collides with, oldest first.
Cards(c, found) ==
  LET Older(d, e) == d.turn < e.turn \/ (d.turn = e.turn /\ d.n < e.n)
      nth(n) == CHOOSE d \in found : Cardinality({e \in found : Older(e, d)}) = n - 1
  IN  [n \in 1..Cardinality(found) |-> {c, nth(n)}]

\* detect: a belief that collides is kept out of the pool, and a card is
\* queued for each collision.
Detect ==
  /\ pc = "detect"
  /\ LET c == Head(todo)
     IN  /\ compared' = compared \cup {{c, d} : d \in Submitted(c)}
         /\ \E found \in SUBSET Submitted(c) :
              /\ Answered(found)
              /\ IF found = {}
                   THEN Accept(c) /\ UNCHANGED <<blocked, pending, raised>>
                   ELSE /\ blocked' = blocked \cup {c}
                        /\ pending' = pending \o Cards(c, found)
                        /\ raised' = raised \cup ToSet(Cards(c, found))
                        /\ todo' = Tail(todo)
                        /\ pc' = IF Len(todo) = 1 THEN "plan" ELSE "assert"
                        /\ UNCHANGED pool
  /\ UNCHANGED <<driver, run, log, why, turns, item, depth, last, plan, queue, asked>>

DepthLimit == IF FollowUpBudget < MaxFollowUpDepth THEN FollowUpBudget ELSE MaxFollowUpDepth

\* Mutant of NextItem: the next item by the order of the ids.
NextItemById(i) ==
  {j \in DOMAIN Agenda :
     /\ Agenda[j].rank > Agenda[i].rank
     /\ \A k \in DOMAIN Agenda : Agenda[k].rank > Agenda[i].rank => Agenda[k].rank >= Agenda[j].rank}

\* _next_item: the next position, not the next id.
NextItem(i) == {i + 1} \cap DOMAIN Agenda

\* plan_next moves on to the next item, or the agenda is done.
MoveOn ==
  IF NextItem(item) = {}
    THEN pc' = Checked(failed', "close") /\ why' = "agenda" /\ UNCHANGED plan
    ELSE /\ UNCHANGED why
         /\ \E i \in NextItem(item) :
              IF failed' THEN PlanItem(i, "refused") ELSE PlanItem(i, "speak")

\* plan_next: a queued card comes before anything else, then a clarifier
\* within the budget.
Plan ==
  /\ pc = "plan"
  /\ IF pending # <<>>
       THEN /\ plan' = [kind |-> "divergence", item |-> item, depth |-> depth,
                      said |-> "card", card |-> Head(pending)]
            /\ pending' = Tail(pending)
            /\ pc' = "speak"
            /\ UNCHANGED <<failed, why>>
       ELSE /\ UNCHANGED <<failed, pending>>
            /\ IF depth < DepthLimit THEN pc' = "followup" /\ UNCHANGED <<plan, why>>
                                     ELSE MoveOn
  /\ UNCHANGED <<driver, run, log, turns, item, depth, last, pool, blocked, todo, call, tapeVars,
                 queue, histVars>>

\* compose_follow_up: a question, or nothing is left to ask; a failure moves
\* the session on, and the replay's check stops it.
FollowUp ==
  /\ pc = "followup"
  /\ \/ /\ Answered("question")
        /\ plan' = [kind |-> "follow_up", item |-> item, depth |-> depth + 1,
                    said |-> "question", card |-> {}]
        /\ pc' = "speak"
        /\ UNCHANGED why
     \/ Answered("settled") /\ MoveOn
     \/ Raised /\ MoveOn
  /\ UNCHANGED <<driver, run, log, turns, item, depth, last, pool, blocked, pending, todo, queue,
                 histVars>>

\* close, and the harness's last checks: a run without a model response, or
\* with a failure, has no transcript.
Close ==
  /\ pc = "close"
  /\ \E t \in Instants :
       /\ last' = t
       /\ log' = log \cup {[type |-> "session.closed", at |-> t, h |-> 0]}
  /\ pc' = Checked(failed \/ (driver = "replay" /\ played = 0), "done")
  /\ UNCHANGED <<driver, run, why, turns, item, depth, pool, blocked, pending, todo, plan, call,
                 tapeVars, failed, queue, histVars>>

-----------------------------------------------------------------------------
(* stage_approval.                                                         *)

\* Mutant of ApprovalInstants: the approvals carry the wall clock.
ApprovalInstantsOfWallClock == Readings

\* An instant behind every turn.
ApprovalInstants == {turns[Len(turns)].at + 1}

AnswerClaim(n) == [turn |-> n - 1, n |-> 0, hint |-> "answer"]

\* The turns that claim_from_answer makes a claim of.
Claimed == {n \in DOMAIN turns : turns[n].kind = "answer" /\ turns[n].said \notin Short}

\* Each disagreement is retired with the first claim of its item.
Retires(n) ==
  {Agenda[turns[n].item].row} \ ({NoRow} \cup
    {Agenda[turns[m].item].row : m \in {k \in Claimed : k < n}})

\* What submit appends for one request, each append with its place in the queue.
Approval(c, rows, t, place) ==
  {[place |-> place, event |-> [type |-> "claim.committed", at |-> t, h |-> 0, claim |-> c]],
   [place |-> place + 1,
    event |-> [type |-> "claim.visibility_set", at |-> t, h |-> 0, claim |-> c, vis |-> "successor"]]}
  \cup {[place |-> place + 2, event |-> [type |-> "contradiction.resolved", at |-> t, h |-> 0, row |-> k]] :
          k \in rows}

\* The answers in their order, as claims and then as approvals; the beliefs after
\* them.
Answering == {[place |-> n, event |-> Asserted(AnswerClaim(n), turns[n].at)] : n \in Claimed}

Ratifying(t) == UNION {Approval(AnswerClaim(n), Retires(n), t, 4 * Len(turns) + 3 * n) : n \in Claimed}

Beliefs(t) ==
  UNION {Approval(c, {}, t, 8 * Len(turns) + 3 * (MaxBeliefs * c.turn + c.n)) :
           c \in {d \in KnownClaims(log) : d.n > 0 /\ Tier(log, d) = "pending"}}

\* The answers become claims, and then they and the session's beliefs are
\* approved.  When no answer makes a claim, nothing is.
Approve ==
  /\ pc = "done" /\ driver = "replay"
  /\ \E t \in ApprovalInstants :
       queue' = IF Claimed = {} THEN {} ELSE Answering \cup Ratifying(t) \cup Beliefs(t)
  /\ asked' = UNION {Retires(n) : n \in Claimed}
  /\ pc' = "approving"
  /\ UNCHANGED <<driver, run, log, why, sessionVars, call, tapeVars, failed, compared, raised>>

AppendNext ==
  /\ pc = "approving"
  /\ IF queue = {}
       THEN pc' = "approved" /\ UNCHANGED <<log, queue>>
       ELSE \E x \in queue :
              /\ \A y \in queue : x.place <= y.place
              /\ log' = log \cup {x.event}
              /\ queue' = queue \ {x}
              /\ UNCHANGED pc
  /\ UNCHANGED <<driver, run, why, sessionVars, call, tapeVars, failed, histVars>>

-----------------------------------------------------------------------------
(* Kills and reruns.                                                       *)

Ended == {"done", "refused", "killed", "approved"}

Fresh(at) ==
  /\ pc' = at /\ why' = "none"
  /\ turns' = <<>> /\ item' = 1 /\ depth' = 0 /\ last' = -1
  /\ pool' = {} /\ blocked' = {} /\ pending' = <<>> /\ todo' = <<>> /\ plan' = NoPlan
  /\ call' = FirstAttempt /\ played' = 0 /\ failed' = FALSE /\ queue' = {}
  /\ compared' = {} /\ raised' = {} /\ asked' = {}

\* Of a process that is killed, the log and the tape remain.
Kill ==
  /\ pc \notin Ended
  /\ Fresh("killed")
  /\ UNCHANGED <<driver, run, log, tape>>

\* The replay is run again on the same log with the same agenda, which an
\* approval would have changed.
Rerun ==
  /\ driver = "replay" /\ run < MaxRuns
  /\ pc \in Ended
  /\ \A c \in KnownClaims(log) : c.n > 0
  /\ OfType(log, DecisionTypes) = {}
  /\ run' = run + 1
  /\ Fresh("start")
  /\ UNCHANGED <<driver, log, tape>>

-----------------------------------------------------------------------------
(* What the driver checks before a session is opened.                      *)

\* PartnerScript.validate: an empty turn would consume an agent turn.
Valid(script) == script # <<>> /\ Blank \notin ToSet(script)

\* _resolve_agenda.
AgendaResolved == Agenda # <<>>

\* load_script: a bad fixture fails before anything is appended.
Drivers == {"terminal"} \cup {d \in {"replay"} : Valid(Script)}

\* The disagreements of the agenda are in the log.
Init ==
  /\ AgendaResolved
  /\ driver \in Drivers /\ run = 1
  /\ log = {[type |-> "contradiction.detected", at |-> -1, h |-> 0, row |-> Agenda[i].row] :
              i \in {j \in DOMAIN Agenda : Agenda[j].row # NoRow}}
  /\ pc = "start" /\ why = "none"
  /\ turns = <<>> /\ item = 1 /\ depth = 0 /\ last = -1
  /\ pool = {} /\ blocked = {} /\ pending = <<>> /\ todo = <<>> /\ plan = NoPlan
  /\ call = FirstAttempt /\ tape = <<>> /\ played = 0 /\ failed = FALSE /\ queue = {}
  /\ compared = {} /\ raised = {} /\ asked = {}

Next ==
  \/ Backoff \/ Open \/ Work \/ Speak \/ Stop
  \/ \E a \in Answers : Observe(a)
  \/ Extract \/ Crash \/ AssertBelief \/ Detect \/ Plan \/ FollowUp \/ Close
  \/ Approve \/ AppendNext
  \/ Kill \/ Rerun

Spec == Init /\ [][Next]_vars

-----------------------------------------------------------------------------
(* Properties.                                                             *)

Earlier(c, d) == c.turn < d.turn \/ (c.turn = d.turn /\ c.n < d.n)

\* Any two beliefs of the pool that share a hint were put to the model
\* together, and it did not find them to collide, whatever was blocked before
\* and whether they came in one turn or in two.  The one way to be passed over
\* is the cap: when the second was said, the pool had as many beliefs of the
\* hint as a prompt holds that rank above the first.
PoolCompared ==
  \A c, d \in pool :
    c.hint = d.hint /\ Earlier(c, d) =>
      /\ {c, d} \notin raised
      /\ \/ {c, d} \in compared
         \/ MaxRetrieved <=
              Cardinality({e \in pool : e.hint = d.hint /\ Earlier(e, d) /\ RanksAbove(e, c)})

\* At any moment, and so after any failure or kill, at most one belief is in
\* the log that the session neither pooled nor blocked; and a belief that it
\* pooled or blocked is in the log, where an approval can find it.
OneUndetected ==
  LET known == {c \in KnownClaims(log) : c.n > 0}
  IN  /\ pool \cup blocked \subseteq known
      /\ run = 1 /\ pc # "killed" => Cardinality(known \ (pool \cup blocked)) <= 1

\* A session that ends because its agenda is done has asked every item, once
\* and in the agenda's order, has followed up none beyond the budget, and has
\* spoken every collision it found.
AgendaWorked ==
  why = "agenda" =>
    /\ LET asks == {n \in DOMAIN turns : turns[n].kind = "agenda"}
       IN  /\ {turns[n].item : n \in asks} = DOMAIN Agenda
           /\ \A m, n \in asks : m < n => turns[m].item < turns[n].item
    /\ \A i \in DOMAIN Agenda :
         Cardinality({n \in DOMAIN turns : turns[n].kind = "follow_up" /\ turns[n].item = i}) <= DepthLimit
    /\ raised \subseteq {turns[n].card : n \in DOMAIN turns}

\* What the harness keeps of a turn of the user: what was made of it.
UserRecord(n) ==
  [turn |-> turns[n],
   accepted |-> {c \in pool : c.turn = n - 1},
   blocked  |-> {c \in blocked : c.turn = n - 1},
   cards    |-> {k \in raised : \E c \in k \cap blocked : c.turn = n - 1}]

\* to_transcript: its records, its counts, and why it ended.
Transcript ==
  [agent |-> {turns[n] : n \in AgentTurns},
   user  |-> {UserRecord(n) : n \in UserTurns},
   consumed |-> Cardinality(UserTurns), accepted |-> Cardinality(pool),
   blocked  |-> Cardinality(blocked), cards |-> Cardinality(raised),
   covered  |-> {turns[n].item : n \in AgentTurns}, stop |-> why]

\* A replay that comes to its end is the script's and nothing else's: no call
\* of it was lost, and its transcript's turns, beliefs and counts are those of
\* the log, however often an earlier replay of the same script was killed or
\* refused (the comment on the harness's clock).  The one exception is a replay
\* refused because its opening step was not worked out: the bare step was
\* spoken before the check, and stays.
ReplayRepeats ==
  driver = "replay" /\ pc = "done" =>
    LET spoken == OfType(log, {"session.turn"})
        told == Transcript.agent \cup {r.turn : r \in Transcript.user}
    IN  /\ ~failed /\ told \subseteq spoken
        /\ \A t \in spoken \ told : t.said = "bare" /\ t.index = 0
        /\ KnownClaims(log) = UNION {r.accepted \cup r.blocked : r \in Transcript.user}
        /\ Transcript.accepted + Transcript.blocked = Cardinality(KnownClaims(log))
        /\ Transcript.stop = "no_answer" => Transcript.consumed = Len(Script)
        /\ Transcript.stop = "agenda" => Transcript.covered = DOMAIN Agenda

\* When the demo has approved, whatever the clock showed, every claim of the
\* session is committed and every disagreement that was answered is retired;
\* and where it is interrupted, none is retired whose answer is not committed.
ApprovedTakesEffect ==
  /\ pc = "approved" /\ Claimed # {} =>
       KnownClaims(log) = Committed(log) /\ asked \subseteq Resolved(log)
  /\ \A k \in Resolved(log) :
       \E t \in OfType(log, {"session.turn"}) :
         /\ t.kind = "answer" /\ Agenda[t.item].row = k
         /\ AnswerClaim(t.index + 1) \in Committed(log)

=============================================================================
