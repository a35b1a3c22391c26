----------------------------- MODULE SessionTurns -----------------------------
(***************************************************************************)
(* The session endpoints of the interview service (interview/service.py)   *)
(* over SessionStore: open, turns, answers, close, and the pages that only *)
(* read.  Requests run in threads of several instances; the one thing they *)
(* share is the log, from which each loads the session anew, and, inside   *)
(* an instance, the cache of agendas.  An instance may be killed at any    *)
(* time.                                                                   *)
(*                                                                         *)
(* The log appears as the sets of its events by type.  One persona, so a   *)
(* session is named by the instant it was opened at.  An agenda is the     *)
(* sequence of the open disagreements it was generated from: its items are *)
(* named by their positions (ag-01, ag-02, ...).  Words stand for a text   *)
(* long enough to be held against the record.                              *)
(***************************************************************************)
EXTENDS Integers, FiniteSets, Sequences, SequencesExt

CONSTANTS
  Requests,    \* requests, each made once
  Instances,   \* service instances
  Words,       \* what a partner may say
  Rows,        \* disagreements
  FirstLedger, \* the open ones at the beginning, in the order of the agenda
  FollowUpBudget, MaxFollowUpDepth,
  MaxNow,      \* bound on the clock
  MaxLedgers,  \* bound on the number of ledgers, one after another
  NoWords, NoRow

ASSUME SessionAssumption ==
  /\ FirstLedger \in Seq(Rows)
  /\ FollowUpBudget \in Nat /\ MaxFollowUpDepth \in Nat
  /\ MaxNow \in Nat \ {0} /\ MaxLedgers \in Nat \ {0}
  /\ NoWords \notin Words /\ NoRow \notin Rows

VARIABLES
  opened,    \* session.opened events
  turns,     \* session.turn events
  closed,    \* session.closed events
  claims,    \* claim.asserted events of these endpoints
  ledgers,   \* the ledgers so far, the present one last
  now,
  req,       \* each request's local variables
  agendas,   \* per instance: the agendas it caches, by session
  wrote,     \* history: the turns each request has recorded
  overlaps   \* history: pairs of requests in flight at once on one session

logVars  == <<opened, turns, closed, claims>>
histVars == <<wrote, overlaps>>
vars     == <<logVars, ledgers, now, req, agendas, histVars>>

-----------------------------------------------------------------------------
(* SessionStore: a session is folded out of its own events.                *)

\* read_all returns events by (occurred_at, event_id).
ReadBefore(t, u) == t.at < u.at \/ (t.at = u.at /\ t.h < u.h)

Own(all, sid) == {t \in all : t.sid = sid}

\* Turns are collected by their id t-<index>: of two with one index the one
\* read last is kept.
Kept(all, sid) ==
  {t \in Own(all, sid) : \A u \in Own(all, sid) : u.index = t.index => ~ReadBefore(t, u)}

\* The turns of a session come in the order of their instants, then indexes.
ComesBefore(t, u) == t.at < u.at \/ (t.at = u.at /\ t.index < u.index)

InOrder(S) ==
  [n \in 1..Cardinality(S) |->
     CHOOSE t \in S : Cardinality({u \in S : ComesBefore(u, t)}) = n - 1]

Load(all, sid) == InOrder(Kept(all, sid))

IsAgent(t)   == t.role = "agent"
IsOfficer(t) == t.role = "officer"

\* The positions of the questions in a list.
Asked(list) == {n \in DOMAIN list : IsAgent(list[n])}

\* Mutant of NextIndex: the index of the last turn is taken again.
NextIndexOfLast(list) == IF list = <<>> THEN 0 ELSE Last(list).index

\* Session.next_index.
NextIndex(list) == Len(list)

\* Mutant of NextUnanswered: the answer right after the question is missed.
NextUnansweredLate(list) ==
  {list[n] : n \in {p \in Asked(list) :
     /\ p = Max(Asked(list))
     /\ ~\E t \in ToSet(list) : IsOfficer(t) /\ t.index > list[p].index + 1}}

\* next_unanswered: the last question, unless an answer has a higher index.
\* No turn of this service is a confirmation.
NextUnanswered(list) ==
  {list[n] : n \in {p \in Asked(list) :
     /\ p = Max(Asked(list))
     /\ ~\E t \in ToSet(list) : IsOfficer(t) /\ t.index > list[p].index}}

\* An appended turn has an id of its own.  Where the ids decide which of two
\* turns is read last, every order is possible.
WithId(t) ==
  LET rivals == {u \in turns : u.sid = t.sid /\ u.index = t.index /\ u.at = t.at}
      same == {u \in rivals : [u EXCEPT !.h = 0] = t}
      ranks == {u.h : u \in rivals}
  IN  IF same # {} THEN same
      ELSE IF rivals = {} THEN {t}
      ELSE {[t EXCEPT !.h = h] : h \in ({r + 1 : r \in ranks} \cup {r - 1 : r \in ranks}) \ ranks}

-----------------------------------------------------------------------------
(* The agenda of a session and the place in it.                            *)

Ledger == Last(ledgers)

Cached(i, sid) == {a \in agendas[i] : a.sid = sid}

\* Mutant of Regenerated: a regenerated agenda is not in the ledger's order.
RegeneratedReversed(sid) ==
  {[sid |-> sid, items |-> Reverse(ledgers[v])] : v \in DOMAIN ledgers}

\* _Runtime.agenda on a miss generates from the cached state, which may be
\* that of an earlier ledger; so may an agenda that a page was the first to
\* ask for, while only reading.
Regenerated(sid) == {[sid |-> sid, items |-> ledgers[v]] : v \in DOMAIN ledgers}

AgendaOf(i, sid) == IF Cached(i, sid) # {} THEN Cached(i, sid) ELSE Regenerated(sid)

PutAgenda(i, a) ==
  agendas' = [agendas EXCEPT ![i] = {b \in @ : b.sid # a.sid} \cup {a}]

\* _current_item: the position of the latest question that is on the agenda,
\* else the first item; 0 when there is none.
CurrentItem(items, list) ==
  LET known == {n \in Asked(list) : list[n].item \in DOMAIN items}
  IN  IF known # {} THEN list[Max(known)].item ELSE IF items = <<>> THEN 0 ELSE 1

CurrentDepth(list) == IF Asked(list) = {} THEN 0 ELSE list[Max(Asked(list))].depth

AgentTurn(kind, items, p, depth) ==
  [role |-> "agent", kind |-> kind, item |-> p, row |-> items[p], depth |-> depth,
   words |-> NoWords]

DepthLimit == IF FollowUpBudget < MaxFollowUpDepth THEN FollowUpBudget ELSE MaxFollowUpDepth

\* Interviewer.plan_next: a divergence, or a follow-up within the budget, or
\* the next item; none when the agenda is exhausted.  Whether the model finds
\* a divergence, or asks again, is free.
Plans(items, p, depth) ==
  {AgentTurn("divergence", items, p, depth)}
  \cup (IF depth < DepthLimit THEN {AgentTurn("follow_up", items, p, depth + 1)} ELSE {})
  \cup (IF p < Len(items) THEN {AgentTurn("agenda", items, p + 1, 0)} ELSE {})

\* The agenda is exhausted: nothing diverges, nothing is asked again, no item
\* is left.
MayEnd(items, p) == p >= Len(items)

-----------------------------------------------------------------------------
(* Requests.                                                               *)

Idle == [pc |-> "idle", kind |-> "none", inst |-> "none",
         sid |-> -1, at |-> 0, list |-> <<>>, items |-> <<>>, item |-> 0,
         words |-> NoWords, plan |-> <<>>]

Set(r, state) == req' = [req EXCEPT ![r] = state]
Step(r, pc)   == Set(r, [req[r] EXCEPT !.pc = pc])

\* What a request held is gone when it ends.
Over(r, pc) == Set(r, [Idle EXCEPT !.pc = pc])

InFlight(r) == req[r].pc \notin {"idle", "done", "dead"}

Meets(r, S) == overlaps' = overlaps \cup {{r, s} : s \in S \ {r}}

\* now_millis().
Clock(t) == t \in {now, now + 1} /\ t <= MaxNow

\* The event of a turn that request r appends.
TurnEvent(r, at, what) ==
  [sid |-> req[r].sid, index |-> NextIndex(req[r].list), at |-> at, h |-> 0,
   role |-> what.role, kind |-> what.kind, item |-> what.item, row |-> what.row,
   depth |-> what.depth, words |-> what.words]

AppendTurn(r, e, state) ==
  /\ turns' = turns \cup {e}
  /\ wrote' = [wrote EXCEPT ![r] = @ \cup {e}]
  /\ Set(r, [state EXCEPT !.list = Append(@, e)])

\* open_session: nothing to talk about is a refusal.  Otherwise the session
\* is in the log, and its agenda in the cache, before the first question.
Open(r, i) ==
  /\ req[r].pc = "idle"
  /\ \E t \in {now, now + 1} :
       /\ Clock(t)
       /\ now' = t
       /\ IF Ledger = <<>>
            THEN /\ Over(r, "done")
                 /\ UNCHANGED <<opened, agendas, overlaps>>
            ELSE /\ opened' = opened \cup {t}
                 /\ PutAgenda(i, [sid |-> t, items |-> Ledger])
                 /\ Set(r, [Idle EXCEPT !.pc = "opening", !.kind = "open", !.inst = i,
                                        !.sid = t, !.items = Ledger])
                 /\ Meets(r, {s \in Requests : req[s].sid = t \/ \E e \in wrote[s] : e.sid = t})
  /\ UNCHANGED <<turns, closed, claims, ledgers, wrote>>

OpeningTurn(r) ==
  /\ req[r].pc = "opening"
  /\ \E e \in WithId(TurnEvent(r, req[r].sid, AgentTurn("agenda", req[r].items, 1, 0))) :
       /\ turns' = turns \cup {e}
       /\ wrote' = [wrote EXCEPT ![r] = @ \cup {e}]
  /\ Over(r, "done")
  /\ UNCHANGED <<opened, closed, claims, ledgers, now, agendas, overlaps>>

\* partner_turn and answer: the session is loaded, the agenda looked up, and
\* the place in it found.  Only answer refuses when there is no item.
Receive(r, i, kind, sid, words) ==
  /\ req[r].pc = "idle"
  /\ \E t \in {now, now + 1}, a \in AgendaOf(i, sid) :
       LET list == Load(turns, sid)
           item == CurrentItem(a.items, list)
       IN  /\ Clock(t)
           /\ now' = t
           /\ PutAgenda(i, a)
           /\ IF kind = "answer" /\ item = 0 THEN Over(r, "done")
              ELSE Set(r, [pc |-> "record", kind |-> kind, inst |-> i, sid |-> sid,
                           at |-> t, list |-> list, items |-> a.items, item |-> item,
                           words |-> words, plan |-> <<>>])
  /\ Meets(r, {s \in Requests : InFlight(s) /\ req[s].sid = sid})
  /\ UNCHANGED <<logVars, ledgers, wrote>>

OfficerTurn(r) ==
  [role |-> "officer", kind |-> "answer", item |-> req[r].item, row |-> NoRow,
   depth |-> 0, words |-> req[r].words]

AfterRecord(r) == IF req[r].kind = "turn" THEN "extract" ELSE "plan"

\* Mutant of Record: the turn is kept in memory until the reply.
RecordLater(r) ==
  /\ req[r].pc = "record"
  /\ Set(r, [req[r] EXCEPT !.pc = AfterRecord(r),
                           !.list = Append(@, TurnEvent(r, req[r].at, OfficerTurn(r)))])
  /\ UNCHANGED <<logVars, ledgers, now, agendas, histVars>>

\* The partner's turn is appended before anything that needs the model.
Record(r) ==
  /\ req[r].pc = "record"
  /\ \E e \in WithId(TurnEvent(r, req[r].at, OfficerTurn(r))) :
       AppendTurn(r, e, [req[r] EXCEPT !.pc = AfterRecord(r)])
  /\ UNCHANGED <<opened, closed, claims, ledgers, now, agendas, overlaps>>

ClaimOf(r, row, by) ==
  [sid |-> req[r].sid, turn |-> NextIndex(req[r].list) - 1, words |-> req[r].words,
   row |-> row, by |-> by]

\* _extract_beliefs and the appends of what it found.
Extract(r) ==
  /\ req[r].pc = "extract"
  /\ \/ /\ Step(r, "plan")
        /\ UNCHANGED claims
     \/ /\ claims' = claims \cup {ClaimOf(r, NoRow, "extract")}
        /\ Step(r, "detect")
  /\ UNCHANGED <<opened, turns, closed, ledgers, now, agendas, histVars>>

\* _detect_on_write: it finds nothing, or fails, or opens a disagreement that
\* may come anywhere in the ledger's order.
Detect(r) ==
  /\ req[r].pc = "detect"
  /\ \/ UNCHANGED ledgers
     \/ /\ Len(ledgers) < MaxLedgers
        /\ \E k \in Rows \ ToSet(Ledger), p \in 1..Len(Ledger) + 1 :
             ledgers' = Append(ledgers, InsertAt(Ledger, p, k))
  /\ Step(r, "plan")
  /\ UNCHANGED <<logVars, now, agendas, histVars>>

\* Of what a request held only the length of the session is used again.
Replying(q, p) ==
  [q EXCEPT !.pc = "reply", !.plan = p, !.kind = "none", !.items = <<>>, !.item = 0,
            !.words = NoWords]

\* The reply is planned.  A divergence mints the new side before the reply.
Plan(r) ==
  /\ req[r].pc = "plan"
  /\ req[r].item # 0
  /\ \E p \in Plans(req[r].items, req[r].item, CurrentDepth(req[r].list)) :
       /\ Set(r, Replying(req[r], p))
       /\ claims' = IF p.kind = "divergence" /\ req[r].kind = "turn"
                      THEN claims \cup {ClaimOf(r, p.row, "interview")} ELSE claims
  /\ UNCHANGED <<opened, turns, closed, ledgers, now, agendas, histVars>>

\* The agenda is exhausted, or the session has none.
NothingToAsk(r) ==
  /\ req[r].pc = "plan"
  /\ req[r].item = 0 \/ MayEnd(req[r].items, req[r].item)
  /\ Over(r, "done")
  /\ UNCHANGED <<logVars, ledgers, now, agendas, histVars>>

\* Extraction or planning raises: 503, and the turn stays.
Unreachable(r) ==
  /\ req[r].pc \in {"extract", "plan"}
  /\ Over(r, "done")
  /\ UNCHANGED <<logVars, ledgers, now, agendas, histVars>>

Reply(r) ==
  /\ req[r].pc = "reply"
  /\ \E t \in {now, now + 1} :
       /\ Clock(t)
       /\ now' = t
       /\ \E e \in WithId(TurnEvent(r, t, req[r].plan)) :
            /\ turns' = turns \cup {e}
            /\ wrote' = [wrote EXCEPT ![r] = @ \cup {e}]
  /\ Over(r, "done")
  /\ UNCHANGED <<opened, closed, claims, ledgers, agendas, overlaps>>

\* A closed session still takes turns.
Close(r, sid) ==
  /\ req[r].pc = "idle"
  /\ \E t \in {now, now + 1} :
       /\ Clock(t)
       /\ now' = t
       /\ closed' = closed \cup {[sid |-> sid, at |-> t, count |-> Len(Load(turns, sid))]}
  /\ Over(r, "done")
  /\ UNCHANGED <<opened, turns, claims, ledgers, agendas, histVars>>

\* The instance is stopped, with whatever runs on it.
Kill(i) ==
  /\ agendas[i] # {}
  /\ agendas' = [agendas EXCEPT ![i] = {}]
  /\ req' = [r \in Requests |->
               IF InFlight(r) /\ req[r].inst = i
                 THEN [Idle EXCEPT !.pc = "dead"]
                 ELSE req[r]]
  /\ UNCHANGED <<logVars, ledgers, now, histVars>>

\* Elsewhere a disagreement is decided.
Retire ==
  /\ Len(ledgers) < MaxLedgers
  /\ \E p \in DOMAIN Ledger : ledgers' = Append(ledgers, RemoveAt(Ledger, p))
  /\ UNCHANGED <<logVars, now, req, agendas, histVars>>

-----------------------------------------------------------------------------
Init ==
  /\ opened = {} /\ turns = {} /\ closed = {} /\ claims = {}
  /\ ledgers = <<FirstLedger>>
  /\ now = 0
  /\ req = [r \in Requests |-> Idle]
  /\ agendas = [i \in Instances |-> {}]
  /\ wrote = [r \in Requests |-> {}]
  /\ overlaps = {}

Next ==
  \/ \E r \in Requests :
       \/ \E i \in Instances :
            \/ Open(r, i)
            \/ \E sid \in opened, kind \in {"turn", "answer"}, w \in Words :
                 Receive(r, i, kind, sid, w)
       \/ OpeningTurn(r)
       \/ Record(r)
       \/ Extract(r)
       \/ Detect(r)
       \/ Plan(r)
       \/ NothingToAsk(r)
       \/ Unreachable(r)
       \/ Reply(r)
       \/ \E sid \in opened : Close(r, sid)
  \/ \E i \in Instances : Kill(i)
  \/ Retire

Spec == Init /\ [][Next]_vars

-----------------------------------------------------------------------------
(* Properties.                                                             *)

\* register_session_sources: to the audit of citations a session is a source,
\* and its units are the turns in the log, by their ids.  Of two turns with one
\* id it takes the one on the later line, which may be either.
Testimony(sid, n) == {t \in turns : t.sid = sid /\ t.index = n}

\* A claim anchored in a turn quotes a turn of the partner that is in the log
\* under that index, wherever the request was killed, so that the audit finds
\* it: recording comes before everything that depends on the model (the
\* comment on partner_turn).  Where requests have overlapped, the audit may
\* come to read another turn there.
AnchoredInTheLog ==
  \A c \in claims :
    LET cited == {t \in Testimony(c.sid, c.turn) : IsOfficer(t) /\ t.words = c.words}
    IN  /\ cited # {}
        /\ overlaps = {} => cited = Testimony(c.sid, c.turn)

\* A recorded turn is missing from the session as it is loaded only if
\* another one has its index that was recorded by a request in flight at the
\* same time: kills, retries, other instances and equal instants lose nothing.
LostOnlyByOverlap ==
  LET loaded == UNION {ToSet(Load(turns, sid)) : sid \in opened}
  IN \A r \in Requests : \A t \in wrote[r] \ loaded :
       \E s \in Requests :
         {r, s} \in overlaps /\ \E u \in wrote[s] : u.sid = t.sid /\ u.index = t.index

\* The question a resumed process asks again is the last one recorded, and
\* no answer to it is recorded: one is asked again exactly when it is still
\* open, whatever was killed between the answer and the next question.
ReaskedExactlyWhenOpen ==
  overlaps = {} =>
    \A sid \in opened :
      LET own == Own(turns, sid)
          open == {q \in own : IsAgent(q) /\ \A t \in own : t = q \/ t.index < q.index}
      IN  NextUnanswered(Load(turns, sid)) = open

\* Filed under the question before it, if the session has asked one: its first
\* may never have been recorded.
FiledRightly(c) ==
  LET list == Load(turns, c.sid)
      asked == {n \in Asked(list) : list[n].index < c.turn}
  IN  asked # {} => c.row = list[Max(asked)].row

\* As long as the ledger does not change, the claim minted from an answer is
\* filed under the disagreement whose question was answered, on whatever
\* instance, with whatever agenda regenerated (the service's docstring).
FiledUnderItsQuestion ==
  overlaps = {} /\ Len(ledgers) = 1 =>
    \A c \in claims : c.by = "interview" => FiledRightly(c)

\* While requests on a session come one by one, what was said is never
\* rewritten: the loaded session only grows, and at its end.
SpokenOnly ==
  [][overlaps' = {} =>
       \A sid \in opened : IsPrefix(Load(turns, sid), Load(turns', sid))]_vars

=============================================================================
