# Baraza in TLA+

Baraza keeps the institutional memory of an organisation as an append-only log
of events, folds the log into a graph of claims, looks for contradictions every
night, and asks people about them. This directory holds TLA+ modules that model
the code under `src/`, TLC configurations that check them on small instances,
and TLAPS proofs of what matters most. `PROJECT.json` lists the components, the
runs, the mutants, the line of code behind each definition, the hazards and the
theorems. Paths below are relative to `src/src/baraza` unless they say
otherwise.

1. [The system](#1-the-system)
2. [Modules](#2-modules)
3. [Runs and bounds](#3-runs-and-bounds)
4. [Fairness](#4-fairness)
5. [Proofs](#5-proofs)
6. [Disagreements between the code and its texts](#6-disagreements-between-the-code-and-its-texts)
7. [What is not modelled](#7-what-is-not-modelled)

## 1. The system

Everything that lasts is in one log. Cloud Run services, a nightly Cloud Run
Job, an ingest Job and the demo at a terminal read all of it, fold it, act, and
append. Nothing locks the log; it is shared by every instance of every service
and every execution of the Jobs. The ids of events are hashes of their content,
and an append of an id that the log has is a no-op: this is the only
coordination there is.

| component | state | operations | hard behaviour | what makes it correct |
|---|---|---|---|---|
| event schema and fold: `schema/event.py`, `fold/graph.py` | `GraphState`, a pure function of the log | `order_key`, `fold`, `_apply`, `retrievable_claims`, `open_contradictions`, `resolve_entity` | events arrive late and backdated; several share a millisecond; a decision may sort before what it decides | the order of arrival does not matter; a late event overturns no later decision |
| local store: `fold/store.py` | one file, a cached index of ids and a lock per instance | `append`, `read_all` | several processes over one file, several threads, a kill or an error inside the write | it is an append-only log; a kill or an error costs at most what was being written |
| production store: `fold/store.py` | a Firestore collection | `append` by `create()`, `read_all` | lost replies, resends, exceptions, deaths | it is the same append-only log; nobody is told twice that an event is new |
| contradiction detection: `reconcile/detect.py` | none | `build_block`, `detect` | a cap on the prompt, aliases, malformed answers | a pair is left out only for a stated reason |
| nightly Job: `reconcile/job.py`, `initiate.py`, `src/deploy/entrypoint-job.sh` | none but the log and snapshots | `run_stub`, `run_real`, `_prior_run`, `_snapshot_as_of`, `diff_snapshots`, `propose_session` | retried and concurrent executions, death between two appends, reads that grow stale | no pair escapes, no finding is lost, a retry reports the night, one heartbeat a night, no invitation without a proposal |
| approval flow: `interview/approval.py` and its endpoints in `interview/service.py`, `dossier/service.py` | none but the log | `submit`; `approve`, `adjudicate_divergence`, `dossier_reject` | interleaved and interrupted submissions, ties inside one submission | the latest answered decision holds, and nothing is retired before it |
| state cache: `_Runtime` of both services | `_state`, `_state_at` | `state`, `invalidate` | threads share the fields without a lock; other instances write | the next read sees a write |
| sessions and turns: `interview/service.py`, `session_store.py`, `schema/session.py` | session events in the log, an agenda cached per instance | `open`, `partner_turn`, `answer`, `close`, `load`, `next_unanswered` | overlapping requests on one session, a kill between a turn and its reply, an agenda generated anew on another instance | what was said stays; an open question is asked again, an answered one is not; an answer is filed under its question |
| `PartnerSession`: `interview/interviewer.py` | turns, position, pool, blocked beliefs, queued cards | `open`, `speak`, `observe_user_turn`, `plan_next`, `close` | a model call that fails between an assertion and its detection, kills | record first, then detect; every pair of the pool was compared |
| replay: `interview/replay.py` | a cassette of answers by prompt, the constant clock | `replay` | kill, refusal, and another run over the same log | the result is the script's and nothing else's |
| model client: `llm.py` | none | `RetryPolicy.run` | attempts against a budget of time, any of which may fail | a session is right whatever its calls do and take |
| agenda and ledger: `reconcile/agenda.py`, `ledger.py` | none | `rows`, `render_for`, `generate` | cap, order, redaction | the boundary takes away words, never questions |
| doctrine: `doctrine/` | none | `compile`, `diff` | beliefs that collide, some of them unreadable; an old doctrine against a new one | nothing disputed is in force; the differences add up |
| dossier: `dossier/` | a cached fold | the pages, `Librarian.answer`, `dossier_reject` | a fold that is stale while others retract | nothing is shown that has not been published for longer than a fold lives, but for what the diff says of the last epoch |
| ingestion: `ingest/`, `OnWriteReconciler` in `cli.py` | the log, and the snapshot of its registry | chunks, filters, extraction, gates, `claim.asserted`, detection on write, `link_identities` | calls that fail, agents cut off half way, runs that overlap, die and retry | grounded, complete, convergent; one name is one entity; the audit sees every source |
| trigger, web, telemetry, command line, scripts | none | one call; rendering; spans; demo | - | - |

How they meet: ingestion, the interview and the demo append `claim.asserted`,
each followed by detection on write; the Job appends `contradiction.detected`,
`claim.adjudicated`, `heartbeat` and `session.proposed`; the sessions append
`session.opened`, `session.turn` and `session.closed`; people append
`claim.committed`, `claim.rejected`, `claim.visibility_set` and
`contradiction.resolved` through the approval flow. Every reader folds the same
log. The services answer from a cached fold; the handlers that decide read the
log afresh.

## 2. Modules

| module | models | uses |
|---|---|---|
| `EventFold` | what a *set* of events means: order, tier, visibility, rows, aliases, heartbeats | - |
| `Fold` | the code's replay, one event after another, against `EventFold` | `EventFold` |
| `AppendOnlyLog` | the promise of `EventStore.append` | - |
| `JsonlEventStore` | the local store, step by step | `AppendOnlyLog` |
| `FirestoreEventStore` | the production store, call by call | `AppendOnlyLog` |
| `Detect` | one detection pass: block, gate, rank, cap, row | `EventFold` |
| `Reconcile` | the nightly Job and the world around it | `Detect` |
| `Approval` | the approval flow behind its endpoints | `EventFold` |
| `StateCache` | `_Runtime.state` and `invalidate` | - |
| `SessionTurns` | the session endpoints of the interview service | - |
| `RetryPolicy` | attempts, delays and budget of a model call | - |
| `Partner` | `PartnerSession` at the terminal and under the replay harness, and the demo's approval | `EventFold`, `RetryPolicy` |
| `Ingest` | the ingest Job: from documents to claims, rows and edges | `Detect` |
| `Doctrine` | the boundary, compilation and diff | `Detect` |
| `Ledger` | the disputed ledger and the agenda, for an audience | `Doctrine` |
| `Dossier` | a dossier instance before an audience | `Ledger` |

`MC...` modules give the constants their values for TLC, `..._proofs` modules hold
the theorems: one for each of `JsonlEventStore`, `Reconcile`, `Approval`, `Ingest`,
`Partner` and `Dossier`, `LogAndFold_proofs` for `FirestoreEventStore` and `Fold`,
`InterviewService_proofs` for `StateCache` and `SessionTurns`. A definition whose comment says "Mutant of" is a plausible mistake
in the definition it names; no specification uses it. Each property of a passing
run has a mutant that breaks it.

**EventFold and Fold.** The code folds a sorted list with a dictionary of
claims. `Fold` translates `_apply` branch by branch: first assertion wins
(`SetDefault`), a decision on an unknown claim is dropped, a visibility that
does not parse becomes `private`, a resolution of an unknown row still counts,
the last alias link wins. `EventFold` says the same of an unordered set: a
claim's tier is that of the latest decision *that sorts after some assertion of
it*. The run `Fold` compares the two (`FoldAgrees`), so every other module may
use `EventFold`. An event is a record; its id, a hash, is an arbitrary rank `h`,
so that within one instant any order may come out (`Event.order_key` is the
instant and then the id). Timestamps are small integers. `Sorted` is the stable
sort of Python: an event's place is the number of events that come before it.

**AppendOnlyLog.** The log is a set that only grows; `told` holds the events
that an append has been answered for. Its invariant, `told` a subset of `log`,
is what "answered means durable" comes to.

**JsonlEventStore.** A line is the sequence of the pieces written into it. An
append is `Lookup` (take the instance's lock, build the index on first use,
look the id up), `WriteLine` (write, flush, fsync) and `Return` (index, answer,
release). A kill between steps loses lock and index; a kill inside the write
leaves part of a line, or all of it without the newline, and the next write
continues that line, because the file is opened for appending. `WriteFails` is an
`OSError` of open, write, flush or fsync in a process that goes on: nothing, a part or
the whole line may be in the file, the id is not indexed, the lock is free again. Reads
skip a line that does not parse if it is the last and raise otherwise.

**FirestoreEventStore.** `create()` is external: it succeeds once per document
and fails with `AlreadyExists` afterwards. Its reply may be lost, the client may
send it again, the caller may die or get another exception.

**Detect.** Claims carry what detection looks at: subject, object, relation
hint, interval, date and the order of ids. `Submitted` is the set of candidates
in the prompt, `RowOf` the identity of the row a finding makes. What the model
answers is free in `Reconcile`, which lets it name any subset of the prompt.

**Reconcile.** An execution is a process: `Start` (derive the run id from the
UTC day, read the log, select the claims never adjudicated), `Examine` or
`ExamineFails` for each of them in any order, `Record` for each finding,
`Adjudicate`, `Heartbeat`, `Snapshot`, `Reread`, `Propose`, `Mail`. `Die` is
possible anywhere. Any number of executions may start in a night, by schedule or
by hand, at once or in sequence, which is what the retries of Scheduler and of
the trigger service come to. `AssertClaim`, `Decide`, `Resolve`, `Link` and
`NextDay` are the rest of the system. A run's events carry the midnight that
opens its day, people's acts their own instant. The id of an event leaves its
`scheduled` flag out, so `Appended` writes nothing if an event that differs only
there is in the log. The heartbeat of the stub names its trigger in the payload, and
so in the id; that of a run in real mode does not (`HeartbeatEvent`). `exams`, `ledgers` and `mailed` are history; `ledgers` holds,
for each run that reported, tonight's rows and those of the prefix it compared
them with. Simplifications: a run's events have one rank (`h = 0`), because what
the module says of them does not depend on their order; the order of the claims
under examination is free; the score of agenda rows is free (it is in `Ledger`);
files of snapshots are left out.

**Approval.** A submission takes one instant for all its events and appends
them one by one. `Begin` is the common start of the three endpoints, `EventsOf`
is `ApprovalFlow.submit`, `DivergenceRequests` is what each button of the card
submits, `Offered` the cards a page shows. A tie (`Ties`) gives the ids of the
commit and of the visibility choice before or after the correction's; other ties
inside a submission change nothing and are not enumerated. Two submissions have
different instants. A batch decides a claim once.

**StateCache.** Every read and assignment of `_state` and `_state_at` is a step
of its own. A state is the set of events it was folded from. `due` is what a call
must see because a write was invalidated before it began, `raced` what a fold
begun earlier may hide from it.

**SessionTurns.** A request has the local variables of its handler: the session it
loaded, the turn it took an index for, the agenda. `Receive`, `Record`, `Extract`,
`Detect`, `Plan` and `Reply` are the stretches of `partner_turn` between two
appends or model calls; `answer` is the same without extraction. `Load` folds a
session out of its own events: one turn per index, the last one read. Each
instance caches agendas by session and generates a missing one from the ledger of
the moment, so the position named by an item id may mean another row. A kill ends
every request of the instance and empties its cache.

**Partner, RetryPolicy.** One module for the session object and its two drivers,
because what differs between them is the clock, the source of answers and of the
model's replies, and what a failure does. A `call` is an attempt with the clock at
its start; a failed attempt sleeps and is repeated within `MayRetry`. The beliefs
of a turn are asserted one by one, each detected against the pool, and pooled or
blocked. The prompt of a detection (`Submitted`) is the newest `MaxRetrieved`
beliefs of the block; the temporal gate of `detect` takes none away, because
`build_belief_claim` gives a belief no interval. A belief that repeats another of
its answer word for word has the same id and is left out here, where the
transcript's counters count it twice. The replay checks its script and the agenda, speaks, and stops at the
first failure; killed or refused, it may be run again over the same log, whose
events are then the same because the clock is a constant. Its calls are answered
from a cassette, which has one answer for a prompt; who recorded it is external.
`stage_approval` follows.

**Ingest.** Pure definitions first: manifest, instants, units by locator, chunks
with overlap, both filters, the gates of a claim, identity edges. Then a run's
steps: chunk by chunk, filter, model, claims one at a time with `claim.asserted`
and detection on write, edges at the end. A model's answer is a function of the
text it is shown, so what differs between two runs is the code's doing; whether a
call comes back is free, and an agent may be cut off after any part of its answer.
The pool of a run is a list, so its entries are claim, chunk and place in the answer
(`nth`): a claim of a paragraph in two chunks is there twice and takes two places of a
prompt (`GatedIn`, `PlacesBefore`). `registry` is the snapshot that a run leaves when it
has ended, of its own documents; the audit (`Failures`) resolves against it if there is
one, else against all documents. `RunInstant` is the clock of a live run; on cassettes it
is fixed, and no property depends on it.
A name is a sequence of words; an underscore, which separates words when a name is
normalised but not when its modifiers are looked for, does not occur in it.

**Doctrine, Ledger, Dossier.** The first two are functions of a fold, `[committed,
rejected, visibility, found, resolved]`: which committed beliefs collide, which are
suspended, withheld or repeated, what two doctrines differ in, the rows by score,
what an audience is quoted, the agenda made from the first rows (`Ranked`, which
places each row by the number of rows before it). `Dossier` puts
them behind a cached fold that ages while events are appended elsewhere. `gone`
counts the ticks since a claim was last published, and is what staleness is
measured by. The diff is made of the fold at hand and of the log before the last
session, whose rules it prints as they were then (`Printed`); `since` counts the
ticks since that session. The librarian's request takes its steps separately
(retrieve, ask, verify), and the model may name any claims; those that match are
ordered by id alone, their overlap with the words of the question being data. The
cache is one step here; its inside is `StateCache`. The read and the append of
`dossier_reject` are one step too; `Approval` has them apart.

## 3. Runs and bounds

Passing runs:

| run | distinct states | shows |
|---|---|---|
| `Fold` | 673,201 | The replay of up to four events, in every order of arrival, agrees with `EventFold` about claims, ledger, adjudication, heartbeats and identity; a late, backdated event overturns nothing and reopens no row |
| `Jsonl` | 987,448 | Two processes, one with two threads, two kills anywhere, writes that raise: each step is a step of `AppendOnlyLog` and reads succeed while no line has been continued; no process writes an event again unless the earlier write raised |
| `Firestore` | 14,506 | Three callers, two events: refinement of `AppendOnlyLog`, True at most once |
| `ReconcilePairs` | 364,227 | Two executions, two claims, an identity link, decisions and answers: no pair escapes, no finding is lost, the night's findings are reported by every run of the night and reach the agenda |
| `ReconcileNights` | 159,758 | Two executions, both modes, both triggers, two nights: one heartbeat per night in real mode and one per trigger of the stub, none missing of a closed night, no invitation without a proposal; with two claims that are each other's candidates, a failed call or a death: every claim is reached |
| `Approvals` | 446,190 | Three submissions from the three endpoints: the latest answered one decides tier, visibility and card, and what stopped before its commit has retired and published nothing |
| `StateCacheRecovers` | 55,633 | Two threads, another instance, two events: the next read sees a write but for one race, and every write is seen in the end |
| `Sessions` | 421,139 | Three requests on two instances, with overlaps, kills, reloads and a changing ledger: which turns survive, what is asked again, where an answer is filed |
| `Ingest` | 116,574 | Two runs over two documents, overlapping, failing and dying: grounded, convergent, complete, each pair compared unless a prompt is full of others, one name one entity |
| `Partner` | 235,083 | A session at the terminal with calls that fail, and as a replay that is killed, refused, run again and approved |
| `Dossier` | 78,997 | A cached fold before the public while others approve, retract, open up, close, find and resolve: what is quoted and cited, what is a rule, what has changed, what is asked |

One run is violated: `ApprovalCorrection`. Section 6 describes it.

Bounds, all of them constants or constraints of the `MC` modules:

- `Fold`: `MaxEvents` = 4 and three ranks over two instants, so that two events
  tie and a third separates them. Assertion, commit, rejection and visibility of
  one claim fit; so do detection, resolution, a second detection and a link. The
  constraint `OneTopic` keeps logs about a claim's decisions and logs about the
  ledger apart: the branches of `_apply` for the one touch none of the other's
  state. An order of four events has every relative position of a backdated
  event and the two decisions it might overturn.
- `Jsonl`: `MaxKills` = 2 and `MaxLines` = 3. One kill tears a line, one write
  continues it, one more makes it a line in the middle; the second kill covers a
  restart of the other process. Writes that raise need no bound of their own: what
  they leave counts for `MaxLines`.
- `Firestore`: unbounded, the state space is finite. Three callers are the first
  number for which one may resend between two others.
- `ReconcilePairs`: two claims that meet in a name which is the object of one
  and the subject of the other, so that a finding may be filed under either;
  `MaxRetrieved` = 1, the smallest cap. With two claims the prompt is never too
  small, so the exception in `NoPairMissed` for a full prompt does not occur here;
  the theorem of section 5 has any cap. `DayLen` = 2 leaves room for one act of a
  person a day. Constraints take one thing at a time: closing steps do not
  interleave (`OneCloses`), one execution dies or has a failed call (`OneFault`),
  a second night follows a first one without decisions and without executions
  that reach into it (`SecondDayIsQuiet`), initiation succeeds
  (`InitiationSucceeds`, it fails in `ReconcileNights`), nobody approves
  (`NoneApproved`, approvals only make claims stale, which `ReconcileNights` has).
- `ReconcileNights`: one claim for the nights, because heartbeats, proposals and mail do
  not depend on how many there are; `StaleDays` = 0, so that one approval of the first
  day (`OneApproval`) is stale on the second. Two executions on two nights give
  retries, a run by hand beside the scheduled one and two modes on one day.
  The second claim of `ReconcilePairs`, in the block of the first, so that the model
  is called and the call may fail, is there in a first night of Scheduler's executions
  in real mode that nobody decides in and that proposes nothing, since only the
  examination matters (`SecondClaimIsExamined`); `OneFault` as above. Liveness is
  checked without symmetry.
- `Approvals`: three handlers, one card, and batches that publish, keep private,
  retract and defer. Three submissions are the first number for which a decision
  may be overturned and reinstated. One of them stops half way (`OneDies`); the
  theorems of section 5 have any number of submissions and of deaths.
- `StateCacheRecovers`: two threads and two events; one thread holds a stale fold
  while the other writes and invalidates.
- `Sessions`: three requests, so that two overlap and a third loads what they
  left; two instances, two rows, `MaxNow` = 1 (turns tie or follow), `MaxLedgers`
  = 2, one session. `OneOddity` varies one of four things at a time (the ledger
  changes, requests overlap, the session is closed, the older endpoint is used)
  beside one kill.
- `Ingest`: minutes of which an entry is in two chunks, an empty entry, a chat in
  which two messages share a second and one is noise; six claims the model may
  return, three of which a gate refuses (a quote of another paragraph, a local
  time, an interval that ends before it begins); two spellings of one name and a
  name that contains it; `MaxRetrieved` = 2, which the claim that is pooled twice fills
  before another comes to its place; `MaxLost` = 1 call fails or is filtered out per run. Three
  names leave two edges of one name no room to compete (`LinkIds` = {0, 1} would
  order them); the theorem of section 5 has any number.
- `Partner`: an agenda of a step and a disagreement whose ids are in the other
  order, a script with an answer too short for a claim, two beliefs per answer in
  two blocks, `MaxRetrieved` = 1, so that the second of two priors may be cut off,
  with ids of one answer that go against the order they were said in, `MaxRuns` = 2
  replays, two answers at the terminal, three attempts within a budget of two ticks. The cap on agent turns is never reached.
- `Dossier`: four beliefs of one slot of which three hold at different times and
  one collides with two of them, approved all or none at first; two disagreements
  and an agenda of one; `TTL` = 1 and `MaxEvents` = 2 events after the first: one puts a claim before
  the public or takes it back, one happens while a stale fold is served. New
  events are dated after all others, so the fold is kept instead of the log.

Symmetry is declared over executions, handlers, requests, instances, words and
runs, which the modules tell apart by nothing; never in a run with a liveness
property. Deadlock is checked in `Firestore`, where an idle caller may always
append, and in `StateCacheRecovers`, where a thread may always call. The other
systems really stop: executions, requests and handlers end, and bounds run out.

## 4. Fairness

`Reconcile!FairSpec` is weak fairness of each execution's own steps: a
container that has been given a processor runs on until it ends or is killed.
Nothing obliges an execution to start or to die, a person to act, or a day to
pass; hence the "or it died" in `EveryClaimReached`. `StateCache!FairSpec` is
weak fairness of each thread's steps inside a handler, which a threaded server
gives, and of time. Nobody has to call or to write. All other specifications have
no fairness and no liveness property: a partner may never answer, a visitor never
return, and a Job that died is started again by a person or by tomorrow.

## 5. Proofs

Every obligation of the eight `..._proofs` modules is checked. They hold for any
values of the constants that satisfy the assumptions the modules state:
`DetectAssumption` (finitely many claims, positive cap, intervals that
`Claim.create` has validated, distinct ids), `ReconcileAssumption`,
`ApprovalAssumption` and so on; what the code gives no guarantee of but a proof
needs is built into the actions and said in their comments: submissions have
different instants, and a batch decides a claim once. A theorem lists its
assumption in its statement where it is about the deployment: the audience of the
dossier is not `owner`.

**FirestoreEventStore.** `TypeCorrect`; `TrueAtMostOnceAlways`, whose property is
stated with its own strengthening: a call that holds the success of its `create`
is the only one that does for its event, and nobody has answered True for it
before. It is inductive together with types and with `Answered`: an event whose
`create` has been answered is a document, and so is every event `append` has
answered for. `AnsweredIsDurable` and `Refinement` follow from the same invariant.

**Fold.** `FoldAlwaysAgrees` (`FoldAgrees`), `LateEventsOverturnNothing`
(`OnlyALaterDecisionOverturns`) and `ResolvedStaysResolved` (`ResolvedNeverReopens`),
for any events, any ids and logs of any length. A list of events is sorted into
places that are taken once each (`OneInEachPlace`, `SortedInOrder`). `FoldLeft` goes
through a chain of states (`FoldedThrough`); both of its facts, that the function it
recurses with exists and that each state means the prefix it was reached by, are
shown by a least counterexample among the prefixes, since no theorem of induction
can be cited. The step is `ApplyMeans`: applied to the state that a log means, an
event that nothing sorts after gives the state the two mean together; there is a
lemma for each part of the state (`TierAfter`, `VisibilityAfter`, `ResolvedAfter`,
`LinksAfter` and so on), and the event may be in the log already. `FoldInv` says of
what has arrived that two events of one instant and one id are one event. The second
theorem then is about sets (`DecisionHolds`): an assertion that makes more decisions
count sorts before every assertion there was, and so do those decisions.

**JsonlEventStore.** `OncePerProcess` from `OnceInv`: a thread inside `append`
holds its process's lock (`Locked`), what is about to be written is not in the
index it was looked up in (`NotSeen`), and the index of a process, if it has one,
holds every event of a line that the process has written, but for the one a
thread has just written and not yet indexed and those whose write raised
(`Indexed`). A torn line that a write
completes or spoils parses only as the pieces it had. `AppendOnlyUntilGlued` from
`GlueInv`: in an unglued file only an unterminated last line may fail to parse, and
every event that an instance has indexed or just written can be read.

**Reconcile.**

- `TypeCorrect`.
- `NoPairSlipsThrough` (`EveryPairCompared`). The property speaks of two
  examinations that may have run at once, so it is not inductive. What makes it
  true is that all executions read one growing log: of any two pools, those held
  by executions and those of recorded examinations, what was never rejected of
  one is in the other (`ViewsAreNested`). An execution works through the pool it
  read (`Worklist`), so an examined claim is in its own examination's pool
  (`ExamsRecorded`). Of two examined claims one is then in the other's pool.
- `OnlyTheCapLeavesOut` (`NoPairMissed`). While no name is linked, every
  examination asked exactly what the block, the gate and the cap leave of its pool
  (`AskedAsBlocked`); blocks and overlap are symmetric (`BlockedBothWays`), so the
  pool that has the other claim either submitted it or was over the cap
  (`LeftOutByCap`). The theorem covers any cap and any number of claims, where the
  run has the smallest of both.
- `FindingsAreKept` (`NoFindingLost`): the findings of the claim being recorded
  are in the log or still in `left`, and `Adjudicate` waits for `left` to be empty.
- `OneHeartbeatPerNight` (`NightsNotAttempts`): from the identity of ids in
  `Appended`, over all kinds of appends, the shape of a heartbeat in the log
  (`HeartbeatShape`), and that an execution past its heartbeat has one of its night,
  mode and, for the stub, trigger there (`NoneMissing`).
- `InvitationsAreRecorded` (`MailedIsRecorded`): an execution about to mail has its
  night's proposal in the log.
- `RetriesReportTheNight` (`FoundTonightIsReported`): the log's events are not
  from the future (`Times`), neither are those an execution has read (`ReadTimes`),
  so the run it compares itself with is of an earlier night, and every row of its
  prefix has a detection older than tonight's midnight (`BeforeIsOlder`).
- `AgendasCoverTonight` (`AgendaCoversTonight`, an action property) from `AgendaInv`:
  what an execution proposes from was read after it had recorded all its findings
  (`ReadAfterFinding`), and its findings name claims that the read knew
  (`FindingsAreKnown`).

**Approval.** `FlowInv`: types; events carry the instant of the one submission
that wrote them (`Instants`, `Written`); what a submission still plans and what it
has appended make up what it was asked for (`Progress`); a claim that a decision
names was asserted before the submission's instant (`KnownBefore`). From it
`ApprovalIsTraceable` (`CommitComesFirst`, through
`CommitPlanned`: an event that depends on a commit is preceded by it in the plan
or the commit is in the log), `LatestSubmissionWins` (`LaterRequestWins`: among
the decisions effective for the claim there is a latest one, and no event of
another submission is as late) and `LastChoiceGoverns` (`OneSideGoverns`).

**InterviewService: StateCache.** `CacheTypeCorrect`, `NextReadAlwaysSeesIt`
(`NextReadSeesIt`), inductive with: a writer that invalidates has written
(`DropsWritten`); the cached fold, and every fold a thread is about to assign, holds
all that the cache was dropped for but the races (`CacheFollows`); what a call is due
was dropped by then (`DueDropped`).

**InterviewService: SessionTurns.** For any sessions, requests, instances, ledgers and
kills. `SessionInv`: types; the log holds what the requests wrote and skips no index
(`LogWritten`); a request at work has loaded a part of the log and has written its own
turn (`RequestsSound`); two requests in flight on one session have met (`InFlightMet`),
and what others wrote to its session a request has seen, or it has met them
(`SeenOrMet`), so only requests that have met take one index (`ClashesMet`); while none
have, the instants follow the indexes (`InTimeOrder`); a claim quotes a turn of the log
(`ClaimsCited`). From it `AlwaysAnchored`
(`AnchoredInTheLog`), `AlwaysLostOnlyByOverlap` (`LostOnlyByOverlap`),
`AlwaysReaskedExactlyWhenOpen` (`ReaskedExactlyWhenOpen`) and `AlwaysSpokenOnly`
(`SpokenOnly`); with `FilingInv`, by which agendas and item ids are those of ledgers
there were (`AgendasFromLedgers`), and a request is at the item of the last question
while requests come one by one and the ledger stays (`AtLastQuestion`),
`AlwaysFiledUnderItsQuestion` (`FiledUnderItsQuestion`).

**Ingest.** For any documents, sizes of chunks, claims and names, any number of runs
that overlap, fail and die. `IngestInv`: types; a run works on what its documents
propose and on nothing else (`Planned`), what it no longer has to do is done unless it
lost something (`Settled`), what it no longer has to link is linked (`LinkedUp`); what is
asserted and linked in the log comes from the documents of runs (`LogFromRuns`); two
claims of a pool were put to the adjudicator, or others take all places of the prompt of
one before the other (`AllCompared`; a prompt made of part of what is due has no more
entries before a claim than one made of all, `PromptHas`, for which what is due must be
finite, `ProposedFinite`). From it `AlwaysGroundedInSource` (`GroundedInSource`), `RetriesConverge`
(`RetryConverges`) and `PairsAlwaysCompared` (`PairsCompared`). `EveryEntryAlwaysChunked`
(`EveryEntryChunked`) is about the batches: an entry that is in none is taken with the
fewest units before it. It is stated for an overlap of one unit, which is what the
callers use, or none (see section 6).

`OneIdentityAlways` (`OneIdentity`), for any number of names: the log is finite and of
two edges of one name one is later (`OrderedLinks`), so the fold has one edge for each
name that is linked, and it is an edge of the log (`AliasesAreLinks`); if the documents
of the run include those of all the others, every edge of the log is one of its own, and
all of its own are there. Each leads to a fuller form of the same name, so the walk of
`resolve_entity` exists, by induction on what it has not seen (`WalkExists`), meets no
cycle and ends at a name that has no fuller form (`WalkEnds`), of which a name has one
(`OneNameEach`). The modifiers need no mention: no article is one (`SameNamesAre`).

**Partner.** `PoolIsCompared` (`PoolCompared`) from `PoolInv`: pool and
blocked beliefs are apart and each card has a blocked side (`Separate`), beliefs still
to be asserted are new and of turns that were taken (`TodoFresh`), when an answer is
about to be read none is of that turn yet (`Past`), everything pooled came before all
that is still to be asserted (`Ordered`), and of any two of the pool in one block the
later was held against the earlier or had a full prompt of beliefs that rank above it
(`Compared`); what is pooled afterwards came later and changes neither.
`AlwaysOneUndetected` (`OneUndetected`) from
`UndetectedInv`: a belief in the log is pooled, blocked, or the one at hand.
`AgendaAlwaysWorked` (`AgendaWorked`) from `AgendaInv`: where a session starts
(`AtStart`), what its plan holds (`PlanSound`), what was asked and followed up so far
(`AskedSoFar`, `FollowedUp`), where its words are (`SpokenOrQueued`), and what it has
left when it ends (`LeftWhenDone`).

`ReplayAlwaysRepeats` (`ReplayRepeats`) is about runs, not states. A session that hears
a cassette is deterministic (`Successor`), so there is one way of states; it is extended
by the first run that comes to its end and retraced by every later one, because an
answered prompt stays on the cassette and cannot fail. The log then is that of the last
state of the way (`LogFrom`) and the bare opening turns of runs that were refused.
`ApprovalAlwaysTakesEffect` (`ApprovedTakesEffect`) from `ApprovalInv`: all decisions are
commits of one instant with an earlier assertion each, a resolution has its answer's
turn and its commit, and the log holds what is no longer queued.

**Dossier.**

- `TypeCorrect`, with the fact that only what was ever approved has a visibility
  chosen for it.
- `OnlyThePublishedIsShown` (`ShownWasPublished`) from `PublishedInv`: a claim that
  is published now has not been gone (`PublishedNow`), what a cached fold that is
  still fresh publishes has been gone for no longer than the fold is old
  (`FoldIsRecent`), what was published when the last session opened for no longer
  than that session lies back (`EpochIsRecent`), and an answer cites what was published when it was asked for
  (`AnswersFromRecord`). Before any audience but the owner.
- `TheDisputedIsNotInForce` (`NothingDisputedInForce`): a rule of the audience is
  among the beliefs the owner's doctrine keeps, or repeats one that comes earlier
  in the order of dates and ids; a finite set has a minimal element of that order,
  and that is the owner's rule (`OwnerHasTheRule`).
- `DiffIsExact` (`DiffAccounts`): inside a slot a rule's place among those that are
  paired is its number, different rules have different places (`PlacesDiffer`), so
  pairing is one to one (`PairedOnce`) and the entries add up.
- `BoundaryAlwaysKeepsAgenda` (`BoundaryKeepsAgenda`): the key of `ledger.rows` is a
  strict linear order of numbers, so each row has one place; the owner reads
  everything, and what an audience may not read takes away no row.

Every safety property of the passing runs is stated by a theorem. Only model-checked:
`EveryClaimReached` and `EventuallySeen`, which are liveness under fairness and out of
the prover's reach.

## 6. Disagreements between the code and its texts

Kept as a run, with the counterexample TLC prints:

- `ApprovalCorrection` (`interview/approval.py:166`). The correction's assertion
  and commit share an instant and are ordered by hash; if the commit sorts first
  the fold drops it, and the correction stays pending although the answer lists it
  as committed.

Also seen while modelling; the modules have the behaviour, and properties that
would say otherwise are stated with the exception.

Stores and caches:

- A kill or an error inside the write may leave a line without its newline. Then one
  append continues it, in the same process after an error, and another follows; the
  glued line is no longer the last and `read_all` raises from then on
  (`fold/store.py:138`, against 90-93, "skipped on read"). `LogUntilGlued` ends there.
- Two instances of the local store write one event twice, because each caches its
  index (`fold/store.py:104`, against 15-17). So does one instance after an `fsync` that
  raised on a line already in the file (`fold/store.py:119`); `WrittenOncePerProcess`
  names that exception.
- A fold begun before a write is assigned after its invalidate, and is served until
  the time to live ends it (`interview/service.py:157`, against 162, "so the next
  read sees it"). `NextReadSeesIt` names the race.
- `state()` may return None when another thread invalidates between its test and
  its return (`interview/service.py:159`, against 155).

Nightly Job:

- The heartbeat of the stub carries its trigger, so a run by hand and Scheduler's run of
  one UTC day leave two (`reconcile/job.py:250`, against `deploy/entrypoint-job.sh:23-25`,
  "exactly one heartbeat per night"). `NightsNotAttempts` states this exception and no
  other.
- In real mode the heartbeat of a run by hand has the id of Scheduler's, which is then
  dropped: `count_scheduled` misses the night (`reconcile/job.py:369`, against
  `fold/store.py:64-68`).
- `detect` returns normally when the answer does not parse, and the Job records the
  claim as adjudicated (`reconcile/job.py:358`, against `reconcile/detect.py:274-276`,
  "re-examined on the next nightly run").
- The heartbeat carries the midnight that opens its day, so the prefix up to it
  leaves out what people did that day before the run (`reconcile/job.py:474`, against
  38-39). Rows found in between are "added" although this run did not find them, and
  the count of retired rows is of resolved ones only, not of those closed by a
  rejection.
- A second execution of a night computes its proposal from a log that has changed,
  and a second `session.proposed` is appended (`reconcile/initiate.py:345`, against
  29-33).
- The two modes of one day give two heartbeats (`reconcile/job.py:411`).
- Two claims with different subjects, examined from either side, get two rows
  (`reconcile/detect.py:287`, against `schema/contradiction.py:115-116`).

Approval and sessions:

- Splitting a divergence into a conditional leaves its new side pending, and the card
  is offered again (`interview/service.py:955`, against 521 and 539).
- A claim that was public and then rejected is public between a new commit and its
  visibility choice, for good if the handler stops there (`interview/approval.py:178`,
  against 24-25).
- A page rendered before a rejection posts an approval after it, and the rejected
  claim is committed (`interview/service.py:1127`).
- `POST /sessions/{id}/claims` answers with claims that it does not append; `/approvals`
  knows them only if a turn has asserted them already (`interview/service.py:1070-1118`).
- Two turns posted to one session at once take one index, and the session loads one of
  them (`interview/service.py:762-766`); the audit of citations may then find the other
  one's words under a claim's anchor. `LostOnlyByOverlap` and `AnchoredInTheLog` name
  the overlap.
- An agenda generated anew from a ledger that has changed since gives an item id
  another row, and an answer is filed under it (`interview/service.py`, its docstring at
  32-36). `FiledUnderItsQuestion` holds while the ledger does not change.

Partner and replay:

- A replay that is refused because its opening step was not worked out has already
  recorded the bare step (the exception in `ReplayRepeats`).
- What `PartnerSession` finds to collide is a card of the session and no
  `contradiction.detected`; a blocked belief is not held against later ones.
- `stage_approval` approves nothing at all when no answer made a claim, and otherwise
  blocked and earlier beliefs alike (`cli.py`).
- An attempt that begins within the budget may itself take any time (`llm.py`).

Ingestion:

- The audit prefers the snapshot that the last ingest left of its own documents
  (`scripts/verify_anchors.py:415`, `cli.py:455`): after a run with the deferred source
  and one without it, the claims of the first fail, against "The registry is rebuilt
  from disk by default" (25-26). `GroundedInSource` states this exception and no other.
- Two messages of one second share a locator, and the first loses its text.
- A claim from a unit that is in two chunks is asserted twice, once for each, because
  the chunk is part of the payload, and pooled twice, so that it takes two places of a
  prompt.
- An on-write finding carries the wall clock, so a retry appends it again.
- A failure of on-write detection ends the run (`ingest/pipeline.py:268-269`, against
  "One bad chunk").
- The edges a died run wrote may leave one name split in two until a run over all the
  documents loses nothing. `OneIdentity` says exactly when it is one.
- With an overlap of two units or more, which no caller asks for, a batch that ends
  before the overlap (a document that begins with a long unit) makes the next one skip
  a unit (`ingest/chunking.py:124-128`, against the docstring).

Dossier:

- The diff prints rules of the last epoch with their words and anchors after they were
  retracted or made private, until another session opens (`dossier/service.py:462`,
  against "It reads one set and only one set", 6-7). `ShownWasPublished` states this
  exception and no other.
- The diff compares an old side read afresh with a new side from the cached fold
  (`dossier/service.py`).
- After an edited approval whose commit was dropped (`ApprovalCorrection`), a pending
  claim may have a public visibility, which the ledger page quotes. `ShownWasPublished`
  does not reach this, since `Dossier` begins with asserted claims only.
- `BARAZA_PUBLIC_AUDIENCE=owner` is accepted (`dossier/service.py:79-99`).

## 7. What is not modelled

Outside the models on purpose: text (prompts, wording, regular expressions, file
formats), HTML, telemetry, the trigger service's one HTTP call, the printing stages of
the command line, and the scripts that build the corpus and score transcripts; they
compute or show text and keep no state of the system. The agents of `agents.py` appear
as what they return. Identity edges that need a human are written by nobody. Clocks of
different instances agree in the models; the code has no rule for when they do not
(`fold/graph.py:172` sorts by what each wrote).

Left open by the bounds, with no theorem behind: liveness with more than two executions
or two threads. What the modules would need
to go further is a model of the text itself.
