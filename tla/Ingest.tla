-------------------------------- MODULE Ingest --------------------------------
(***************************************************************************)
(* Ingestion (ingest/, OnWriteReconciler in cli.py): documents are read    *)
(* into units, grouped into chunks, filtered, put to the model, and what   *)
(* passes the gates is appended claim by claim, each followed by the       *)
(* detection on write; identity edges come last.  Runs are executions of   *)
(* the ingest Job: they retry one another, overlap, fail and die.          *)
(*                                                                         *)
(* What the model returns is fixed by the text it is shown (temperature 0, *)
(* cassettes), so that what differs between two runs is the code's doing;  *)
(* whether a call comes back at all is free.                               *)
(***************************************************************************)
EXTENDS Detect, FiniteSetsExt, Sequences, SequencesExt

CONSTANTS
  Runs,
  Files,          \* documents, by source_id
  Manifest,       \* its entries: [file, written, deferred, complete]
  Entries,        \* per document: the entries of the file, [loc, text, at]
  Text,           \* per text: [size, signal, noise, quotes]
  NoText,         \* an empty cell, an attachment
  NoInstant,      \* no instant is given
  PerSecond, PerDay, SecondsCeiling,   \* of instants
  TargetChars, OverlapUnits, LengthFloor,
  MaxLost,        \* bound: chunks a run filters out or loses
  Extractors,     \* how a run may extract: "direct", "agent"
  FilterModes,    \* what a run may be started with: "stub", "gemma"
  Cites,          \* per claim: [file, loc, quote]
  Stated,         \* per claim, as the model gave it: [object, from, until]
  Returned,       \* what the model returns: [seen, claim, nth], seen a text, nth in its answer
  Contradict,     \* pairs of claims the adjudicator takes for contradictory
  Stopwords, Distinguishing,
  Names,          \* entities, as [words, len, rank]
  LinkIds         \* ids of edges that are dated alike

\* A date in the manifest is unambiguous: reading the document raises otherwise,
\* before anything is appended.
ASSUME IngestAssumption ==
  /\ TargetChars \in Nat /\ OverlapUnits \in Nat /\ LengthFloor \in Nat /\ MaxLost \in Nat
  /\ FilterModes \subseteq {"stub", "gemma"} /\ Extractors \subseteq {"direct", "agent"}
  /\ \A n \in Names : n.words \in Seq(ToSet(n.words)) /\ n.len \in Nat /\ n.rank \in Nat
  /\ \A m, n \in Names : m.rank = n.rank => m = n
  /\ Stopwords \cap Distinguishing = {}
  /\ PerSecond \in Nat /\ PerDay \in Nat /\ SecondsCeiling \in Nat /\ LinkIds \subseteq Int
  /\ Manifest \in Seq(ToSet(Manifest))
  /\ \A e \in ToSet(Manifest) :
       e.file \in Files /\ e.written.form \in {"date", "offset"} /\ e.written.n \in Int
  /\ \A f \in Files :
       Entries[f] \in Seq(ToSet(Entries[f])) /\ \E e \in ToSet(Manifest) : e.file = f
  /\ \A c \in Claims : Attr[c].subject \in Names /\ Cites[c].file \in Files
  /\ \A r \in Returned : r.claim \in Claims
  /\ IsFiniteSet(Returned)

VARIABLES
  log,       \* claim.asserted, contradiction.detected, entity.alias_linked
  run,       \* each run's local variables
  started,   \* number of runs started so far: the clock
  compared,  \* history: per run, the pairs put to the adjudicator
  registry   \* the documents in the snapshot a run leaves for the audit

vars == <<log, run, started, compared, registry>>

-----------------------------------------------------------------------------
(* Instants come as numbers, as dates, and as text with or without an      *)
(* offset; inside, they are milliseconds.                                  *)

\* A local time without an offset is refused, never guessed.
Unambiguous(d) == d.form \in {"number", "date", "offset"}

\* A number below the ceiling is one of seconds; a date is its midnight.
Millis(d) ==
  CASE d.form = "number" -> IF d.n < SecondsCeiling THEN d.n * PerSecond ELSE d.n
    [] d.form = "date"   -> d.n * PerDay
    [] d.form = "offset" -> d.n

-----------------------------------------------------------------------------
(* The manifest: the directory is never globbed, and the deferred drop is  *)
(* read only on request.                                                   *)

Specs(deferred) == {e \in ToSet(Manifest) : deferred \/ ~e.deferred}

\* One entry with a field missing, or whose file is, refuses all of them.
Loadable(specs) == specs # {} /\ \A e \in specs : e.complete

Corpora ==
  {{e.file : e \in specs} : specs \in {S \in {Specs(d) : d \in BOOLEAN} : Loadable(S)}}

\* When its content was authored, whatever the file system says.
WrittenAt ==
  [f \in Files |-> Millis((CHOOSE e \in ToSet(Manifest) : e.file = f).written)]

-----------------------------------------------------------------------------
(* Readers: a document is a dictionary of units by locator.  An entry with *)
(* a locator that is taken replaces the text and keeps the place.          *)

Speaks(e) == e.text # NoText

Locators(f) == {Entries[f][n].loc : n \in {m \in DOMAIN Entries[f] : Speaks(Entries[f][m])}}

PlacesOf(f, loc) ==
  {n \in DOMAIN Entries[f] : Entries[f][n].loc = loc /\ Speaks(Entries[f][n])}

UnitAt(f, loc) == Entries[f][Max(PlacesOf(f, loc))]

Units ==
  [f \in Files |->
     LET first(loc) == Min(PlacesOf(f, loc))
     IN  [n \in 1..Cardinality(Locators(f)) |->
            UnitAt(f, CHOOSE loc \in Locators(f) :
                        Cardinality({l \in Locators(f) : first(l) < first(loc)}) = n - 1)]]

\* A unit without an instant of its own inherits the document's.
ObservedAt(f, loc) ==
  IF UnitAt(f, loc).at = NoInstant THEN WrittenAt[f] ELSE Millis(UnitAt(f, loc).at)

-----------------------------------------------------------------------------
(* Chunks: consecutive units of one document, up to the target size, each  *)
(* chunk beginning with the last unit of the one before it.                *)

SizeOf(units, i, j) == MapThenSumSet(LAMBDA n : Text[units[n].text].size, i..j)

\* A unit larger than the target is a chunk of its own.
BatchEnd(units, i) ==
  Max({j \in i..Len(units) : j = i \/ SizeOf(units, i, j) <= TargetChars})

\* Mutant of NextStart: the guard against standing still is always applied.
NextStartSkipping(units, i) ==
  IF BatchEnd(units, i) = Len(units) THEN Len(units) + 1
  ELSE Max({BatchEnd(units, i) + 1 - OverlapUnits, 1}) + 2 * OverlapUnits

\* After the last chunk nothing follows; a chunk no longer than the overlap
\* is not repeated.
NextStart(units, i) ==
  LET e == BatchEnd(units, i)
      back == Max({e + 1 - OverlapUnits, 1})
  IN  IF e = Len(units) THEN Len(units) + 1
      ELSE IF e - i + 1 <= OverlapUnits THEN back + OverlapUnits ELSE back

\* Where the chunks of a document begin: its first unit, if it has one, and from
\* each the next, as long as there are units.
Starts(units) ==
  LET follows(S) == /\ units # <<>> => 1 \in S
                    /\ \A i \in S : NextStart(units, i) <= Len(units) => NextStart(units, i) \in S
  IN  {i \in DOMAIN units : \A S \in SUBSET DOMAIN units : follows(S) => i \in S}

Chunks ==
  [f \in Files |->
     {[file |-> f, first |-> i, units |-> SubSeq(Units[f], i, BatchEnd(Units[f], i))] :
        i \in Starts(Units[f])}]

ChunksOf(docs) == UNION {Chunks[f] : f \in docs}

TextsOf(ch) == {ch.units[n].text : n \in DOMAIN ch.units}

LocatorsOf(ch) == {ch.units[n].loc : n \in DOMAIN ch.units}

-----------------------------------------------------------------------------
(* The prefilter.                                                          *)

\* StubFilter: no signal, and nothing but noise or hardly anything at all.
StubDrops(ch) ==
  /\ \A t \in TextsOf(ch) : ~Text[t].signal
  /\ \/ \A t \in TextsOf(ch) : Text[t].noise
     \/ SizeOf(ch.units, 1, Len(ch.units)) < LengthFloor

UpTo(n, S) == {T \in SUBSET S : Cardinality(T) <= n}

\* GemmaFilter drops what the model says it should, and keeps the chunk when
\* there is no answer or none that it understands.
Droppings(mode, chunks) ==
  IF mode = "stub" THEN {{ch \in chunks : StubDrops(ch)}} ELSE UpTo(MaxLost, chunks)

-----------------------------------------------------------------------------
(* Extraction: the gates of build_claim.                                   *)

\* The quote is in the cited unit, or begins there.
QuoteGrounded(c) == Cites[c].quote \in Text[UnitAt(Cites[c].file, Cites[c].loc).text].quotes

\* Claim.create: it asserts something, its dates are unambiguous, and it does
\* not end before it begins.
WellFormed(c) ==
  LET given == {d \in {Stated[c].from, Stated[c].until} : d # NoInstant}
  IN  /\ Stated[c].object
      /\ \A d \in given : Unambiguous(d)
      /\ Cardinality(given) = 2 => Millis(Stated[c].from) <= Millis(Stated[c].until)

\* Mutant of Accepted: a locator of the document is good enough.
AcceptedAnywhere ==
  [ch \in ChunksOf(Files) |->
     {raw \in Returned :
        raw.seen \in TextsOf(ch) /\ Cites[raw.claim].file = ch.file /\ WellFormed(raw.claim)}]

\* What comes out of a chunk: of what is returned, the claims anchored in it
\* whose quote is at the anchor and that are well formed.  The model gives a
\* locator; the document is the chunk's.
Accepted ==
  [ch \in ChunksOf(Files) |->
     {raw \in Returned :
        /\ raw.seen \in TextsOf(ch)
        /\ Cites[raw.claim].file = ch.file /\ Cites[raw.claim].loc \in LocatorsOf(ch)
        /\ QuoteGrounded(raw.claim)
        /\ WellFormed(raw.claim)}]

\* A claim is in the list as often as chunks and answers give it: nothing
\* removes duplicates.
Proposed(chunks) ==
  UNION {{[claim |-> raw.claim, nth |-> raw.nth, chunk |-> ch] : raw \in Accepted[ch]} :
           ch \in chunks}

ClaimsOf(entries) == {p.claim : p \in entries}

\* What is left of the chunks whose extraction failed: nothing of a direct
\* call that raised or whose answer does not parse; of the agent that was cut
\* off, by its ceiling or its timeout, what it had proposed until then.
Salvaged(extractor, broken) ==
  IF extractor = "direct" THEN {{}} ELSE SUBSET Proposed(broken)

-----------------------------------------------------------------------------
(* Entities: the alias pass.                                               *)

\* The places of a name's words that tell something.
Telling(n) == {i \in DOMAIN n.words : n.words[i] \notin Stopwords}

\* _normalize: those words, in their order.
Normalized(n) ==
  [k \in 1..Cardinality(Telling(n)) |->
     n.words[CHOOSE i \in Telling(n) : Cardinality({j \in Telling(n) : j < i}) = k - 1]]

Modifiers(n) == ToSet(n.words) \cap Distinguishing

\* Mutant of SameName: a name inside another one needs no human either.
SameNameOrSubset(m, n) ==
  /\ Normalized(m) # <<>> /\ Normalized(n) # <<>>
  /\ \/ ToSet(Normalized(m)) \subseteq ToSet(Normalized(n))
     \/ ToSet(Normalized(n)) \subseteq ToSet(Normalized(m))

\* _compare, rule 1: the one that is applied without a human.
SameName(m, n) ==
  /\ Normalized(m) # <<>> /\ Normalized(n) # <<>>
  /\ Modifiers(m) = Modifiers(n)
  /\ Normalized(m) = Normalized(n)

\* Mutant of Fuller: whichever was compared first.
FullerByRank(m, n) == IF m.rank % 2 = 0 THEN m.rank > n.rank ELSE m.rank < n.rank

\* _order: the longer name is canonical, else the one whose id sorts first.
Fuller(m, n) == m.len > n.len \/ (m.len = n.len /\ m.rank < n.rank)

Edges(entities) ==
  {[alias |-> m, canonical |-> n] : m \in entities, n \in entities}
    \cap {e \in [alias : entities, canonical : entities] :
            e.alias # e.canonical /\ SameName(e.alias, e.canonical)
              /\ Fuller(e.canonical, e.alias)}

-----------------------------------------------------------------------------
(* The events of a run.                                                    *)

AssertedEvent(c, ch) ==
  [type |-> "claim.asserted", at |-> ObservedAt(Cites[c].file, Cites[c].loc), h |-> 0,
   claim |-> c, file |-> ch.file, chunk |-> ch.first]

NewestOf(docs) == Max({WrittenAt[f] : f \in docs})

\* OnWriteReconciler: one instant for all that a run finds, that of the wall
\* clock at its beginning, later than every document and every other run's.
\* (A run on cassettes takes one that is fixed.)
RunInstant == NewestOf(Files) + started + 1

DetectedEvent(r, k) ==
  [type |-> "contradiction.detected", at |-> run[r].instant, h |-> 0, row |-> k]

\* Mutant of AliasInstant: the wall clock.
AliasInstantNow(r) == run[r].instant

\* An edge is dated to the newest document of its run.
AliasInstant(r) == NewestOf(run[r].docs)

\* An event has an id of its own, and where ids decide which of two edges is
\* the later one, either may be.
LinkedEvents(r, e) ==
  LET linked(h) == [type |-> "entity.alias_linked", at |-> AliasInstant(r), h |-> h,
                    alias |-> e.alias, canonical |-> e.canonical]
      written == {linked(h) : h \in LinkIds} \cap log
      rivals == {l \in log : l.type = "entity.alias_linked" /\ l.alias = e.alias}
  IN  IF written # {} THEN written
      ELSE {linked(h) : h \in {i \in LinkIds : \A l \in rivals : l.at = AliasInstant(r) => l.h # i}}

-----------------------------------------------------------------------------
(* IngestionPipeline.run.                                                  *)

\* lost: what the documents propose and the run did not get.
Idle == [pc |-> "idle", docs |-> {}, instant |-> 0, lost |-> {}, todo |-> {},
         cur |-> {}, pool |-> {}, found |-> {}, entities |-> {}, edges |-> {}]

Set(r, state) == run' = [run EXCEPT ![r] = state]

\* Chunks of a document are worked off in their order.
NextIn(todo) ==
  {p \in todo : \A q \in todo :
     q.chunk.file = p.chunk.file => q.chunk.first >= p.chunk.first}

Working(r) == run[r].pc \notin {"idle", "done", "dead"}

\* A run with all that it got of its documents in front of it.
Beginning(docs, got) ==
  [Idle EXCEPT !.pc = "append", !.docs = docs, !.instant = RunInstant, !.todo = got,
               !.lost = Proposed(ChunksOf(docs)) \ got]

\* build_block and the gate, on a list: a claim that is in the pool twice is
\* there twice.
GatedIn(c, pool) == {p \in pool : p.claim \in Gated(c, ClaimsOf(pool), <<>>)}

\* The places of the prompt that are taken before a claim comes to its own.
PlacesBefore(d, c, pool) ==
  Cardinality({p \in GatedIn(c, pool) : RanksAbove(p.claim, d)})

\* The candidates a claim of this run is put to the model with.  No alias
\* edges are resolved.
Prompt(c, pool) ==
  {d \in ClaimsOf(GatedIn(c, pool)) : PlacesBefore(d, c, pool) < MaxRetrieved}

\* Read, chunk, filter and extract: nothing is appended before all of it is
\* done.
Extract(r, docs) ==
  /\ run[r].pc = "idle"
  /\ started' = started + 1
  /\ \E mode \in FilterModes : \E dropped \in Droppings(mode, ChunksOf(docs)) :
       LET chunks == ChunksOf(docs) \ dropped
       IN  \E broken \in UpTo(MaxLost - Cardinality(dropped), chunks), how \in Extractors :
             \E salvaged \in Salvaged(how, broken) :
               Set(r, Beginning(docs, Proposed(chunks \ broken) \cup salvaged))
  /\ UNCHANGED <<log, compared, registry>>

\* Mutant of AppendClaim: a claim that is there already is not detected on.
AppendClaimOnce(r, p) ==
  /\ run[r].pc = "append"
  /\ log' = log \cup {AssertedEvent(p.claim, p.chunk)}
  /\ Set(r, [run[r] EXCEPT !.pc = IF log' = log THEN "append" ELSE "detect",
                           !.todo = @ \ {p},
                           !.cur = IF log' = log THEN {} ELSE {p},
                           !.entities = @ \cup {Attr[p.claim].subject}])
  /\ UNCHANGED <<started, compared, registry>>

\* The next claim is observed and appended, whether or not the log has it,
\* and handed to the hook.
AppendClaim(r, p) ==
  /\ run[r].pc = "append"
  /\ log' = log \cup {AssertedEvent(p.claim, p.chunk)}
  /\ Set(r, [run[r] EXCEPT !.pc = "detect", !.todo = @ \ {p}, !.cur = {p},
                           !.entities = @ \cup {Attr[p.claim].subject}])
  /\ UNCHANGED <<started, compared, registry>>

\* OnWriteReconciler: the claim against those this run wrote before it.
DetectOnWrite(r) ==
  /\ run[r].pc = "detect"
  /\ \E c \in ClaimsOf(run[r].cur) :
       LET prompt == Prompt(c, run[r].pool)
           found == {d \in prompt : {c, d} \in Contradict}
       IN  /\ Set(r, [run[r] EXCEPT !.pc = "record", !.found = {RowOf(c, d) : d \in found}])
           /\ compared' = [compared EXCEPT ![r] = @ \cup {{c, d} : d \in prompt}]
  /\ UNCHANGED <<log, started, registry>>

\* Nothing catches an exception of the adjudicator's call: it ends the run.
DetectRaises(r) ==
  /\ run[r].pc = "detect"
  /\ \E c \in ClaimsOf(run[r].cur) : Prompt(c, run[r].pool) # {}
  /\ Set(r, [Idle EXCEPT !.pc = "dead", !.docs = run[r].docs])
  /\ UNCHANGED <<log, started, compared, registry>>

RecordRow(r, k) ==
  /\ run[r].pc = "record"
  /\ log' = log \cup {DetectedEvent(r, k)}
  /\ Set(r, [run[r] EXCEPT !.found = @ \ {k}])
  /\ UNCHANGED <<started, compared, registry>>

Pooled(r) ==
  /\ run[r].pc = "record"
  /\ run[r].found = {}
  /\ Set(r, [run[r] EXCEPT !.pc = "append", !.pool = @ \cup run[r].cur, !.cur = {}])
  /\ UNCHANGED <<log, started, compared, registry>>

\* All claims are in the log: the entities observed are compared.
Propose(r) ==
  /\ run[r].pc = "append"
  /\ run[r].todo = {}
  /\ Set(r, [run[r] EXCEPT !.pc = "link", !.edges = Edges(run[r].entities)])
  /\ UNCHANGED <<log, started, compared, registry>>

Link(r, e) ==
  /\ run[r].pc = "link"
  /\ \E l \in LinkedEvents(r, e) : log' = log \cup {l}
  /\ Set(r, [run[r] EXCEPT !.edges = @ \ {e}])
  /\ UNCHANGED <<started, compared, registry>>

\* The run has ended: its documents, and no others, are in the snapshot.
Finish(r) ==
  /\ run[r].pc = "link"
  /\ run[r].edges = {}
  /\ Set(r, [run[r] EXCEPT !.pc = "done"])
  /\ registry' = run[r].docs
  /\ UNCHANGED <<log, started, compared>>

Die(r) ==
  /\ Working(r)
  /\ Set(r, [Idle EXCEPT !.pc = "dead", !.docs = run[r].docs])
  /\ UNCHANGED <<log, started, compared, registry>>

Init ==
  /\ log = {}
  /\ run = [r \in Runs |-> Idle]
  /\ started = 0
  /\ compared = [r \in Runs |-> {}]
  /\ registry = {}

Next ==
  \E r \in Runs :
    \/ \E docs \in Corpora : Extract(r, docs)
    \/ \E p \in NextIn(run[r].todo) : AppendClaim(r, p)
    \/ DetectOnWrite(r)
    \/ DetectRaises(r)
    \/ \E k \in run[r].found : RecordRow(r, k)
    \/ Pooled(r)
    \/ Propose(r)
    \/ \E e \in run[r].edges : Link(r, e)
    \/ Finish(r)
    \/ Die(r)

Spec == Init /\ [][Next]_vars

-----------------------------------------------------------------------------
(* Properties.                                                             *)

Started == {r \in Runs : run[r].pc # "idle"}
Done    == {r \in Runs : run[r].pc = "done"}

Asserted == OfType(log, {"claim.asserted"})
Links    == OfType(log, {"entity.alias_linked"})
Detected == OfType(log, {"contradiction.detected"})

\* What the audit resolves against: the snapshot, if a run has left one, else all
\* documents, read anew.
Registered == IF registry = {} THEN Files ELSE registry

\* check_claims: the citations that do not resolve, or whose quote is not there.
Failures ==
  {e \in Asserted : \/ e.file \notin Registered
                    \/ Cites[e.claim].loc \notin Locators(e.file)
                    \/ ~QuoteGrounded(e.claim)}

\* A citation fails the audit only when its document is one that some run has
\* read and the run that ended last has not; each is of the document it was
\* read from, and the chunk the claim came from showed the cited unit to the
\* model (verify_anchors, over the whole log).
GroundedInSource ==
  /\ \A e \in Failures : \E r \in Started : e.file \in run[r].docs \ Registered
  /\ \A e \in Asserted :
       /\ e.file = Cites[e.claim].file
       /\ \E ch \in Chunks[e.file] : ch.first = e.chunk /\ Cites[e.claim].loc \in LocatorsOf(ch)

\* The events a run over docs is to write when nothing disturbs it, whatever
\* the order: the claims the gates accept, and the edges between the names
\* they are about, dated to the newest of the documents.
Undisturbed ==
  [docs \in Corpora |->
     LET got == Proposed(ChunksOf(docs))
     IN  [claims |-> {AssertedEvent(p.claim, p.chunk) : p \in got},
          links |-> {[at |-> NewestOf(docs), alias |-> e.alias, canonical |-> e.canonical] :
                       e \in Edges({Attr[p.claim].subject : p \in got})}]]

LinksBare == {[at |-> l.at, alias |-> l.alias, canonical |-> l.canonical] : l \in Links}

\* However many runs died, failed or overlapped before it, what the runs have
\* written is what undisturbed runs over their documents write, and a run
\* that ended and lost no chunk leaves nothing out of it (the pipeline's
\* docstring on idempotence).
RetryConverges ==
  /\ Asserted \subseteq UNION {Undisturbed[run[r].docs].claims : r \in Started}
  /\ LinksBare \subseteq UNION {Undisturbed[run[r].docs].links : r \in Started}
  /\ \A r \in Done : run[r].lost = {} =>
       /\ Undisturbed[run[r].docs].claims \subseteq Asserted
       /\ Undisturbed[run[r].docs].links \subseteq LinksBare

\* Every entry of a document is shown to the model or dropped by the filter
\* as part of a chunk, unless it is empty or a later entry has its locator;
\* and a chunk exceeds the target only if it is a single unit.
WellChunked ==
  [f \in Files |->
     /\ \A n \in DOMAIN Entries[f] :
          \/ ~Speaks(Entries[f][n])
          \/ \E m \in PlacesOf(f, Entries[f][n].loc) : m > n
          \/ \E ch \in Chunks[f] : Entries[f][n].text \in TextsOf(ch)
     /\ \A ch \in Chunks[f] :
          LET last == ch.first + Len(ch.units) - 1
          IN  last > ch.first => SizeOf(Units[f], ch.first, last) <= TargetChars]

EveryEntryChunked == \A r \in Started : \A f \in run[r].docs : WellChunked[f]

\* A run that ended and lost nothing has put to the adjudicator every two of
\* its claims that share a block and overlap, also when it is the retry of a
\* run that died between a claim and its detection; unless other claims,
\* counted as often as the documents give them, fill the prompt of one of the
\* two before the other comes to its place.
PairsCompared ==
  \A r \in Done :
    LET own == Proposed(ChunksOf(run[r].docs))
    IN  run[r].lost = {} =>
          \A c \in ClaimsOf(own) : \A d \in Gated(c, ClaimsOf(own), <<>>) :
            \/ {c, d} \in compared[r]
            \/ PlacesBefore(d, c, own) >= MaxRetrieved
            \/ PlacesBefore(c, d, own) >= MaxRetrieved

\* Two names that a run has seen become one entity exactly when they are the
\* same without their articles, once a run that lost nothing has ended over
\* documents that include those of all the others, whatever edges those wrote
\* before and after, and wherever they stopped.
OneIdentity ==
  \A r \in Done :
    run[r].lost = {} /\ (\A s \in Started : run[s].docs \subseteq run[r].docs) =>
      \A m, n \in run[r].entities :
        Canonical(Aliases(log), m) = Canonical(Aliases(log), n) <=>
          (m = n \/ (Normalized(m) = Normalized(n) /\ Normalized(m) # <<>>))
=============================================================================
