------------------------------- MODULE MCIngest -------------------------------
(***************************************************************************)
(* An instance of Ingest: minutes of three paragraphs that make two chunks *)
(* with the middle one in both, and a chat in which two messages share a   *)
(* second.  Two spellings of a treasurer, and the holder of another office.*)
(* A second of the clock is 10 instants, a day 30.                         *)
(***************************************************************************)
EXTENDS Ingest, TLC

CONSTANTS minutes, chat, c1, c2, c3, x1, x2, x3, r1, r2

Name(words, len, rank) == [words |-> words, len |-> len, rank |-> rank]

Plain  == Name(<<"treasurer">>, 9, 3)
The    == Name(<<"the", "treasurer">>, 13, 2)
Deputy == Name(<<"assistant", "treasurer">>, 19, 1)

MCNames == {Plain, The, Deputy}

In(form, n) == [form |-> form, n |-> n]

\* The chat is a drop that arrives later.
MCManifest ==
  <<[file |-> minutes, written |-> In("date", 1), deferred |-> FALSE, complete |-> TRUE],
    [file |-> chat, written |-> In("offset", 40), deferred |-> TRUE, complete |-> TRUE]>>

Entry(loc, text, at) == [loc |-> loc, text |-> text, at |-> at]

MCEntries ==
  [f \in Files |->
     IF f = minutes
       THEN <<Entry("p1", "welcome", NoInstant), Entry("p2", "signs", NoInstant),
              Entry("p3", "none", NoInstant), Entry("p4", "limit", NoInstant)>>
       ELSE <<Entry("m7", "lost", In("number", 1)), Entry("m7", "deputy", In("number", 1)),
              Entry("m8", "omw", In("number", 2))>>]

Says(size, signal, noise, quotes) ==
  [size |-> size, signal |-> signal, noise |-> noise, quotes |-> quotes]

MCText ==
  [t \in {"welcome", "signs", "limit", "lost", "deputy", "omw"} |->
     CASE t = "welcome" -> Says(2, FALSE, FALSE, {})
       [] t = "signs"   -> Says(2, TRUE, FALSE, {"q1"})
       [] t = "limit"   -> Says(1, TRUE, FALSE, {"q2"})
       [] t = "lost"    -> Says(1, TRUE, FALSE, {"q4"})
       [] t = "deputy"  -> Says(2, TRUE, FALSE, {"q3"})
       [] t = "omw"     -> Says(3, FALSE, TRUE, {})]

Citation(file, loc, quote) == [file |-> file, loc |-> loc, quote |-> quote]

MCCites ==
  [c \in Claims |->
     CASE c = c1 -> Citation(minutes, "p2", "q1")
       [] c = c2 -> Citation(minutes, "p4", "q2")
       [] c = c3 -> Citation(chat, "m7", "q3")
       [] c = x1 -> Citation(minutes, "p2", "q2")
       [] c \in {x2, x3} -> Citation(minutes, "p4", "q2")]

\* One period is in local time, and one ends before it begins.
MCStated ==
  [c \in Claims |->
     [object |-> TRUE,
      from |-> IF c = x2 THEN In("local", 30)
               ELSE IF c \in {c2, x3} THEN In("date", 1) ELSE NoInstant,
      until |-> IF c = x3 THEN In("number", 2) ELSE NoInstant]]

\* The last paragraph yields a claim, and again with the wrong anchor or dates.
MCReturned ==
  {[seen |-> p[1], claim |-> p[2], nth |-> 1] :
     p \in {<<"signs", c1>>, <<"limit", c2>>, <<"limit", x1>>, <<"limit", x2>>,
            <<"limit", x3>>, <<"deputy", c3>>}}

Holds(subject, object, from, observed, rank) ==
  [subject |-> subject, object |-> object, hint |-> "signing authority", from |-> from,
   until |-> 1000, observed |-> observed, rank |-> rank]

\* The second claim and the third name the first one's subject, so that all
\* three meet.
MCAttr ==
  [c \in Claims |->
     CASE c = c1 -> Holds(Plain, NoEntity, 0, ObservedAt(minutes, "p2"), 1)
       [] c = c2 -> Holds(The, Plain, Millis(Stated[c].from), ObservedAt(minutes, "p4"), 2)
       [] c = c3 -> Holds(Deputy, Plain, 0, ObservedAt(chat, "m7"), 3)
       [] c = x1 -> Holds(Plain, NoEntity, 0, ObservedAt(minutes, "p2"), 4)
       [] c = x2 -> Holds(Plain, NoEntity, 0, ObservedAt(minutes, "p4"), 5)
       [] c = x3 -> Holds(Plain, NoEntity, 0, ObservedAt(minutes, "p4"), 6)]

MCContradict == {{c1, c2}}

\* The runs differ in nothing but their names.
RunSymmetry == Permutations(Runs)
=============================================================================
