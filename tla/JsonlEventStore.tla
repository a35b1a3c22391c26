--------------------------- MODULE JsonlEventStore ---------------------------
(***************************************************************************)
(* The local store (fold/store.py, JsonlEventStore): one JSON object per   *)
(* line, appended under a lock that each store instance holds for itself,  *)
(* with an index of known ids read once and cached.  Several processes may *)
(* hold an instance over the same file, several threads may share one, and *)
(* a process may be killed between any two steps or inside the write,      *)
(* which may also raise and leave the process running.                     *)
(*                                                                         *)
(* A line is the sequence of the pieces written into it: each piece is an  *)
(* event's id, whether all of its JSON reached the file and, as history,   *)
(* the process that wrote it and whether the write raised.  A line parses  *)
(* when it is exactly one whole piece.                                     *)
(***************************************************************************)
EXTENDS Integers, FiniteSets, Sequences, SequencesExt

CONSTANTS
  Events,      \* event ids
  Processes,   \* store instances over the one file
  Threads,     \* threads that call append
  ProcessOf,   \* ProcessOf[t] is the instance thread t uses
  Cuts,        \* how a kill or an error inside the write may cut the line
  MaxKills,    \* bound on the number of kills
  MaxLines,    \* bound on the number of writes
  NoIndex, NoThread

ASSUME JsonlAssumption ==
  /\ Events # {} /\ ProcessOf \in [Threads -> Processes]
  /\ Cuts \subseteq {"partial", "unterminated"}
  /\ MaxKills \in Nat /\ MaxLines \in Nat
  /\ \A index \in SUBSET Events : index # NoIndex
  /\ NoThread \notin Threads

VARIABLES
  file,        \* the lines
  terminated,  \* whether the last line ends in a newline
  seen,        \* the cached index of each instance
  holder,      \* who holds the instance's lock
  pc, event,   \* where each thread is in append, and with which event
  told,        \* the events append has answered for
  kills

vars == <<file, terminated, seen, holder, pc, event, told, kills>>

-----------------------------------------------------------------------------
(* read_all.                                                               *)

Parses(line) == Len(line) = 1 /\ line[1].whole

\* A line that does not parse is skipped if it is the last, and raises if not.
ReadRaises == \E i \in 1..(Len(file) - 1) : ~Parses(file[i])

ReadIds == {file[i][1].id : i \in {j \in DOMAIN file : Parses(file[j])}}

-----------------------------------------------------------------------------
(* The write: after a torn line the new bytes land on the same line.       *)

\* Mutant of WritePiece: the file is opened for writing, not for appending.
OverwritePiece(piece, newline) ==
  /\ file' = <<<<piece>>>>
  /\ terminated' = newline

WritePiece(piece, newline) ==
  /\ file' = IF terminated
               THEN Append(file, <<piece>>)
               ELSE [file EXCEPT ![Len(file)] = Append(@, piece)]
  /\ terminated' = newline

\* Pieces written or about to be: what MaxLines bounds.
Pieces == FoldLeft(LAMBDA n, line : n + Len(line), 0, file)
            + Cardinality({t \in Threads : pc[t] = "write"})

-----------------------------------------------------------------------------
(* append.                                                                 *)

Idle(t) ==
  /\ pc' = [pc EXCEPT ![t] = "idle"]
  /\ holder' = [holder EXCEPT ![ProcessOf[t]] = NoThread]

\* Take the lock, build the index on first use, and look the id up.  The
\* file is read when the index is built and never again.
Lookup(t, e) ==
  LET p     == ProcessOf[t]
      index == IF seen[p] = NoIndex THEN ReadIds ELSE seen[p]
  IN  /\ pc[t] = "idle"
      /\ holder[p] = NoThread
      /\ ~(seen[p] = NoIndex /\ ReadRaises)
      /\ seen' = [seen EXCEPT ![p] = index]
      /\ IF e \in index
           THEN /\ told' = told \cup {e}
                /\ UNCHANGED <<holder, pc, event>>
           ELSE /\ Pieces < MaxLines
                /\ holder' = [holder EXCEPT ![p] = t]
                /\ pc' = [pc EXCEPT ![t] = "write"]
                /\ event' = [event EXCEPT ![t] = e]
                /\ UNCHANGED told
      /\ UNCHANGED <<file, terminated, kills>>

Written(t, whole, raised) ==
  [id |-> event[t], whole |-> whole, by |-> ProcessOf[t], raised |-> raised]

\* write, flush and fsync of the whole line.
WriteLine(t) ==
  /\ pc[t] = "write"
  /\ WritePiece(Written(t, TRUE, FALSE), TRUE)
  /\ pc' = [pc EXCEPT ![t] = "written"]
  /\ UNCHANGED <<seen, holder, event, told, kills>>

\* open, write, flush or fsync raises and the process goes on: none of the
\* line reached the file, or part of it, or all of it.  The id is not indexed,
\* the lock is released and the caller gets the error and no answer.
WriteFails(t) ==
  /\ pc[t] = "write"
  /\ \/ UNCHANGED <<file, terminated>>
     \/ \E cut \in Cuts : WritePiece(Written(t, cut = "unterminated", TRUE), FALSE)
     \/ WritePiece(Written(t, TRUE, TRUE), TRUE)
  /\ Idle(t)
  /\ UNCHANGED <<seen, event, told, kills>>

\* Mutant of Return: the new id is not indexed.
ReturnUnindexed(t) ==
  /\ pc[t] = "written"
  /\ told' = told \cup {event[t]}
  /\ Idle(t)
  /\ UNCHANGED <<file, terminated, seen, event, kills>>

\* Index the id, answer True and release the lock.
Return(t) ==
  /\ pc[t] = "written"
  /\ seen' = [seen EXCEPT ![ProcessOf[t]] = @ \cup {event[t]}]
  /\ told' = told \cup {event[t]}
  /\ Idle(t)
  /\ UNCHANGED <<file, terminated, event, kills>>

-----------------------------------------------------------------------------
(* A process is killed, and a new one starts in its place: its index and   *)
(* its lock are gone, the file stays.                                      *)

Restarted(p) ==
  /\ kills < MaxKills
  /\ kills' = kills + 1
  /\ seen' = [seen EXCEPT ![p] = NoIndex]
  /\ holder' = [holder EXCEPT ![p] = NoThread]
  /\ pc' = [t \in Threads |-> IF ProcessOf[t] = p THEN "idle" ELSE pc[t]]
  /\ UNCHANGED <<event, told>>

Kill(p) ==
  /\ Restarted(p)
  /\ UNCHANGED <<file, terminated>>

\* Killed inside the write: part of the object reached the file, or all of
\* it and not the newline.
KillInWrite(t, cut) ==
  /\ pc[t] = "write"
  /\ WritePiece(Written(t, cut = "unterminated", FALSE), FALSE)
  /\ Restarted(ProcessOf[t])

-----------------------------------------------------------------------------
Init ==
  /\ file = <<>>
  /\ terminated = TRUE
  /\ seen = [p \in Processes |-> NoIndex]
  /\ holder = [p \in Processes |-> NoThread]
  /\ pc = [t \in Threads |-> "idle"]
  /\ event \in [Threads -> {CHOOSE e \in Events : TRUE}]
  /\ told = {}
  /\ kills = 0

Next ==
  \/ \E t \in Threads :
       \/ \E e \in Events : Lookup(t, e)
       \/ WriteLine(t)
       \/ WriteFails(t)
       \/ Return(t)
       \/ \E cut \in Cuts : KillInWrite(t, cut)
  \/ \E p \in Processes : Kill(p)

Spec == Init /\ [][Next]_vars

-----------------------------------------------------------------------------
(* Properties.                                                             *)

\* No line holds what another one does.
Unglued(lines) == \A i \in DOMAIN lines : Len(lines[i]) = 1

Log == INSTANCE AppendOnlyLog WITH log <- ReadIds

\* However many instances share the file, wherever they are killed and
\* whatever a write that raises leaves behind, every step is a step of the
\* append-only log, and reads succeed, as long as nothing was written after a
\* torn line: a kill or an error inside the write costs at most the event being
\* written, and no append that has been answered.
LogUntilGlued ==
  [][Unglued(file') => ~ReadRaises' /\ [Log!Next]_<<ReadIds, told>>]_vars

\* A process, restarts included, never writes an event that it or an earlier
\* incarnation has written, unless that write raised: of two lines that hold
\* one id by one process, the earlier one's append got an error, and only the
\* index, which does not have the id then, lets the retry write it again.
WrittenOncePerProcess ==
  \A i, j \in DOMAIN file :
    /\ i < j
    /\ Parses(file[i]) /\ Parses(file[j])
    /\ file[i][1].id = file[j][1].id /\ file[i][1].by = file[j][1].by
    => file[i][1].raised
=============================================================================
