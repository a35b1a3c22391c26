------------------------- MODULE FirestoreEventStore -------------------------
(***************************************************************************)
(* The production store (fold/store.py, FirestoreEventStore): one document *)
(* per event, named by its id and written with create(), which fails when  *)
(* the document is there.  Several processes append at once.  Between a    *)
(* call and its answer the reply may be lost, in which case the client     *)
(* library sends the create again or raises; a process may die anywhere.   *)
(***************************************************************************)
CONSTANTS
  Events,    \* event ids
  Callers    \* threads, of any process, that call append

VARIABLES
  docs,      \* the documents of the collection
  pc,        \* where each caller is: "idle", "sent", "replied"
  event,     \* the event it is appending
  reply,     \* the server's answer to its create: "created" or "exists"
  told,      \* the events append has answered for, True or False
  wrote      \* the events append has answered True for

vars == <<docs, pc, event, reply, told, wrote>>

-----------------------------------------------------------------------------
\* append: doc.create(...) is sent.
Send(c, e) ==
  /\ pc[c] = "idle"
  /\ pc' = [pc EXCEPT ![c] = "sent"]
  /\ event' = [event EXCEPT ![c] = e]
  /\ UNCHANGED <<docs, reply, told, wrote>>

\* The server creates the document, or finds it there.
Create(c) ==
  /\ pc[c] = "sent"
  /\ reply' = [reply EXCEPT ![c] = IF event[c] \in docs THEN "exists" ELSE "created"]
  /\ docs' = docs \cup {event[c]}
  /\ pc' = [pc EXCEPT ![c] = "replied"]
  /\ UNCHANGED <<event, told, wrote>>

\* The reply is lost and the client library sends the same create again.
Resend(c) ==
  /\ pc[c] = "replied"
  /\ pc' = [pc EXCEPT ![c] = "sent"]
  /\ UNCHANGED <<docs, event, reply, told, wrote>>

\* Mutant of Return: append does not wait for the answer.
ReturnAtOnce(c) ==
  /\ pc[c] \in {"sent", "replied"}
  /\ told' = told \cup {event[c]}
  /\ pc' = [pc EXCEPT ![c] = "idle"]
  /\ UNCHANGED <<docs, event, reply, wrote>>

\* Mutant of Return: AlreadyExists is answered True as well.
ReturnTrue(c) ==
  /\ pc[c] = "replied"
  /\ told' = told \cup {event[c]}
  /\ wrote' = wrote \cup {event[c]}
  /\ pc' = [pc EXCEPT ![c] = "idle"]
  /\ UNCHANGED <<docs, event, reply>>

\* append returns True if the document was created, False on AlreadyExists.
Return(c) ==
  /\ pc[c] = "replied"
  /\ told' = told \cup {event[c]}
  /\ wrote' = IF reply[c] = "created" THEN wrote \cup {event[c]} ELSE wrote
  /\ pc' = [pc EXCEPT ![c] = "idle"]
  /\ UNCHANGED <<docs, event, reply>>

\* append raises, or its process is killed, before or after the write.
Raise(c) ==
  /\ pc[c] \in {"sent", "replied"}
  /\ pc' = [pc EXCEPT ![c] = "idle"]
  /\ UNCHANGED <<docs, event, reply, told, wrote>>

-----------------------------------------------------------------------------
Init ==
  /\ docs = {}
  /\ pc = [c \in Callers |-> "idle"]
  /\ event \in [Callers -> Events]
  /\ reply = [c \in Callers |-> "exists"]
  /\ told = {}
  /\ wrote = {}

Next ==
  \E c \in Callers :
    \/ \E e \in Events : Send(c, e)
    \/ Create(c)
    \/ Resend(c)
    \/ Return(c)
    \/ Raise(c)

Spec == Init /\ [][Next]_vars

-----------------------------------------------------------------------------
(* Properties.                                                             *)

\* Documents and answers are for events; a caller's event is one of them.
TypeOK ==
  /\ docs \subseteq Events
  /\ pc \in [Callers -> {"idle", "sent", "replied"}]
  /\ event \in [Callers -> Events]
  /\ reply \in [Callers -> {"created", "exists"}]
  /\ told \subseteq Events
  /\ wrote \subseteq told

HoldsCreated(c) == pc[c] = "replied" /\ reply[c] = "created"

\* Two appends of one event never both answer True, however their creates,
\* lost replies and resends interleave: what a run counts as appended, no
\* other run counts.
TrueAtMostOnce ==
  \A c \in Callers : HoldsCreated(c) =>
    /\ event[c] \notin wrote
    /\ \A d \in Callers : HoldsCreated(d) /\ event[d] = event[c] => d = c

\* The collection is an append-only log, and an answered append is in it.
Log == INSTANCE AppendOnlyLog WITH log <- docs

ImplementsLog == Log!Spec
=============================================================================
