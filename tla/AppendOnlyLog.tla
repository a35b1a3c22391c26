---------------------------- MODULE AppendOnlyLog ----------------------------
(***************************************************************************)
(* What an EventStore promises its callers (fold/store.py): there is an    *)
(* append and no update or delete, and once append has answered - written  *)
(* or already present - every later read returns the event.                *)
(***************************************************************************)
CONSTANT Events

VARIABLES
  log,    \* the events a read returns
  told    \* the events some append has answered for, True or False

TypeOK == log \subseteq Events /\ told \subseteq Events

Init == log = {} /\ told = {}

Write(e) ==
  /\ log' = log \cup {e}
  /\ UNCHANGED told

Answer(e) ==
  /\ e \in log
  /\ told' = told \cup {e}
  /\ UNCHANGED log

Next == \E e \in Events : Write(e) \/ Answer(e)

Spec == Init /\ [][Next]_<<log, told>>

\* An answered append is never lost: what the caller was told is in the log.
Durable == told \subseteq log
=============================================================================
