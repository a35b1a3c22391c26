------------------------------ MODULE StateCache ------------------------------
(***************************************************************************)
(* The folded state each service instance caches (_Runtime of              *)
(* interview/service.py, and the same class of dossier/service.py).        *)
(* Handlers run in threads that share the two fields _state and _state_at  *)
(* without a lock; other instances append to the same log.  Folding is     *)
(* left out: a state is the set of the events it was folded from.          *)
(***************************************************************************)
CONSTANTS
  Events,    \* what may be appended, each once
  Threads,   \* the threads of this instance
  None       \* Python's None: not a state and not an event

VARIABLES
  log,
  state,     \* _state: the events folded into it, or None
  expired,   \* whether _state_at is more than STATE_TTL_SECONDS ago
  pc,        \* where each thread is
  force,     \* whether it called state(force=True)
  snap,      \* the log as it read it
  got,       \* what state() returned to it
  event,     \* what it has appended and not yet invalidated the cache for
  dropped,   \* history: the events whose writer has invalidated the cache
  raced,     \* history: those that a fold begun before was still under way for
  due        \* history: dropped, when the thread's call began

cacheVars == <<log, state, expired, pc, force, snap, got, event, dropped, raced, due>>

Go(t, to) == pc' = [pc EXCEPT ![t] = to]

-----------------------------------------------------------------------------
(* state().                                                                *)

Call(t, f) ==
  /\ pc[t] = "idle"
  /\ force' = [force EXCEPT ![t] = f]
  /\ due' = [due EXCEPT ![t] = dropped]
  /\ Go(t, "test")
  /\ UNCHANGED <<log, state, expired, snap, got, event, dropped, raced>>

\* Mutant of Test: a cached state never grows old.
TestForever(t) ==
  /\ pc[t] = "test"
  /\ Go(t, IF force[t] \/ state = None THEN "read" ELSE "return")
  /\ UNCHANGED <<log, state, expired, force, snap, got, event, dropped, raced, due>>

Test(t) ==
  /\ pc[t] = "test"
  /\ Go(t, IF force[t] \/ state = None \/ expired THEN "read" ELSE "return")
  /\ UNCHANGED <<log, state, expired, force, snap, got, event, dropped, raced, due>>

\* fold(self.store.read_all()), and then the assignments of its result and
\* of the clock: another thread may run before each of them.
Read(t) ==
  /\ pc[t] = "read"
  /\ snap' = [snap EXCEPT ![t] = log]
  /\ Go(t, "assign")
  /\ UNCHANGED <<log, state, expired, force, got, event, dropped, raced, due>>

Assign(t) ==
  /\ pc[t] = "assign"
  /\ state' = snap[t]
  /\ snap' = [snap EXCEPT ![t] = {}]
  /\ Go(t, "stamp")
  /\ UNCHANGED <<log, expired, force, got, event, dropped, raced, due>>

Stamp(t) ==
  /\ pc[t] = "stamp"
  /\ expired' = FALSE
  /\ Go(t, "return")
  /\ UNCHANGED <<log, state, force, snap, got, event, dropped, raced, due>>

\* return self._state, whatever it is by now.
Return(t) ==
  /\ pc[t] = "return"
  /\ got' = [got EXCEPT ![t] = state]
  /\ Go(t, "use")
  /\ UNCHANGED <<log, state, expired, force, snap, event, dropped, raced, due>>

-----------------------------------------------------------------------------
(* The handler uses the state and answers, or appends and invalidates.  A  *)
(* handler that got None fails on its first use of it.                     *)

Finish(t) ==
  /\ got' = [got EXCEPT ![t] = {}]
  /\ force' = [force EXCEPT ![t] = FALSE]
  /\ due' = [due EXCEPT ![t] = {}]
  /\ Go(t, "idle")

Answer(t) ==
  /\ pc[t] = "use"
  /\ Finish(t)
  /\ UNCHANGED <<log, state, expired, snap, event, dropped, raced>>

AppendEvent(t, e) ==
  /\ pc[t] = "use"
  /\ got[t] # None
  /\ e \notin log
  /\ log' = log \cup {e}
  /\ event' = [event EXCEPT ![t] = e]
  /\ Go(t, "invalidate")
  /\ UNCHANGED <<state, expired, force, snap, got, dropped, raced, due>>

\* Mutant of Invalidate: the cached state stays.
InvalidateNothing(t) ==
  /\ pc[t] = "invalidate"
  /\ dropped' = dropped \cup {event[t]}
  /\ UNCHANGED <<log, state, expired, snap, raced>>
  /\ event' = [event EXCEPT ![t] = None]
  /\ Finish(t)

Invalidate(t) ==
  /\ pc[t] = "invalidate"
  /\ state' = None
  /\ dropped' = dropped \cup {event[t]}
  /\ raced' = raced \cup {e \in {event[t]} : \E u \in Threads : pc[u] = "assign" /\ e \notin snap[u]}
  /\ event' = [event EXCEPT ![t] = None]
  /\ Finish(t)
  /\ UNCHANGED <<log, expired, snap>>

\* Another instance appends.
AppendElsewhere(e) ==
  /\ e \notin log
  /\ log' = log \cup {e}
  /\ UNCHANGED <<state, expired, pc, force, snap, got, event, dropped, raced, due>>

\* STATE_TTL_SECONDS go by.
Expire ==
  /\ expired' = TRUE
  /\ UNCHANGED <<log, state, pc, force, snap, got, event, dropped, raced, due>>

-----------------------------------------------------------------------------
CacheInit ==
  /\ log = {}
  /\ state = None
  /\ expired = TRUE
  /\ pc = [t \in Threads |-> "idle"]
  /\ force = [t \in Threads |-> FALSE]
  /\ snap = [t \in Threads |-> {}]
  /\ got = [t \in Threads |-> {}]
  /\ event = [t \in Threads |-> None]
  /\ dropped = {}
  /\ raced = {}
  /\ due = [t \in Threads |-> {}]

CacheStep(t) ==
  \/ Test(t)
  \/ Read(t)
  \/ Assign(t)
  \/ Stamp(t)
  \/ Return(t)
  \/ Answer(t)
  \/ \E e \in Events : AppendEvent(t, e)
  \/ Invalidate(t)

CacheNext ==
  \/ \E t \in Threads : CacheStep(t) \/ \E f \in BOOLEAN : Call(t, f)
  \/ \E e \in Events : AppendElsewhere(e)
  \/ Expire

CacheSpec == CacheInit /\ [][CacheNext]_cacheVars

\* A handler that runs goes on, and time passes; nobody has to call.
CacheFairSpec == CacheSpec /\ WF_cacheVars(Expire) /\ \A t \in Threads : WF_cacheVars(CacheStep(t))

-----------------------------------------------------------------------------
(* Properties.                                                             *)

\* A call that begins after a write was invalidated returns a state with the
\* write in it, unless a fold that had read the log before the write was
\* still to be stored when the writer invalidated: "Drop the folded state
\* after a write, so the next read sees it", with its one exception.
NextReadSeesIt ==
  \A t \in Threads :
    pc[t] = "use" /\ got[t] # None => due[t] \ raced \subseteq got[t]

\* However the threads interleave, and whichever instance wrote it, an event
\* in the log is in every state that handlers get from some moment on: a
\* stale state put back after an invalidate is served for a while, and the
\* time to live gets rid of it.
EventuallySeen ==
  \A e \in Events :
    e \in log ~> [](\A t \in Threads :
                     pc[t] \in {"use", "invalidate"} /\ got[t] # None => e \in got[t])
=============================================================================
