----------------------------- MODULE RetryPolicy -----------------------------
(***************************************************************************)
(* RetryPolicy of llm.py: an attempt that failed in a way worth another is *)
(* repeated after a delay, within a number of attempts and a time budget.  *)
(* A call is [attempt, elapsed]: the attempt under way and the clock when  *)
(* it began, since the first one did.  The time an attempt takes is free.  *)
(***************************************************************************)
EXTENDS Integers

CONSTANTS
  MaxAttempts,   \* max_attempts
  BaseDelay,     \* base_seconds
  MaxDelay,      \* max_delay_seconds
  RetryBudget    \* budget_seconds

ASSUME RetryAssumption ==
  /\ MaxAttempts \in Nat \ {0}
  /\ BaseDelay \in Nat /\ MaxDelay \in Nat /\ RetryBudget \in Nat

FirstAttempt == [attempt |-> 1, elapsed |-> 0]

\* delay_for: full jitter may take any part of the ceiling.
Delays(attempt) ==
  LET ceiling == BaseDelay * 2^(attempt - 1)
  IN  0..(IF ceiling < MaxDelay THEN ceiling ELSE MaxDelay)

\* run: after an attempt that took so long, it sleeps and tries again.
MayRetry(call, took, delay) ==
  /\ call.attempt < MaxAttempts
  /\ delay \in Delays(call.attempt)
  /\ call.elapsed + took + delay <= RetryBudget

NextAttempt(call, took, delay) ==
  [attempt |-> call.attempt + 1, elapsed |-> call.elapsed + took + delay]
=============================================================================
