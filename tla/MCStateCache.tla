----------------------------- MODULE MCStateCache -----------------------------
(***************************************************************************)
(* Two threads, two events.                                                *)
(***************************************************************************)
EXTENDS StateCache

CONSTANTS t1, t2, e1, e2
=============================================================================
