-------------------------- MODULE MCJsonlEventStore --------------------------
(***************************************************************************)
(* Instances of JsonlEventStore: one process with two threads, and two     *)
(* processes of which one runs two threads.                                *)
(***************************************************************************)
EXTENDS JsonlEventStore

CONSTANTS p1, p2, t1, t2, t3

OneProcess   == [t \in Threads |-> p1]
TwoProcesses == [t \in Threads |-> IF t = t3 THEN p2 ELSE p1]
=============================================================================
