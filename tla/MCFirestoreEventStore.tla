------------------------ MODULE MCFirestoreEventStore ------------------------
(***************************************************************************)
(* Three callers and two events.                                           *)
(***************************************************************************)
EXTENDS FirestoreEventStore

CONSTANTS c1, c2, c3, e1, e2
=============================================================================
