--------------------------- MODULE MCEventStore ---------------------------
(***************************************************************************)
(* Small instances of EventStore for TLC.  Workers and sessions are model  *)
(* values that no property tells apart; events are ordered and are not.    *)
(***************************************************************************)
EXTENDS EventStore, TLC

Symmetry == Permutations(Worker) \cup Permutations(Session)
===========================================================================
