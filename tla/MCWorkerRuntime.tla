-------------------------- MODULE MCWorkerRuntime --------------------------
(***************************************************************************)
(* Small instances of WorkerRuntime for TLC.                               *)
(***************************************************************************)
EXTENDS WorkerRuntime, TLC

EventSymmetry == Permutations(Event)
============================================================================
