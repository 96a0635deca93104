----------------------------- MODULE MCBacklog -----------------------------
(* Instances of Backlog.                                                   *)
EXTENDS Backlog
============================================================================
