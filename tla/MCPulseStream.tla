--------------------------- MODULE MCPulseStream ---------------------------
(***************************************************************************)
(* Small instances of PulseStream for TLC.                                 *)
(***************************************************************************)
EXTENDS PulseStream

(***************************************************************************)
(* The ids that admissions draw: one for every request a client may send.  *)
(***************************************************************************)
MCEvent == Client \X (1 .. MaxFaults + 1)
============================================================================
