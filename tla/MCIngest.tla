------------------------------ MODULE MCIngest ------------------------------
(* Inputs for Ingest: both sides of every limit.                           *)
EXTENDS Ingest

MCKey ==
  {[header |-> h, chars |-> 1] : h \in {"absent", "not_ascii", "blank_inside"}}
    \cup {[header |-> "ascii", chars |-> n] : n \in {0, 1, 128, 129}}

(* Labels around a limit: empty, spaces only, multi-byte, with a control.  *)
Labels(max) ==
  {[chars |-> 0, bytes |-> 0, blank |-> TRUE, control |-> FALSE],
   [chars |-> 3, bytes |-> 3, blank |-> TRUE, control |-> FALSE],
   [chars |-> 3, bytes |-> 3, blank |-> FALSE, control |-> TRUE]}
    \cup {[chars |-> n, bytes |-> w * n, blank |-> FALSE, control |-> FALSE]
            : n \in {1, max, max + 1}, w \in {1, 4}}

MCSource == Labels(100)
MCType == Labels(150)
=============================================================================
