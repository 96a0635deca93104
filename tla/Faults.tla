------------------------------- MODULE Faults -------------------------------
(***************************************************************************)
(* The budget of failures in one behaviour.  Every failure outside the     *)
(* control of the modelled process draws on it: a processor error or       *)
(* panic, a statement that fails or whose answer is lost, a lease that     *)
(* lapses while its claim is still worked on, a client that hangs up.      *)
(***************************************************************************)
EXTENDS Naturals

CONSTANT MaxFaults   \* bound: failures in one behaviour

ASSUME FaultsAssumption == MaxFaults \in Nat

VARIABLE faults

Fault == faults < MaxFaults /\ faults' = faults + 1
=============================================================================
