------------------------------ MODULE Backlog ------------------------------
(***************************************************************************)
(* The order of claims and what events that always fail do to the others:  *)
(* "claim up to `limit` events, oldest first" (store claim), a worker that *)
(* claims whenever it has a free slot (run), and failed claims left to     *)
(* expire (process_claim).  Such an event comes back after every lease,    *)
(* ahead of everything younger.                                            *)
(*                                                                         *)
(* Time passes in units longer than poll_interval: the worker never sits   *)
(* on a free slot with a claimable event for a whole unit.  Events are     *)
(* numbered in the order of (accepted_at, event_id).                       *)
(***************************************************************************)
EXTENDS Integers, SequencesExt

CONSTANTS
  MaxEvents,    \* bound on admissions
  Poison,       \* events whose processing always fails
  Concurrency,  \* slots of the worker
  Lease,        \* units a claim lasts
  MaxWork       \* units an attempt takes at most

(***************************************************************************)
(* Attempts end within their lease, and the failing events cannot fill all *)
(* slots all the time.                                                     *)
(***************************************************************************)
ASSUME LoadAssumption ==
  /\ Poison \subseteq 1 .. MaxEvents
  /\ MaxWork \in 1 .. Lease - 1
  /\ Cardinality(Poison) * MaxWork < Concurrency * Lease

VARIABLES
  status,   \* event -> "ABSENT" before its admission, or the status column
  lease,    \* event -> units until lease_expires_at
  work      \* event -> units the attempt in progress may still take, or -1

backlogVars == <<status, lease, work>>
Event == 1 .. MaxEvents
Idle == -1

BacklogInit ==
  /\ status = [e \in Event |-> "ABSENT"]
  /\ lease = [e \in Event |-> 0]
  /\ work = [e \in Event |-> Idle]

AdmitNext ==
  \E e \in Event :
    /\ status[e] = "ABSENT"
    /\ \A d \in 1 .. e - 1 : status[d] # "ABSENT"
    /\ status' = [status EXCEPT ![e] = "PENDING"]
    /\ UNCHANGED <<lease, work>>

FreeSlots == Concurrency - Cardinality({e \in Event : work[e] # Idle})

(***************************************************************************)
(* Fault: a claim that ended without success is claimable at once.         *)
(***************************************************************************)
ClaimableEagerly(e) == \/ status[e] = "PENDING"
                       \/ status[e] = "PROCESSING" /\ work[e] = Idle

Claimable(e) == \/ status[e] = "PENDING"
                \/ status[e] = "PROCESSING" /\ lease[e] = 0

(***************************************************************************)
(* ORDER BY accepted_at, event_id LIMIT free.                              *)
(***************************************************************************)
Candidates ==
  LET oldest == SetToSortSeq({e \in Event : Claimable(e)}, <) IN
  Range(SubSeq(oldest, 1, IF Len(oldest) < FreeSlots THEN Len(oldest) ELSE FreeSlots))

ClaimBatch ==
  /\ FreeSlots > 0 /\ Candidates # {}
  /\ status' = [e \in Event |-> IF e \in Candidates THEN "PROCESSING" ELSE status[e]]
  /\ lease' = [e \in Event |-> IF e \in Candidates THEN Lease ELSE lease[e]]
  /\ work' = [e \in Event |-> IF e \in Candidates THEN MaxWork ELSE work[e]]

(***************************************************************************)
(* process and complete; a failure leaves the row as it is.                *)
(***************************************************************************)
RunOne(e) ==
  /\ work[e] # Idle
  /\ work' = [work EXCEPT ![e] = Idle]
  /\ status' = [status EXCEPT ![e] = IF e \in Poison THEN @ ELSE "PROCESSED"]
  /\ UNCHANGED lease

(***************************************************************************)
(* A unit of time, once every attempt that is due has ended and the worker *)
(* has claimed what it can.                                                *)
(***************************************************************************)
Tick ==
  /\ \A e \in Event : work[e] # 0
  /\ FreeSlots = 0 \/ Candidates = {}
  /\ \E e \in Event : lease[e] > 0
  /\ lease' = [e \in Event |-> IF lease[e] > 0 THEN lease[e] - 1 ELSE 0]
  /\ work' = [e \in Event |-> IF work[e] > 0 THEN work[e] - 1 ELSE work[e]]
  /\ UNCHANGED status

BacklogNext == AdmitNext \/ ClaimBatch \/ (\E e \in Event : RunOne(e)) \/ Tick

BacklogSpec ==
  /\ BacklogInit /\ [][BacklogNext]_backlogVars
  /\ WF_backlogVars(ClaimBatch) /\ WF_backlogVars(Tick)
  /\ \A e \in Event : WF_backlogVars(RunOne(e))

---------------------------------------------------------------------------
(***************************************************************************)
(* Events that always fail are reclaimed for ever, oldest first, and still *)
(* every other event is processed as long as the failing ones need less    *)
(* than the slots' whole time: while their leases run they are no          *)
(* candidates.                                                             *)
(***************************************************************************)
OthersProcessed ==
  \A e \in Event \ Poison : status[e] = "PENDING" ~> status[e] = "PROCESSED"

============================================================================
