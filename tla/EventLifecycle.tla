-------------------------- MODULE EventLifecycle --------------------------
(***************************************************************************)
(* What the events table promises: the life of every event as the          *)
(* operations of `Store` move it, with each operation one atomic step.     *)
(*                                                                         *)
(*   ABSENT --Admit--> PENDING --Claim--> PROCESSING --Complete--> PROCESSED *)
(*                                          |    ^                         *)
(*                                          +----+  Claim, once the lease  *)
(*                                                  has lapsed             *)
(*                                                                         *)
(* EventStore refines this module down to row locks and the database       *)
(* clock, and WorkerRuntime builds the worker process on top of it.        *)
(*                                                                         *)
(* Time is abstracted to one bit per event: whether                        *)
(* lease_expires_at <= now() holds.  That bit can turn true at any moment, *)
(* which covers every lease length and every delay.                        *)
(***************************************************************************)
EXTENDS Naturals

CONSTANTS
  Event,          \* the event ids the API may ever draw
  Worker,         \* worker processes; a restarted process is a new WorkerId
  NoOwner         \* processing_owner IS NULL

ASSUME LifecycleAssumption == NoOwner \notin Worker

VARIABLES
  status,             \* "ABSENT" stands for: no such row
  processing_owner,
  lease_lapsed,       \* lease_expires_at <= now()
  delivery_attempts

lifecycleVars == <<status, processing_owner, lease_lapsed, delivery_attempts>>

Status == {"ABSENT", "PENDING", "PROCESSING", "PROCESSED"}

(***************************************************************************)
(* The type of the table's columns.                                        *)
(***************************************************************************)
LifecycleTypeOK ==
  /\ status \in [Event -> Status]
  /\ processing_owner \in [Event -> Worker \cup {NoOwner}]
  /\ lease_lapsed \in [Event -> BOOLEAN]
  /\ delivery_attempts \in [Event -> Nat]

LifecycleInit ==
  /\ status = [e \in Event |-> "ABSENT"]
  /\ processing_owner = [e \in Event |-> NoOwner]
  /\ lease_lapsed = [e \in Event |-> FALSE]
  /\ delivery_attempts = [e \in Event |-> 0]

---------------------------------------------------------------------------
(***************************************************************************)
(* Store::admit, at the moment its transaction commits a new row.  The     *)
(* columns it does not bind take the table's defaults.                     *)
(***************************************************************************)
Admit(e) ==
  /\ status[e] = "ABSENT"
  /\ status' = [status EXCEPT ![e] = "PENDING"]
  /\ UNCHANGED <<processing_owner, lease_lapsed, delivery_attempts>>

(***************************************************************************)
(* Fault: rows are claimed whatever their lease says.                      *)
(***************************************************************************)
ClaimableIgnoringLease(e) == status[e] \in {"PENDING", "PROCESSING"}

(***************************************************************************)
(* Fault: the WHERE clause excludes running claims only, so that finished  *)
(* rows qualify.                                                           *)
(***************************************************************************)
ClaimableAgain(e) ==
  \/ status[e] \in {"PENDING", "PROCESSED"}
  \/ status[e] = "PROCESSING" /\ lease_lapsed[e]

(***************************************************************************)
(* Fault: no recovery, only PENDING rows are claimed.                      *)
(***************************************************************************)
ClaimablePendingOnly(e) == status[e] = "PENDING"

(***************************************************************************)
(* The WHERE clause of Store::claim.                                       *)
(***************************************************************************)
Claimable(e) ==
  \/ status[e] = "PENDING"
  \/ status[e] = "PROCESSING" /\ lease_lapsed[e]

(***************************************************************************)
(* Fault: only the first delivery is counted.                              *)
(***************************************************************************)
ClaimUncounted(w, batch, late) ==
  /\ \A e \in batch : Claimable(e)
  /\ status' = [e \in Event |-> IF e \in batch THEN "PROCESSING" ELSE status[e]]
  /\ processing_owner' =
       [e \in Event |-> IF e \in batch THEN w ELSE processing_owner[e]]
  /\ lease_lapsed' = [e \in Event |-> IF e \in batch THEN late ELSE lease_lapsed[e]]
  /\ delivery_attempts' = [e \in Event |-> IF e \in batch THEN 1 ELSE delivery_attempts[e]]

(***************************************************************************)
(* Fault: a reclaim leaves the previous owner in place.                    *)
(***************************************************************************)
ClaimKeepsOwner(w, batch, late) ==
  /\ \A e \in batch : Claimable(e)
  /\ status' = [e \in Event |-> IF e \in batch THEN "PROCESSING" ELSE status[e]]
  /\ processing_owner' =
       [e \in Event |-> IF e \in batch /\ processing_owner[e] = NoOwner
                       THEN w ELSE processing_owner[e]]
  /\ lease_lapsed' = [e \in Event |-> IF e \in batch THEN late ELSE lease_lapsed[e]]
  /\ delivery_attempts' =
       [e \in Event |-> delivery_attempts[e] + IF e \in batch THEN 1 ELSE 0]

(***************************************************************************)
(* Store::claim, which moves a batch of rows to PROCESSING under w.  All   *)
(* rows of a batch share one lease deadline, counted from the start of the *)
(* statement: a statement that takes longer than the lease hands out rows  *)
(* whose lease has lapsed already (late).                                  *)
(***************************************************************************)
Claim(w, batch, late) ==
  /\ \A e \in batch : Claimable(e)
  /\ status' = [e \in Event |-> IF e \in batch THEN "PROCESSING" ELSE status[e]]
  /\ processing_owner' =
       [e \in Event |-> IF e \in batch THEN w ELSE processing_owner[e]]
  /\ lease_lapsed' = [e \in Event |-> IF e \in batch THEN late ELSE lease_lapsed[e]]
  /\ delivery_attempts' =
       [e \in Event |-> delivery_attempts[e] + IF e \in batch THEN 1 ELSE 0]

(***************************************************************************)
(* Fault: the completion is not conditional on the claim.                  *)
(***************************************************************************)
OwnsUnchecked(w, e) == status[e] # "ABSENT"

(***************************************************************************)
(* The WHERE clause of Store::complete: the row is PROCESSING and still    *)
(* owned by w.  Neither the lease nor the attempt is compared.             *)
(***************************************************************************)
Owns(w, e) == status[e] = "PROCESSING" /\ processing_owner[e] = w

(***************************************************************************)
(* Fault: the completion leaves processing_owner behind.                   *)
(***************************************************************************)
CompleteKeepsOwner(w, e) ==
  /\ Owns(w, e)
  /\ status' = [status EXCEPT ![e] = "PROCESSED"]
  /\ lease_lapsed' = [lease_lapsed EXCEPT ![e] = FALSE]
  /\ UNCHANGED <<processing_owner, delivery_attempts>>

(***************************************************************************)
(* Store::complete when its UPDATE affects the row (it returns true).      *)
(***************************************************************************)
Complete(w, e) ==
  /\ Owns(w, e)
  /\ status' = [status EXCEPT ![e] = "PROCESSED"]
  /\ processing_owner' = [processing_owner EXCEPT ![e] = NoOwner]
  /\ lease_lapsed' = [lease_lapsed EXCEPT ![e] = FALSE]
  /\ UNCHANGED delivery_attempts

(***************************************************************************)
(* The database clock passes the lease deadline of some events.            *)
(***************************************************************************)
LeasesLapse(lapsing) ==
  /\ \A e \in lapsing : status[e] = "PROCESSING"
  /\ lease_lapsed' = [e \in Event |-> e \in lapsing \/ lease_lapsed[e]]
  /\ UNCHANGED <<status, processing_owner, delivery_attempts>>

LifecycleNext ==
  \/ \E e \in Event : Admit(e)
  \/ \E w \in Worker, batch \in SUBSET Event, late \in BOOLEAN : Claim(w, batch, late)
  \/ \E w \in Worker, e \in Event : Complete(w, e)
  \/ \E lapsing \in SUBSET Event : LeasesLapse(lapsing)

LifecycleSpec == LifecycleInit /\ [][LifecycleNext]_lifecycleVars

---------------------------------------------------------------------------
(***************************************************************************)
(* The columns of a row agree with its status, as the CHECK constraint     *)
(* events_lifecycle_consistent demands: exactly the PROCESSING rows have   *)
(* an owner and a lease, and a row was delivered once it left PENDING.     *)
(***************************************************************************)
ColumnsAgree ==
  \A e \in Event :
    /\ status[e] = "PROCESSING" <=> processing_owner[e] # NoOwner
    /\ lease_lapsed[e] => status[e] = "PROCESSING"
    /\ status[e] \in {"PROCESSING", "PROCESSED"} <=> delivery_attempts[e] > 0

(***************************************************************************)
(* While a lease runs, the claim is its owner's alone: no other claim      *)
(* takes the row over, and the row leaves PROCESSING only to PROCESSED.    *)
(* This is what the lease test of Store::claim and the ownership test of   *)
(* Store::complete are for.                                                *)
(***************************************************************************)
LeaseProtectsClaim ==
  [][\A e \in Event :
       status[e] = "PROCESSING" /\ ~lease_lapsed[e] =>
         /\ delivery_attempts'[e] = delivery_attempts[e]
         /\ \/ status'[e] = "PROCESSED"
            \/ status'[e] = "PROCESSING" /\ processing_owner'[e] = processing_owner[e]
    ]_lifecycleVars

(***************************************************************************)
(* A PROCESSED event is final: no late claim or completion, of whatever    *)
(* worker, ever touches its row again.                                     *)
(***************************************************************************)
ProcessedIsFinal ==
  [][\A e \in Event :
       status[e] = "PROCESSED" =>
         /\ status'[e] = "PROCESSED"
         /\ delivery_attempts'[e] = delivery_attempts[e]
    ]_lifecycleVars
===========================================================================
