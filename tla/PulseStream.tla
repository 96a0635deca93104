---------------------------- MODULE PulseStream ----------------------------
(***************************************************************************)
(* The whole service: the API of module Admission and the workers of       *)
(* module WorkerRuntime on one events table, and clients that follow what  *)
(* becomes of their events with GET /v1/events/{event_id}.                 *)
(*                                                                         *)
(* The processes meet in the table only: a row committed by an admission   *)
(* is, in the same step, a PENDING event that workers can claim.  Faults   *)
(* of both sides draw on one budget, MaxFaults.                            *)
(***************************************************************************)
EXTENDS WorkerRuntime, Admission

(***************************************************************************)
(* The ids that admissions draw are ids of events.                         *)
(***************************************************************************)
ASSUME ServiceAssumption == Id \subseteq Event

VARIABLES
  read,   \* the GET of each client: none, under way, or the status it has read
  seen    \* the status each client was last told

apiVars == <<request, tries, step, outcome, table, limbo, answers>>
runtimeVars == <<pc, tasks, batch, shutdown, counters, late, handled>>
readVars == <<read, seen>>
serviceVars == <<vars, apiVars, readVars>>

ServiceInit ==
  /\ Init
  /\ AdmissionInit
  /\ read = [c \in Client |-> "none"]
  /\ seen = [c \in Client |-> "none"]

(***************************************************************************)
(* Fault: ON CONFLICT DO UPDATE, which rewrites the lifecycle columns of   *)
(* the row that a replay finds.                                            *)
(***************************************************************************)
AdmissionStepUpserts(A) ==
  LET replay == {c \in Client : step[c] = "commit" /\ step'[c] = "committed"
                                 /\ outcome[c].kind = "replayed"} IN
  /\ A
  /\ IF table' # table THEN \E r \in table' \ table : Admit(r.id)
     ELSE /\ status' = [e \in Event |-> IF \E c \in replay : outcome[c].id = e
                                        THEN "PENDING" ELSE status[e]]
          /\ processing_owner' = [e \in Event |-> IF status'[e] = "PENDING"
                                                  THEN NoOwner ELSE processing_owner[e]]
          /\ UNCHANGED <<lease_lapsed, delivery_attempts>>
  /\ UNCHANGED <<runtimeVars, readVars>>

(***************************************************************************)
(* A step of an admission; what it commits becomes a PENDING event.        *)
(***************************************************************************)
AdmissionStep(A) ==
  /\ A
  /\ IF table' = table THEN UNCHANGED lifecycleVars
                       ELSE \E r \in table' \ table : Admit(r.id)
  /\ UNCHANGED <<runtimeVars, readVars>>

(***************************************************************************)
(* A step of a worker or of the database.                                  *)
(***************************************************************************)
WorkerStep(A) ==
  /\ A
  /\ UNCHANGED <<apiVars, readVars>>

---------------------------------------------------------------------------
(* GET /v1/events/{event_id}                                               *)

(***************************************************************************)
(* The ids c has been told of.                                             *)
(***************************************************************************)
Known(c) == {a.id : a \in {b \in answers : b.client = c /\ b.code = 202}}

GetSent(c) ==
  /\ read[c] = "none" /\ Known(c) # {}
  /\ read' = [read EXCEPT ![c] = "sent"]
  /\ UNCHANGED <<vars, apiVars, seen>>

(***************************************************************************)
(* Fault: the lookup is served by a replica that may lag behind.           *)
(***************************************************************************)
GetExecutesOnReplica(c) ==
  /\ read[c] = "sent"
  /\ \E e \in Known(c) : \E s \in {"ABSENT", status[e]} : read' = [read EXCEPT ![c] = s]
  /\ UNCHANGED <<vars, apiVars, seen>>

(***************************************************************************)
(* Store::get: the database reads the row, in whatever state it is.        *)
(***************************************************************************)
GetExecutes(c) ==
  /\ read[c] = "sent"
  /\ \E e \in Known(c) : read' = [read EXCEPT ![c] = status[e]]
  /\ UNCHANGED <<vars, apiVars, seen>>

(***************************************************************************)
(* as_api_str of the status; no row is 404 EVENT_NOT_FOUND.                *)
(***************************************************************************)
ApiStatus(s) ==
  CASE s = "PENDING" -> "pending"
    [] s = "PROCESSING" -> "processing"
    [] s = "PROCESSED" -> "processed"
    [] OTHER -> "404"

GetReturns(c) ==
  /\ read[c] \in Status
  /\ seen' = [seen EXCEPT ![c] = ApiStatus(read[c])]
  /\ read' = [read EXCEPT ![c] = "none"]
  /\ UNCHANGED <<vars, apiVars>>

(***************************************************************************)
(* 503, 500, or no answer at all.                                          *)
(***************************************************************************)
GetFails(c) ==
  /\ read[c] # "none"
  /\ Fault
  /\ read' = [read EXCEPT ![c] = "none"]
  /\ UNCHANGED <<lifecycleVars, runtimeVars, apiVars, seen>>

GetStep(c) == GetSent(c) \/ GetExecutes(c) \/ GetReturns(c) \/ GetFails(c)

(***************************************************************************)
(* Rows come from admissions alone, so EventAdmitted is no step here.      *)
(***************************************************************************)
ServiceNext ==
  \/ AdmissionStep(AdmissionNext)
  \/ WorkerStep(Next /\ \A e \in Event : status[e] = "ABSENT" => status'[e] = "ABSENT")
  \/ \E c \in Client : GetStep(c)

ServiceSpec == ServiceInit /\ [][ServiceNext]_serviceVars

(***************************************************************************)
(* The components keep their own fairness, and clients that know an event  *)
(* keep asking for it.                                                     *)
(***************************************************************************)
FairServiceSpec ==
  /\ ServiceSpec
  /\ RuntimeFairness /\ ProcessorFairness /\ AdmissionFairness
  /\ \A c \in Client : WF_serviceVars(GetSent(c) \/ GetExecutes(c) \/ GetReturns(c))

---------------------------------------------------------------------------
Progress == [none |-> 0, pending |-> 1, processing |-> 2, processed |-> 3]

(***************************************************************************)
(* What a client is told about its event only moves forward, from pending  *)
(* to processing to processed, through reclaims, crashes and replays; and  *)
(* an id that came with a 202 is never answered 404.                       *)
(***************************************************************************)
SeenAdvances ==
  [][\A c \in Client : /\ seen'[c] # "404"
                       /\ Progress[seen'[c]] >= Progress[seen[c]]]_seen

(***************************************************************************)
(* Together the processes still keep the promise of the table, with rows   *)
(* that come from real admissions, replays and lost answers among them.    *)
(***************************************************************************)
ServiceImplementsLifecycle == LifecycleSpec

(***************************************************************************)
(* End to end: a client that sends its event and goes on asking is told    *)
(* `processed`, or that its key is taken, in spite of a lost answer, a     *)
(* broken connection, a failed attempt or a worker that dies with it.      *)
(***************************************************************************)
ToldInTheEnd ==
  \A c \in Client :
    step[c] # "idle" ~> \/ seen[c] = "processed"
                       \/ \E a \in answers : a.client = c /\ a.code = 409
============================================================================
