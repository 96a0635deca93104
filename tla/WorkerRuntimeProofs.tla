------------------------ MODULE WorkerRuntimeProofs ------------------------
(***************************************************************************)
(* What EventLifecycle keeps; that the worker runtime implements it, for   *)
(* any events, workers, concurrency and number of faults; that the reports *)
(* of the workers count an event at most once; and what the runtime holds  *)
(* in hand: attempts, slots and completions.  The lemmas on the steps of   *)
(* the runtime serve the other proofs about it too.                        *)
(***************************************************************************)
EXTENDS WorkerRuntime, FiniteSetTheorems, TLAPS

---------------------------------------------------------------------------
(* The lifecycle of events.  Nothing is assumed of the sets of events and  *)
(* workers but that NoOwner is not a worker.                               *)

(***************************************************************************)
(* Every operation of the store keeps the columns of the table in their    *)
(* types.                                                                  *)
(***************************************************************************)
LEMMA LifecycleTypeStep ==
  LifecycleTypeOK /\ [LifecycleNext]_lifecycleVars => LifecycleTypeOK'
<1> SUFFICES ASSUME LifecycleTypeOK, [LifecycleNext]_lifecycleVars
             PROVE  LifecycleTypeOK'
  OBVIOUS
<1> USE DEF LifecycleTypeOK, Status
<1>1. ASSUME NEW e \in Event, Admit(e)
      PROVE  LifecycleTypeOK'
  BY <1>1 DEF Admit
<1>2. ASSUME NEW w \in Worker, NEW got \in SUBSET Event, NEW lapsed \in BOOLEAN,
             Claim(w, got, lapsed)
      PROVE  LifecycleTypeOK'
  BY <1>2 DEF Claim
<1>3. ASSUME NEW w \in Worker, NEW e \in Event, Complete(w, e)
      PROVE  LifecycleTypeOK'
  BY <1>3 DEF Complete
<1>4. ASSUME NEW lapsing \in SUBSET Event, LeasesLapse(lapsing)
      PROVE  LifecycleTypeOK'
  BY <1>4 DEF LeasesLapse
<1>5. CASE UNCHANGED lifecycleVars
  BY <1>5 DEF lifecycleVars
<1>6. QED
  BY <1>1, <1>2, <1>3, <1>4, <1>5, Zenon DEF LifecycleNext

(***************************************************************************)
(* The columns of the events table have their types in every state the     *)
(* operations of the store can reach.                                      *)
(***************************************************************************)
THEOREM LifecycleTypeCorrect == LifecycleSpec => []LifecycleTypeOK
<1>1. LifecycleInit => LifecycleTypeOK
  BY DEF LifecycleInit, LifecycleTypeOK, Status
<1>2. QED
  BY <1>1, LifecycleTypeStep, PTL DEF LifecycleSpec

---------------------------------------------------------------------------
(***************************************************************************)
(* Every operation of the store keeps owner, lease and attempts of a row   *)
(* in agreement with its status.                                           *)
(***************************************************************************)
LEMMA ColumnsAgreeStep ==
  LifecycleTypeOK /\ ColumnsAgree /\ [LifecycleNext]_lifecycleVars => ColumnsAgree'
<1> SUFFICES ASSUME LifecycleTypeOK, ColumnsAgree, [LifecycleNext]_lifecycleVars
             PROVE  ColumnsAgree'
  OBVIOUS
<1> USE DEF LifecycleTypeOK, Status, ColumnsAgree
<1>1. ASSUME NEW e \in Event, Admit(e)
      PROVE  ColumnsAgree'
  BY <1>1 DEF Admit
<1>2. ASSUME NEW w \in Worker, NEW got \in SUBSET Event, NEW lapsed \in BOOLEAN,
             Claim(w, got, lapsed)
      PROVE  ColumnsAgree'
  BY <1>2, LifecycleAssumption DEF Claim, Claimable
<1>3. ASSUME NEW w \in Worker, NEW e \in Event, Complete(w, e)
      PROVE  ColumnsAgree'
  BY <1>3 DEF Complete, Owns
<1>4. ASSUME NEW lapsing \in SUBSET Event, LeasesLapse(lapsing)
      PROVE  ColumnsAgree'
  BY <1>4 DEF LeasesLapse
<1>5. CASE UNCHANGED lifecycleVars
  BY <1>5 DEF lifecycleVars
<1>6. QED
  BY <1>1, <1>2, <1>3, <1>4, <1>5 DEF LifecycleNext

(***************************************************************************)
(* The CHECK constraint on owner, lease and attempts holds in every        *)
(* reachable state: no operation of the store can be rejected by it.       *)
(***************************************************************************)
THEOREM LifecycleColumnsAgree == LifecycleSpec => []ColumnsAgree
<1>1. LifecycleInit => ColumnsAgree
  <2> SUFFICES ASSUME LifecycleInit, NEW e \in Event
               PROVE  /\ status[e] = "PROCESSING" <=> processing_owner[e] # NoOwner
                      /\ lease_lapsed[e] => status[e] = "PROCESSING"
                      /\ status[e] \in {"PROCESSING", "PROCESSED"} <=>
                           delivery_attempts[e] > 0
    BY Zenon DEF ColumnsAgree
  <2>1. status[e] = "ABSENT" /\ processing_owner[e] = NoOwner
    BY DEF LifecycleInit
  <2>2. lease_lapsed[e] = FALSE
    BY DEF LifecycleInit
  <2>3. delivery_attempts[e] = 0
    BY DEF LifecycleInit
  <2>4. ~(delivery_attempts[e] > 0)
    BY <2>3
  <2>5. QED
    BY <2>1, <2>2, <2>4
<1>2. QED
  BY <1>1, ColumnsAgreeStep, LifecycleTypeCorrect, PTL DEF LifecycleSpec

---------------------------------------------------------------------------
(***************************************************************************)
(* A claim whose lease runs is taken over by nobody: it stays with its     *)
(* owner until it is completed.                                            *)
(***************************************************************************)
THEOREM LifecycleLeaseProtects == LifecycleSpec => LeaseProtectsClaim
<1> DEFINE Protects ==
      \A e \in Event :
        status[e] = "PROCESSING" /\ ~lease_lapsed[e] =>
          /\ delivery_attempts'[e] = delivery_attempts[e]
          /\ \/ status'[e] = "PROCESSED"
             \/ status'[e] = "PROCESSING" /\ processing_owner'[e] = processing_owner[e]
<1>1. ASSUME LifecycleTypeOK, [LifecycleNext]_lifecycleVars
      PROVE  [Protects]_lifecycleVars
  <2> USE <1>1 DEF LifecycleTypeOK
  <2>1. ASSUME NEW e \in Event, Admit(e)
        PROVE  Protects
    BY <2>1 DEF Admit
  <2>2. ASSUME NEW w \in Worker, NEW got \in SUBSET Event, NEW lapsed \in BOOLEAN,
               Claim(w, got, lapsed)
        PROVE  Protects
    BY <2>2 DEF Claim, Claimable
  <2>3. ASSUME NEW w \in Worker, NEW e \in Event, Complete(w, e)
        PROVE  Protects
    BY <2>3 DEF Complete, Owns
  <2>4. ASSUME NEW lapsing \in SUBSET Event, LeasesLapse(lapsing)
        PROVE  Protects
    BY <2>4 DEF LeasesLapse
  <2>5. QED
    BY <1>1, <2>1, <2>2, <2>3, <2>4 DEF LifecycleNext
<1>2. QED
  BY <1>1, LifecycleTypeCorrect, PTL DEF LifecycleSpec, LeaseProtectsClaim

(***************************************************************************)
(* A processed event is never claimed, completed or counted again.         *)
(***************************************************************************)
THEOREM LifecycleProcessedFinal == LifecycleSpec => ProcessedIsFinal
<1> DEFINE Final ==
      \A e \in Event :
        status[e] = "PROCESSED" =>
          /\ status'[e] = "PROCESSED"
          /\ delivery_attempts'[e] = delivery_attempts[e]
<1>1. ASSUME LifecycleTypeOK, [LifecycleNext]_lifecycleVars
      PROVE  [Final]_lifecycleVars
  <2> USE <1>1 DEF LifecycleTypeOK
  <2>1. ASSUME NEW e \in Event, Admit(e)
        PROVE  Final
    BY <2>1 DEF Admit
  <2>2. ASSUME NEW w \in Worker, NEW got \in SUBSET Event, NEW lapsed \in BOOLEAN,
               Claim(w, got, lapsed)
        PROVE  Final
    BY <2>2 DEF Claim, Claimable
  <2>3. ASSUME NEW w \in Worker, NEW e \in Event, Complete(w, e)
        PROVE  Final
    BY <2>3 DEF Complete, Owns
  <2>4. ASSUME NEW lapsing \in SUBSET Event, LeasesLapse(lapsing)
        PROVE  Final
    BY <2>4 DEF LeasesLapse
  <2>5. QED
    BY <1>1, <2>1, <2>2, <2>3, <2>4 DEF LifecycleNext
<1>2. QED
  BY <1>1, LifecycleTypeCorrect, PTL DEF LifecycleSpec, ProcessedIsFinal

(***************************************************************************)
(* The status of an event only moves on: no operation of the store takes   *)
(* it back.                                                                *)
(***************************************************************************)
LEMMA StatusMovesOn ==
  ASSUME LifecycleTypeOK, [LifecycleNext]_lifecycleVars, NEW e \in Event
  PROVE  /\ status[e] = "PENDING" => status'[e] \in {"PENDING", "PROCESSING"}
         /\ status[e] = "PROCESSING" => status'[e] \in {"PROCESSING", "PROCESSED"}
         /\ status[e] = "PROCESSED" => status'[e] = "PROCESSED"
<1> USE DEF LifecycleTypeOK
<1> DEFINE MovesOn == /\ status[e] = "PENDING" => status'[e] \in {"PENDING", "PROCESSING"}
                      /\ status[e] = "PROCESSING" => status'[e] \in {"PROCESSING", "PROCESSED"}
                      /\ status[e] = "PROCESSED" => status'[e] = "PROCESSED"
<1>1. ASSUME NEW f \in Event, Admit(f)
      PROVE  MovesOn
  BY <1>1 DEF Admit
<1>2. ASSUME NEW w \in Worker, NEW got \in SUBSET Event, NEW lapsed \in BOOLEAN,
             Claim(w, got, lapsed)
      PROVE  MovesOn
  BY <1>2 DEF Claim, Claimable
<1>3. ASSUME NEW w \in Worker, NEW f \in Event, Complete(w, f)
      PROVE  MovesOn
  BY <1>3 DEF Complete, Owns
<1>4. CASE UNCHANGED status
  BY <1>4
<1>5. QED
  BY <1>1, <1>2, <1>3, <1>4 DEF LifecycleNext, LeasesLapse, lifecycleVars

---------------------------------------------------------------------------
(* The worker runtime.                                                     *)

Claimed == Event \X (Nat \ {0})   \* an event and the attempt it was claimed as

(***************************************************************************)
(* The part of the type invariant the proofs need.                         *)
(***************************************************************************)
RuntimeTypes ==
  /\ LifecycleTypeOK
  /\ tasks \in [Worker -> SUBSET Task]
  /\ batch \in [Worker -> SUBSET Claimed]
  /\ \A c \in lateClaims : c[1] \in Worker
  /\ lateCompletes \subseteq Worker \X Event

(***************************************************************************)
(* What w has in hand: tasks, and claims whose answer is on its way.       *)
(***************************************************************************)
ClaimOf(t) == <<t.event, t.attempt>>
Holds(w) == batch[w] \cup {ClaimOf(t) : t \in tasks[w]}

---------------------------------------------------------------------------
(* What a step of the runtime can do to tasks, claims and the table.       *)

Shrinks ==
  /\ tasks' \in [Worker -> SUBSET Task]
  /\ batch' \in [Worker -> SUBSET Claimed]
  /\ \A w \in Worker : tasks'[w] \subseteq tasks[w] /\ batch'[w] \subseteq batch[w]
  /\ UNCHANGED lifecycleVars

TaskMoves(w, t) ==
  /\ \E stage \in Stage : /\ Becomes(w, t, stage)
                          /\ stage = "completing" => t.event \in handled'
  /\ \/ t.stage = "completing" /\ Complete(w, t.event)
     \/ UNCHANGED lifecycleVars
  /\ UNCHANGED batch

OnlySentCompletions ==
  \A e \in Event : status'[e] = "PROCESSED" =>
    status[e] = "PROCESSED" \/ \E c \in lateCompletes : c[2] = e

TableMoves ==
  /\ UNCHANGED <<tasks, batch>>
  /\ [LifecycleNext]_lifecycleVars
  /\ OnlySentCompletions

(***************************************************************************)
(* A loop step of `run` only ends tasks or claims, or is one of the two    *)
(* halves of a successful claim.                                           *)
(***************************************************************************)
LEMMA LoopKinds ==
  ASSUME RuntimeTypes, NEW w \in Worker, LoopStep(w)
  PROVE  \/ Shrinks
         \/ \E got \in SUBSET Event : ClaimExecutes(w, got)
         \/ ClaimReturns(w)
<1> USE DEF RuntimeTypes
<1>1. CASE Start(w)
  BY <1>1 DEF Start, Shrinks
<1>2. CASE LoopTop(w)
  BY <1>2 DEF LoopTop, Join, Shrinks
<1>3. CASE ClaimFails(w)
  BY <1>3 DEF ClaimFails, Shrinks
<1>4. CASE SelectShutdown(w)
  BY <1>4 DEF SelectShutdown, Shrinks
<1>5. ASSUME NEW t \in tasks[w], SelectJoin(w, t)
      PROVE  Shrinks
  BY <1>5 DEF SelectJoin, Join, Shrinks
<1>6. CASE SelectPoll(w)
  BY <1>6 DEF SelectPoll, Shrinks
<1>7. QED
  BY <1>1, <1>2, <1>3, <1>4, <1>5, <1>6 DEF LoopStep

(***************************************************************************)
(* A step of process_claim moves its task on, and completes its event or   *)
(* leaves the table alone.                                                 *)
(***************************************************************************)
LEMMA TaskKinds ==
  ASSUME RuntimeTypes, NEW w \in Worker, NEW t \in tasks[w], TaskStep(w, t)
  PROVE  TaskMoves(w, t)
<1> USE DEF TaskMoves, Stage, Finished
<1>1. CASE ProcessOk(w, t)
  BY <1>1 DEF ProcessOk
<1>2. CASE ProcessErr(w, t)
  BY <1>2 DEF ProcessErr
<1>3. CASE ProcessPanic(w, t)
  BY <1>3 DEF ProcessPanic
<1>4. CASE CompleteExecutes(w, t)
  BY <1>4 DEF CompleteExecutes, ExecuteComplete
<1>5. CASE CompleteReturns(w, t)
  BY <1>5 DEF CompleteReturns
<1>6. CASE CompleteFails(w, t)
  BY <1>6 DEF CompleteFails
<1>7. QED
  BY <1>1, <1>2, <1>3, <1>4, <1>5, <1>6 DEF TaskStep

(***************************************************************************)
(* Shutdown and crash only take tasks and claims away.                     *)
(***************************************************************************)
LEMMA ShutdownKinds ==
  ASSUME RuntimeTypes, NEW w \in Worker, ShutdownStep(w)
  PROVE  Shrinks
<1> USE DEF RuntimeTypes, Shrinks
<1>1. CASE Signal(w)
  BY <1>1 DEF Signal
<1>2. ASSUME NEW t \in tasks[w], DrainJoin(w, t)
      PROVE  Shrinks
  BY <1>2 DEF DrainJoin, Join
<1>3. CASE DrainDone(w)
  BY <1>3 DEF DrainDone
<1>4. CASE DrainTimeout(w)
  BY <1>4 DEF DrainTimeout
<1>5. ASSUME NEW t \in tasks[w], AbortTask(w, t)
      PROVE  Shrinks
  BY <1>5 DEF AbortTask
<1>6. CASE AbortDone(w)
  BY <1>6 DEF AbortDone
<1>7. CASE Crash(w)
  BY <1>7 DEF Crash
<1>8. QED
  BY <1>1, <1>2, <1>3, <1>4, <1>5, <1>6, <1>7 DEF ShutdownStep

(***************************************************************************)
(* The database and the clients move the table as the lifecycle allows,    *)
(* also when they execute a statement whose sender is gone.                *)
(***************************************************************************)
LEMMA DatabaseKinds ==
  ASSUME RuntimeTypes, DatabaseStep
  PROVE  TableMoves
<1> USE DEF RuntimeTypes, TableMoves
<1>1. ASSUME NEW c \in lateClaims, NEW got \in SUBSET Event, LateClaimExecutes(c, got)
      PROVE  TableMoves
  <2>1. c[1] \in Worker /\ Claim(c[1], got, FALSE)
    BY <1>1, Zenon DEF LateClaimExecutes, ExecuteClaim
  <2>2. OnlySentCompletions
    BY <2>1 DEF Claim, OnlySentCompletions
  <2>3. QED
    BY <1>1, <2>1, <2>2, Zenon DEF LateClaimExecutes, LifecycleNext
<1>2. ASSUME NEW c \in lateCompletes, LateCompleteExecutes(c)
      PROVE  TableMoves
  <2>1. c[1] \in Worker /\ c[2] \in Event
    OBVIOUS
  <2>2. Complete(c[1], c[2]) \/ UNCHANGED lifecycleVars
    BY <1>2 DEF LateCompleteExecutes, ExecuteComplete
  <2>3. OnlySentCompletions
    BY <2>2 DEF Complete, LifecycleTypeOK, lifecycleVars, OnlySentCompletions
  <2>4. QED
    BY <1>2, <2>1, <2>2, <2>3 DEF LateCompleteExecutes, LifecycleNext
<1>3. CASE LateDropped
  BY <1>3 DEF LateDropped, lifecycleVars, OnlySentCompletions
<1>4. ASSUME NEW e \in Event, LeaseLapses(e)
      PROVE  TableMoves
  <2>1. LeasesLapse({e}) /\ UNCHANGED <<tasks, batch>>
    BY <1>4 DEF LeaseLapses
  <2>2. OnlySentCompletions
    BY <2>1 DEF LeasesLapse, OnlySentCompletions
  <2>3. QED
    BY <2>1, <2>2 DEF LifecycleNext
<1>5. ASSUME NEW e \in Event, EventAdmitted(e)
      PROVE  TableMoves
  <2>1. Admit(e) /\ UNCHANGED <<tasks, batch>>
    BY <1>5 DEF EventAdmitted
  <2>2. OnlySentCompletions
    BY <2>1 DEF Admit, LifecycleTypeOK, OnlySentCompletions
  <2>3. QED
    BY <2>1, <2>2 DEF LifecycleNext
<1>6. QED
  BY <1>1, <1>2, <1>3, <1>4, <1>5 DEF DatabaseStep

(***************************************************************************)
(* Together: the five kinds of steps.                                      *)
(***************************************************************************)
LEMMA StepKinds ==
  ASSUME RuntimeTypes, [Next]_vars
  PROVE  \/ Shrinks
         \/ \E w \in Worker, got \in SUBSET Event : ClaimExecutes(w, got)
         \/ \E w \in Worker : ClaimReturns(w)
         \/ \E w \in Worker : \E t \in tasks[w] : TaskMoves(w, t)
         \/ TableMoves
<1>1. CASE UNCHANGED vars
  BY <1>1 DEF vars, lifecycleVars, TableMoves, OnlySentCompletions
<1>2. QED
  BY <1>1, LoopKinds, TaskKinds, ShutdownKinds, DatabaseKinds DEF Next

---------------------------------------------------------------------------
(***************************************************************************)
(* Every step of the runtime moves the table by one operation of the       *)
(* lifecycle, or not at all.                                               *)
(***************************************************************************)
LEMMA LifecycleStep ==
  RuntimeTypes /\ [Next]_vars => [LifecycleNext]_lifecycleVars
<1> SUFFICES ASSUME RuntimeTypes, [Next]_vars
             PROVE  [LifecycleNext]_lifecycleVars
  OBVIOUS
<1>1. ASSUME NEW w \in Worker, NEW got \in SUBSET Event, ClaimExecutes(w, got)
      PROVE  LifecycleNext
  BY <1>1, Zenon DEF ClaimExecutes, ExecuteClaim, LifecycleNext
<1>2. ASSUME NEW w \in Worker, NEW t \in tasks[w], TaskMoves(w, t)
      PROVE  [LifecycleNext]_lifecycleVars
  <2>1. t.event \in Event
    BY DEF RuntimeTypes, Task
  <2>2. QED
    BY <1>2, <2>1 DEF TaskMoves, LifecycleNext
<1>3. QED
  BY <1>1, <1>2, StepKinds DEF Shrinks, ClaimReturns, TableMoves

(***************************************************************************)
(* A task that moves on keeps its event, its attempt and its type.         *)
(***************************************************************************)
LEMMA TaskKept ==
  ASSUME NEW t \in Task, NEW stage \in Stage
  PROVE  /\ [t EXCEPT !.stage = stage] \in Task
         /\ ClaimOf([t EXCEPT !.stage = stage]) = ClaimOf(t)
         /\ [t EXCEPT !.stage = stage].event = t.event
         /\ [t EXCEPT !.stage = stage].stage = stage
BY DEF Task, ClaimOf

(***************************************************************************)
(* The claim that a worker executes counts one attempt more for each event *)
(* it gets, and takes it over.                                             *)
(***************************************************************************)
LEMMA ClaimEffect ==
  ASSUME RuntimeTypes, NEW w \in Worker, NEW got \in SUBSET Event, ClaimExecutes(w, got)
  PROVE  /\ batch' = [batch EXCEPT ![w] = {<<e, delivery_attempts[e] + 1>> : e \in got}]
         /\ \A e \in Event :
              delivery_attempts'[e] = delivery_attempts[e] + IF e \in got THEN 1 ELSE 0
         /\ \A e \in Event \ got : /\ status'[e] = status[e]
                                   /\ processing_owner'[e] = processing_owner[e]
         /\ \A e \in got : processing_owner'[e] = w
         /\ UNCHANGED tasks
<1>1. \A e \in got : delivery_attempts'[e] = delivery_attempts[e] + 1
  BY DEF ClaimExecutes, ExecuteClaim, Claim, RuntimeTypes, LifecycleTypeOK
<1>2. QED
  BY <1>1, Zenon DEF ClaimExecutes, ExecuteClaim, Claim, RuntimeTypes, LifecycleTypeOK

(***************************************************************************)
(* The completions that shutdown or a crash leaves behind are those that   *)
(* tasks of the worker were waiting for.                                   *)
(***************************************************************************)
LEMMA CutOffInFlight ==
  ASSUME RuntimeTypes, NEW w \in Worker, ShutdownStep(w)
  PROVE  \A c \in lateCompletes' : \/ c \in lateCompletes
                                   \/ \E t \in tasks[w] : /\ t.stage = "completing"
                                                          /\ t.event \in Event
                                                          /\ c = <<w, t.event>>
<1>1. \A t \in tasks[w] : t.event \in Event
  BY DEF RuntimeTypes, Task
<1>2. \A ended \in SUBSET tasks[w] : \A c \in InFlight(w, ended) :
        \E t \in tasks[w] : t.stage = "completing" /\ c = <<w, t.event>>
  BY DEF InFlight
<1>3. CASE UNCHANGED lateCompletes
  BY <1>3
<1>4. ASSUME NEW t \in tasks[w], AbortTask(w, t)
      PROVE  lateCompletes' = lateCompletes \cup InFlight(w, {t}) /\ {t} \in SUBSET tasks[w]
  BY <1>4 DEF AbortTask
<1>5. ASSUME Crash(w)
      PROVE  lateCompletes' = lateCompletes \cup InFlight(w, tasks[w])
  BY <1>5 DEF Crash
<1>6. \/ UNCHANGED lateCompletes
      \/ \E t \in tasks[w] : AbortTask(w, t)
      \/ Crash(w)
  BY Zenon DEF ShutdownStep, Signal, DrainJoin, DrainDone, DrainTimeout, AbortDone, late
<1>7. \/ UNCHANGED lateCompletes
      \/ \E ended \in SUBSET tasks[w] : lateCompletes' = lateCompletes \cup InFlight(w, ended)
  BY <1>4, <1>5, <1>6, Zenon
<1>8. QED
  BY <1>1, <1>2, <1>7

(***************************************************************************)
(* A completion in flight without its sender was sent by a task.           *)
(***************************************************************************)
LEMMA LateCompletesSent ==
  ASSUME RuntimeTypes, [Next]_vars
  PROVE  \A c \in lateCompletes' :
           \/ c \in lateCompletes
           \/ \E w \in Worker : \E t \in tasks[w] : /\ t.stage = "completing"
                                                  /\ t.event \in Event
                                                  /\ c = <<w, t.event>>
<1>1. ASSUME NEW w \in Worker, LoopStep(w)
      PROVE  UNCHANGED lateCompletes
  BY <1>1, ZenonT(30) DEF LoopStep, Start, LoopTop, ClaimExecutes, ClaimReturns, ClaimFails,
              SelectShutdown, SelectJoin, SelectPoll, late
<1>2. ASSUME NEW w \in Worker, NEW t \in tasks[w], TaskStep(w, t)
      PROVE  /\ t.event \in Event
             /\ \/ UNCHANGED lateCompletes
                \/ /\ t.stage = "completing"
                   /\ lateCompletes' = lateCompletes \cup {<<w, t.event>>}
  <2>1. t.event \in Event
    BY DEF RuntimeTypes, Task
  <2>2. QED
    BY <1>2, <2>1, ZenonT(30) DEF TaskStep, ProcessOk, ProcessErr, ProcessPanic, CompleteExecutes,
                      CompleteReturns, CompleteFails, late
<1>3. ASSUME DatabaseStep
      PROVE  lateCompletes' \subseteq lateCompletes
  BY <1>3, Zenon DEF DatabaseStep, LateClaimExecutes, LateCompleteExecutes, LateDropped,
              LeaseLapses, EventAdmitted, late
<1>4. CASE UNCHANGED vars
  BY <1>4 DEF vars, late
<1>5. QED
  BY <1>1, <1>2, <1>3, <1>4, CutOffInFlight DEF Next

(***************************************************************************)
(* Faults are counted one by one, within their bound.                      *)
(***************************************************************************)
LEMMA FaultsCounted == [Next]_vars => Fault \/ UNCHANGED faults
<1>1. ASSUME NEW w \in Worker, LoopStep(w)
      PROVE  Fault \/ UNCHANGED faults
  BY <1>1, Zenon DEF LoopStep, Start, LoopTop, ClaimExecutes, ClaimReturns, ClaimFails,
                     SelectShutdown, SelectJoin, SelectPoll
<1>2. ASSUME NEW w \in Worker, ShutdownStep(w)
      PROVE  Fault \/ UNCHANGED faults
  BY <1>2, Zenon DEF ShutdownStep, Signal, DrainJoin, DrainDone, DrainTimeout, AbortTask,
                     AbortDone, Crash
<1>3. ASSUME NEW w \in Worker, NEW t \in tasks[w], TaskStep(w, t)
      PROVE  Fault \/ UNCHANGED faults
  BY <1>3, Zenon DEF TaskStep, ProcessOk, ProcessErr, ProcessPanic, CompleteExecutes,
                     CompleteReturns, CompleteFails
<1>4. CASE DatabaseStep \/ UNCHANGED vars
  BY <1>4, Zenon DEF DatabaseStep, LateClaimExecutes, LateCompleteExecutes, LateDropped,
                     LeaseLapses, EventAdmitted, vars
<1>5. QED
  BY <1>1, <1>2, <1>3, <1>4, Zenon DEF Next

(***************************************************************************)
(* The runtime's steps keep the types of tasks and claims.                 *)
(***************************************************************************)
LEMMA RuntimeTypesStep == RuntimeTypes /\ [Next]_vars => RuntimeTypes'
<1> SUFFICES ASSUME RuntimeTypes, [Next]_vars
             PROVE  RuntimeTypes'
  OBVIOUS
<1>1. LifecycleTypeOK'
  BY LifecycleStep, LifecycleTypeStep DEF RuntimeTypes
<1>2. tasks' \in [Worker -> SUBSET Task] /\ batch' \in [Worker -> SUBSET Claimed]
  <2>1. ASSUME NEW w \in Worker, NEW got \in SUBSET Event, ClaimExecutes(w, got)
        PROVE  <1>2
    <3>1. \A e \in got : <<e, delivery_attempts[e] + 1>> \in Claimed
      BY DEF RuntimeTypes, LifecycleTypeOK, Claimed
    <3>2. QED
      BY <2>1, <3>1, ClaimEffect DEF RuntimeTypes
  <2>2. ASSUME NEW w \in Worker, ClaimReturns(w)
        PROVE  <1>2
    <3>1. \A c \in batch[w] :
            [event |-> c[1], attempt |-> c[2], stage |-> "processing"] \in Task
      BY DEF RuntimeTypes, Claimed, Task, Stage
    <3>2. QED
      BY <2>2, <3>1 DEF ClaimReturns, RuntimeTypes
  <2>3. ASSUME NEW w \in Worker, NEW t \in tasks[w], TaskMoves(w, t)
        PROVE  <1>2
    BY <2>3, TaskKept DEF TaskMoves, Becomes, RuntimeTypes
  <2>4. QED
    BY <2>1, <2>2, <2>3, StepKinds DEF Shrinks, TableMoves, RuntimeTypes
<1>3. \A c \in lateClaims' : c[1] \in Worker
  <2> USE DEF RuntimeTypes
  <2>1. ASSUME NEW w \in Worker, LoopStep(w)
        PROVE  <1>3
    <3>1. lateClaims' \subseteq lateClaims \cup {<<w, Free(w, tasks[w]), faults>>}
      BY <2>1, Zenon DEF LoopStep, Start, LoopTop, ClaimExecutes, ClaimReturns, ClaimFails,
                  SelectShutdown, SelectJoin, SelectPoll, late
    <3>2. QED
      BY <3>1
  <2>2. ASSUME NEW w \in Worker, ShutdownStep(w)
        PROVE  <1>3
    <3>1. lateClaims' \subseteq lateClaims \cup {<<w, Free(w, tasks[w]), faults>>}
      BY <2>2, Zenon DEF ShutdownStep, Signal, DrainJoin, DrainDone, DrainTimeout, AbortTask,
                  AbortDone, Crash, late
    <3>2. QED
      BY <3>1
  <2>3. ASSUME NEW w \in Worker, NEW t \in tasks[w], TaskStep(w, t)
        PROVE  <1>3
    BY <2>3 DEF TaskStep, ProcessOk, ProcessErr, ProcessPanic, CompleteExecutes,
                CompleteReturns, CompleteFails, late
  <2>4. CASE DatabaseStep
    BY <2>4, Zenon DEF DatabaseStep, LateClaimExecutes, LateCompleteExecutes, LateDropped,
                LeaseLapses, EventAdmitted, late
  <2>5. CASE UNCHANGED vars
    BY <2>5 DEF vars, late
  <2>6. QED
    BY <2>1, <2>2, <2>3, <2>4, <2>5 DEF Next
<1>4. lateCompletes' \subseteq Worker \X Event
  BY LateCompletesSent DEF RuntimeTypes
<1>5. QED
  BY <1>1, <1>2, <1>3, <1>4 DEF RuntimeTypes

---------------------------------------------------------------------------
(***************************************************************************)
(* The types hold in every state of any number of workers.                 *)
(***************************************************************************)
THEOREM RuntimeTypesInvariant == Spec => []RuntimeTypes
<1>1. Init => RuntimeTypes
  BY DEF Init, LifecycleInit, RuntimeTypes, LifecycleTypeOK, Status
<1>2. QED
  BY <1>1, RuntimeTypesStep, PTL DEF Spec

(***************************************************************************)
(* The workers together, with every statement that outlives its sender,    *)
(* implement the lifecycle of events.                                      *)
(***************************************************************************)
THEOREM RuntimeImplementsLifecycle == Spec => LifecycleSpec
<1>1. Init => LifecycleInit
  BY DEF Init
<1>2. QED
  BY <1>1, LifecycleStep, RuntimeTypesInvariant, PTL DEF Spec, LifecycleSpec

(***************************************************************************)
(* So what is proved of the lifecycle holds of the running workers: the    *)
(* columns agree, a running lease protects its claim, and a PROCESSED row  *)
(* is final.                                                               *)
(***************************************************************************)
THEOREM RuntimeLeaseProtects ==
  Spec => []ColumnsAgree /\ LeaseProtectsClaim /\ ProcessedIsFinal
BY RuntimeImplementsLifecycle, LifecycleColumnsAgree, LifecycleLeaseProtects,
   LifecycleProcessedFinal

---------------------------------------------------------------------------
(* How often an event is counted.                                          *)

(***************************************************************************)
(* The tasks whose completion found its row and was not counted yet.       *)
(***************************************************************************)
Done(w) == {t \in tasks[w] : t.stage = "done"}

(***************************************************************************)
(* Each count stands for an event of its own, and so does each task that   *)
(* has completed its event and is not yet counted.                         *)
(***************************************************************************)
CreditedTo(counter) ==
  /\ \A e \in Event : counter[e] # NoOwner => status[e] = "PROCESSED"
  /\ \A w \in Worker : processed[w] = Cardinality({e \in Event : counter[e] = w})
  /\ \A w \in Worker : \A t \in Done(w) :
       status[t.event] = "PROCESSED" /\ counter[t.event] = NoOwner
  /\ \A v, w \in Worker : \A t \in Done(v), u \in Done(w) :
       t.event = u.event => v = w /\ t = u

CreditInv ==
  /\ processed \in [Worker -> Nat]
  /\ \E counter \in [Event -> Worker \cup {NoOwner}] : CreditedTo(counter)

(***************************************************************************)
(* Only two steps of process_claim have to do with the count: the          *)
(* completion that finds its row, and its return.                          *)
(***************************************************************************)
LEMMA CountKinds ==
  ASSUME RuntimeTypes, [Next]_vars
  PROVE  \/ \E w \in Worker : \E t \in tasks[w] : CompleteExecutes(w, t) \/ CompleteReturns(w, t)
         \/ UNCHANGED processed /\ \A w \in Worker : Done(w)' \subseteq Done(w)
<1> DEFINE Quiet == UNCHANGED processed /\ \A w \in Worker : Done(w)' \subseteq Done(w)
<1> USE DEF RuntimeTypes, Done, counters
<1>1. ASSUME NEW w \in Worker, LoopStep(w)
      PROVE  Quiet
  <2>1. UNCHANGED processed
    BY <1>1, Zenon DEF LoopStep, Start, LoopTop, ClaimExecutes, ClaimReturns, ClaimFails,
           SelectShutdown, SelectJoin, SelectPoll
  <2>2. CASE ClaimReturns(w)
    BY <2>1, <2>2 DEF ClaimReturns
  <2>3. CASE ~ClaimReturns(w)
    BY <1>1, <2>1, <2>3, LoopKinds DEF Shrinks, ClaimExecutes
  <2>4. QED
    BY <2>2, <2>3
<1>2. ASSUME NEW w \in Worker, ShutdownStep(w)
      PROVE  Quiet
  <2>1. UNCHANGED processed
    BY <1>2, Zenon DEF ShutdownStep, Signal, DrainJoin, DrainDone, DrainTimeout, AbortTask,
                  AbortDone, Crash
  <2>2. QED
    BY <1>2, <2>1, ShutdownKinds DEF Shrinks
<1>3. ASSUME NEW w \in Worker, NEW t \in tasks[w],
             ProcessOk(w, t) \/ ProcessErr(w, t) \/ ProcessPanic(w, t) \/ CompleteFails(w, t)
      PROVE  Quiet
  <2>1. PICK stage \in Stage \ {"done"} : Becomes(w, t, stage)
    BY <1>3 DEF ProcessOk, ProcessErr, ProcessPanic, CompleteFails, Stage, Finished
  <2>2. [t EXCEPT !.stage = stage].stage = stage
    BY TaskKept
  <2> DEFINE next == [t EXCEPT !.stage = stage]
  <2>3. tasks' = [tasks EXCEPT ![w] = (@ \ {t}) \cup {next}] /\ next.stage # "done"
    BY <2>1, <2>2 DEF Becomes
  <2> HIDE DEF next
  <2>4. UNCHANGED processed
    BY <1>3 DEF ProcessOk, ProcessErr, ProcessPanic, CompleteFails
  <2>5. QED
    BY <2>3, <2>4
<1>4. CASE DatabaseStep \/ UNCHANGED vars
  <2>1. UNCHANGED <<processed, tasks>>
    BY <1>4, Zenon DEF DatabaseStep, LateClaimExecutes, LateCompleteExecutes, LateDropped,
              LeaseLapses, EventAdmitted, vars
  <2>2. QED
    BY <2>1
<1>5. QED
  BY <1>1, <1>2, <1>3, <1>4, Zenon DEF Next, TaskStep

(***************************************************************************)
(* Every step keeps the credits apart.  An event is PROCESSING when a      *)
(* completion finds it, so that it has no credit and no done task yet.     *)
(***************************************************************************)
LEMMA CreditStep == RuntimeTypes /\ CreditInv /\ [Next]_vars => CreditInv'
<1> SUFFICES ASSUME RuntimeTypes, CreditInv, [Next]_vars
             PROVE  CreditInv'
  OBVIOUS
<1> PICK counter \in [Event -> Worker \cup {NoOwner}] : CreditedTo(counter)
  BY DEF CreditInv
<1>0. \A e \in Event : status[e] = "PROCESSED" => status'[e] = "PROCESSED"
  BY LifecycleStep, StatusMovesOn DEF RuntimeTypes
<1>t. \A w \in Worker : \A t \in tasks[w] : t \in Task /\ t.event \in Event
  BY DEF RuntimeTypes, Task
<1>1. CASE UNCHANGED processed /\ \A w \in Worker : Done(w)' \subseteq Done(w)
  <2>1. CreditedTo(counter)'
    BY <1>0, <1>1, <1>t DEF CreditedTo, Done
  <2>2. QED
    BY <1>1, <2>1 DEF CreditInv
<1>2. ASSUME NEW w \in Worker, NEW t \in tasks[w], CompleteExecutes(w, t)
      PROVE  CreditInv'
  <2> DEFINE stage == IF Owns(w, t.event) THEN "done" ELSE "lost"
             next == [t EXCEPT !.stage = stage]
  <2>1. next.event = t.event /\ next.stage = stage
    BY <1>t, TaskKept DEF Stage
  <2>2. /\ tasks' = [tasks EXCEPT ![w] = (@ \ {t}) \cup {next}]
        /\ t.stage # "done" /\ UNCHANGED processed
    BY <1>2 DEF CompleteExecutes, Becomes, counters
  <2>3. Owns(w, t.event) => status[t.event] = "PROCESSING" /\ status'[t.event] = "PROCESSED"
    BY <1>2, <1>t DEF CompleteExecutes, ExecuteComplete, Complete, Owns, RuntimeTypes, LifecycleTypeOK
  <2> HIDE DEF next
  <2>4. /\ Done(w)' \subseteq Done(w) \cup {next}
        /\ ~Owns(w, t.event) => Done(w)' \subseteq Done(w)
        /\ \A v \in Worker \ {w} : Done(v)' = Done(v)
    BY <2>1, <2>2 DEF Done, RuntimeTypes
  <2> HIDE DEF stage
  <2>5. \A v \in Worker : \A u \in Done(v) :
          u.event \in Event /\ (Owns(w, t.event) => u.event # t.event)
    BY <1>t, <2>3 DEF CreditedTo, Done
  <2>6. Owns(w, t.event) => counter[t.event] = NoOwner
    BY <1>t, <2>3 DEF CreditedTo
  <2>7. CreditedTo(counter)'
    <3>1. \A e \in Event : counter[e] # NoOwner => status'[e] = "PROCESSED"
      BY <1>0 DEF CreditedTo
    <3>2. \A v \in Worker : processed'[v] = Cardinality({e \in Event : counter[e] = v})
      BY <2>2 DEF CreditedTo
    <3>3. \A v \in Worker : \A u \in Done(v)' :
            status'[u.event] = "PROCESSED" /\ counter[u.event] = NoOwner
      BY <1>0, <2>1, <2>3, <2>4, <2>5, <2>6 DEF CreditedTo
    <3>4. \A x, y \in Worker : \A u \in Done(x)', v \in Done(y)' :
            u.event = v.event => x = y /\ u = v
      BY <2>1, <2>4, <2>5 DEF CreditedTo
    <3>5. QED
      BY <3>1, <3>2, <3>3, <3>4 DEF CreditedTo
  <2>8. QED
    BY <2>2, <2>7 DEF CreditInv
<1>3. ASSUME NEW w \in Worker, NEW t \in tasks[w], CompleteReturns(w, t)
      PROVE  CreditInv'
  <2> DEFINE next == [t EXCEPT !.stage = "finished"]
  <2>1. next.stage = "finished"
    BY <1>t, TaskKept DEF Stage, Finished
  <2>2. /\ tasks' = [tasks EXCEPT ![w] = (@ \ {t}) \cup {next}]
        /\ UNCHANGED status
    BY <1>3 DEF CompleteReturns, Becomes, lifecycleVars
  <2> HIDE DEF next
  <2>3. Done(w)' = Done(w) \ {t} /\ \A v \in Worker \ {w} : Done(v)' = Done(v)
    BY <2>1, <2>2 DEF Done, RuntimeTypes
  <2>4. CASE t.stage # "done"
    <3>1. UNCHANGED processed
      BY <1>3, <2>4 DEF CompleteReturns, Count, CreditInv
    <3>2. CreditedTo(counter)'
      BY <2>2, <2>3, <3>1 DEF CreditedTo
    <3>3. QED
      BY <3>1, <3>2 DEF CreditInv
  <2>5. CASE t.stage = "done"
    <3> DEFINE counted == [counter EXCEPT ![t.event] = w]
               Share(c, v) == {e \in Event : c[e] = v}
    <3>1. t \in Done(w) /\ counter[t.event] = NoOwner /\ status[t.event] = "PROCESSED"
      BY <2>5 DEF Done, CreditedTo
    <3>2. counted \in [Event -> Worker \cup {NoOwner}]
      BY ZenonT(30)
    <3>3. /\ processed' = [processed EXCEPT ![w] = @ + 1]
          /\ processed' \in [Worker -> Nat]
      BY <1>3, <2>5 DEF CompleteReturns, Count, CreditInv
    <3>4. /\ Share(counted, w) = Share(counter, w) \cup {t.event}
          /\ t.event \notin Share(counter, w)
          /\ \A v \in Worker \ {w} : Share(counted, v) = Share(counter, v)
      BY <1>t, <3>1, LifecycleAssumption
    <3>5. IsFiniteSet(Share(counter, w))
      BY FS_Subset, RuntimeAssumption
    <3>6. Cardinality(Share(counted, w)) = Cardinality(Share(counter, w)) + 1
      BY <3>4, <3>5, FS_AddElement, ZenonT(30)
    <3>7. \A v \in Worker : processed[v] = Cardinality(Share(counter, v))
      BY ZenonT(30) DEF CreditedTo
    <3> HIDE DEF Share
    <3>8. \A v \in Worker : processed'[v] = Cardinality(Share(counted, v))
      BY <3>3, <3>4, <3>6, <3>7, ZenonT(30) DEF CreditInv
    <3>9. CreditedTo(counted)'
      <4>1. \A e \in Event : counted[e] # NoOwner => status'[e] = "PROCESSED"
        BY <2>2, <3>1 DEF CreditedTo
      <4>2. \A v \in Worker : \A u \in Done(v)' :
              status'[u.event] = "PROCESSED" /\ counted[u.event] = NoOwner
        BY <1>t, <2>2, <2>3, <3>1, SMTT(30) DEF CreditedTo, Done
      <4>3. \A x, y \in Worker : \A u \in Done(x)', v \in Done(y)' :
              u.event = v.event => x = y /\ u = v
        BY <2>3 DEF CreditedTo
      <4>4. QED
        BY <3>8, <4>1, <4>2, <4>3 DEF CreditedTo, Share
    <3>10. QED
      BY <3>2, <3>3, <3>9, ZenonT(30) DEF CreditInv
  <2>6. QED
    BY <2>4, <2>5
<1>4. QED
  BY <1>1, <1>2, <1>3, CountKinds, ZenonT(30)

(***************************************************************************)
(* No event is counted at the start.                                       *)
(***************************************************************************)
LEMMA CreditInvInit == Init => CreditInv
<1> SUFFICES ASSUME Init
             PROVE  CreditInv
  OBVIOUS
<1> DEFINE none == [e \in Event |-> NoOwner]
<1>1. \A w \in Worker : {e \in Event : none[e] = w} = {} /\ Done(w) = {}
  BY LifecycleAssumption DEF Init, Done
<1>2. none \in [Event -> Worker \cup {NoOwner}] /\ CreditedTo(none)
  BY <1>1, FS_EmptySet, ZenonT(30) DEF CreditedTo, Init
<1>3. QED
  BY <1>2 DEF CreditInv, Init

(***************************************************************************)
(* The credits are the sharing out that CountedOnce asks for.              *)
(***************************************************************************)
LEMMA CreditInvCounts == CreditInv => CountedOnce
BY ZenonT(30) DEF CreditInv, CreditedTo, CountedOnce

(***************************************************************************)
(* The workers' reports count no event twice: a second completion of it    *)
(* finds no row it owns, and is counted as lost (process_claim).           *)
(***************************************************************************)
THEOREM RuntimeCountedOnce == Spec => []CountedOnce
BY CreditInvInit, CreditInvCounts, CreditStep, RuntimeTypesInvariant, PTL DEF Spec

---------------------------------------------------------------------------
(* What the worker runtime holds in hand.                                  *)

(***************************************************************************)
(* An attempt is in one place only.  Attempts in hand are none the table   *)
(* has not counted yet, and the last one is the owner's.                   *)
(***************************************************************************)
ClaimsExclusive ==
  \A w \in Worker :
    /\ \A h \in Holds(w) :
         /\ h[2] <= delivery_attempts[h[1]]
         /\ h[2] = delivery_attempts[h[1]] /\ status[h[1]] = "PROCESSING" =>
              processing_owner[h[1]] = w
    /\ \A v \in Worker \ {w} : Holds(v) \cap Holds(w) = {}
    /\ \A t \in tasks[w] : ClaimOf(t) \notin batch[w]
    /\ \A t, u \in tasks[w] : ClaimOf(t) = ClaimOf(u) => t = u

(***************************************************************************)
(* A completion is sent only after the processor has returned Ok.          *)
(***************************************************************************)
HandledFirst ==
  /\ \A w \in Worker : \A t \in tasks[w] : t.stage = "completing" => t.event \in handled
  /\ \A c \in lateCompletes : c[2] \in handled
  /\ ProcessedWasHandled

(***************************************************************************)
(* Live tasks and unanswered claims fit into the slots.                    *)
(***************************************************************************)
SlotsSuffice ==
  \A w \in Worker :
    /\ IsFiniteSet(tasks[w]) /\ IsFiniteSet(batch[w])
    /\ Cardinality(tasks[w]) + Cardinality(batch[w]) <= Concurrency

---------------------------------------------------------------------------
(***************************************************************************)
(* At least once: nothing completes an event the processor has not         *)
(* returned Ok for.                                                        *)
(***************************************************************************)
LEMMA HandledStep == RuntimeTypes /\ HandledFirst /\ [Next]_vars => HandledFirst'
<1> SUFFICES ASSUME RuntimeTypes, HandledFirst, [Next]_vars
             PROVE  HandledFirst'
  OBVIOUS
<1>1. handled \subseteq handled'
  <2>1. ASSUME NEW w \in Worker, LoopStep(w)
        PROVE  UNCHANGED handled
    BY <2>1, Zenon DEF LoopStep, Start, LoopTop, ClaimExecutes, ClaimReturns, ClaimFails,
                SelectShutdown, SelectJoin, SelectPoll
  <2>2. ASSUME NEW w \in Worker, ShutdownStep(w)
        PROVE  UNCHANGED handled
    BY <2>2, Zenon DEF ShutdownStep, Signal, DrainJoin, DrainDone, DrainTimeout, AbortTask,
                AbortDone, Crash
  <2>3. ASSUME NEW w \in Worker, NEW t \in tasks[w], TaskStep(w, t)
        PROVE  handled \subseteq handled'
    BY <2>3 DEF TaskStep, ProcessOk, ProcessErr, ProcessPanic, CompleteExecutes,
                CompleteReturns, CompleteFails
  <2>4. ASSUME DatabaseStep \/ UNCHANGED vars
        PROVE  UNCHANGED handled
    BY <2>4, Zenon DEF DatabaseStep, LateClaimExecutes, LateCompleteExecutes, LateDropped,
                LeaseLapses, EventAdmitted, vars
  <2>5. QED
    BY <2>1, <2>2, <2>3, <2>4 DEF Next
<1>2. \A w \in Worker : \A t \in tasks'[w] : t.stage = "completing" => t.event \in handled'
  <2>1. CASE Shrinks
    BY <1>1, <2>1 DEF Shrinks, HandledFirst
  <2>2. ASSUME NEW w \in Worker, NEW got \in SUBSET Event, ClaimExecutes(w, got)
        PROVE  <1>2
    BY <1>1, <2>2 DEF ClaimExecutes, HandledFirst
  <2>3. ASSUME NEW w \in Worker, ClaimReturns(w)
        PROVE  <1>2
    BY <1>1, <2>3 DEF ClaimReturns, HandledFirst, RuntimeTypes
  <2>4. ASSUME NEW w \in Worker, NEW t \in tasks[w], TaskMoves(w, t)
        PROVE  <1>2
    <3>1. PICK stage \in Stage : /\ Becomes(w, t, stage)
                                 /\ stage = "completing" => t.event \in handled'
      BY <2>4 DEF TaskMoves
    <3> DEFINE next == [t EXCEPT !.stage = stage]
    <3>2. next.event = t.event /\ next.stage = stage
      BY TaskKept DEF RuntimeTypes
    <3>3. tasks' = [tasks EXCEPT ![w] = (@ \ {t}) \cup {next}]
      BY <3>1 DEF Becomes
    <3> HIDE DEF next
    <3>4. QED
      BY <1>1, <3>1, <3>2, <3>3 DEF HandledFirst, RuntimeTypes
  <2>5. CASE TableMoves
    BY <1>1, <2>5 DEF TableMoves, HandledFirst
  <2>6. QED
    BY <2>1, <2>2, <2>3, <2>4, <2>5, StepKinds, SMTT(30)
<1>3. \A c \in lateCompletes' : c[2] \in handled'
  BY <1>1, LateCompletesSent DEF HandledFirst
<1>4. ProcessedWasHandled'
  <2>1. \A e \in Event : status'[e] = "PROCESSED" =>
          \/ status[e] = "PROCESSED"
          \/ \E w \in Worker : \E t \in tasks[w] : t.stage = "completing" /\ t.event = e
          \/ \E c \in lateCompletes : c[2] = e
    <3>1. CASE Shrinks
      BY <3>1 DEF Shrinks, lifecycleVars
    <3>2. ASSUME NEW w \in Worker, NEW got \in SUBSET Event, ClaimExecutes(w, got)
          PROVE  <2>1
      BY <3>2 DEF ClaimExecutes, ExecuteClaim, Claim
    <3>3. ASSUME NEW w \in Worker, ClaimReturns(w)
          PROVE  <2>1
      BY <3>3 DEF ClaimReturns, lifecycleVars
    <3>4. ASSUME NEW w \in Worker, NEW t \in tasks[w], TaskMoves(w, t)
          PROVE  <2>1
      BY <3>4 DEF TaskMoves, Complete, RuntimeTypes, LifecycleTypeOK, lifecycleVars
    <3>5. CASE TableMoves
      BY <3>5 DEF TableMoves, OnlySentCompletions
    <3>6. QED
      BY <3>1, <3>2, <3>3, <3>4, <3>5, StepKinds
  <2>2. QED
    BY <1>1, <2>1 DEF HandledFirst, ProcessedWasHandled
<1>5. QED
  BY <1>2, <1>3, <1>4 DEF HandledFirst

---------------------------------------------------------------------------
(***************************************************************************)
(* What a worker holds is an event and an attempt.                         *)
(***************************************************************************)
LEMMA HoldsTyped ==
  ASSUME RuntimeTypes, NEW w \in Worker
  PROVE  Holds(w) \subseteq Claimed
BY SMTT(30) DEF RuntimeTypes, Holds, ClaimOf, Claimed, Task

(***************************************************************************)
(* No operation of the store lowers delivery_attempts, and the owner of a  *)
(* claim changes only with the attempt.                                    *)
(***************************************************************************)
LEMMA OwnersKept ==
  ASSUME LifecycleTypeOK, [LifecycleNext]_lifecycleVars, NEW e \in Event
  PROVE  /\ delivery_attempts'[e] \in Nat
         /\ delivery_attempts'[e] >= delivery_attempts[e]
         /\ delivery_attempts'[e] = delivery_attempts[e] /\ status'[e] = "PROCESSING" =>
              status[e] = "PROCESSING" /\ processing_owner'[e] = processing_owner[e]
<1> DEFINE Kept ==
      /\ delivery_attempts'[e] \in Nat
      /\ delivery_attempts'[e] >= delivery_attempts[e]
      /\ delivery_attempts'[e] = delivery_attempts[e] /\ status'[e] = "PROCESSING" =>
           status[e] = "PROCESSING" /\ processing_owner'[e] = processing_owner[e]
<1> USE DEF LifecycleTypeOK
<1>1. ASSUME NEW f \in Event, Admit(f)
      PROVE  Kept
  BY <1>1 DEF Admit
<1>2. ASSUME NEW w \in Worker, NEW got \in SUBSET Event, NEW slow \in BOOLEAN,
             Claim(w, got, slow)
      PROVE  Kept
  BY <1>2 DEF Claim
<1>3. ASSUME NEW w \in Worker, NEW f \in Event, Complete(w, f)
      PROVE  Kept
  BY <1>3 DEF Complete
<1>4. ASSUME NEW lapsing \in SUBSET Event, LeasesLapse(lapsing)
      PROVE  Kept
  BY <1>4 DEF LeasesLapse
<1>5. CASE UNCHANGED lifecycleVars
  BY <1>5 DEF lifecycleVars
<1>6. QED
  BY <1>1, <1>2, <1>3, <1>4, <1>5 DEF LifecycleNext

(***************************************************************************)
(* A step that gives no worker anything new to hold keeps claims           *)
(* exclusive, whatever it does to the table.                               *)
(***************************************************************************)
LEMMA NothingNewHeld ==
  ASSUME RuntimeTypes, ClaimsExclusive, [LifecycleNext]_lifecycleVars,
         \A w \in Worker : Holds(w)' \subseteq Holds(w),
         \A w \in Worker : \A t \in tasks'[w] : ClaimOf(t) \notin batch'[w],
         \A w \in Worker : \A t, u \in tasks'[w] : ClaimOf(t) = ClaimOf(u) => t = u
  PROVE  ClaimsExclusive'
<1>1. ASSUME NEW w \in Worker, NEW h \in Holds(w)'
      PROVE  /\ h[2] <= delivery_attempts'[h[1]]
             /\ h[2] = delivery_attempts'[h[1]] /\ status'[h[1]] = "PROCESSING" =>
                  processing_owner'[h[1]] = w
  <2>1. h \in Holds(w)
    OBVIOUS
  <2>2. h[1] \in Event /\ h[2] \in Nat
    BY <2>1, HoldsTyped, SMTT(30) DEF Claimed
  <2>3. /\ h[2] <= delivery_attempts[h[1]]
        /\ h[2] = delivery_attempts[h[1]] /\ status[h[1]] = "PROCESSING" =>
             processing_owner[h[1]] = w
    BY <2>1 DEF ClaimsExclusive
  <2>4. delivery_attempts[h[1]] \in Nat
    BY <2>2, SMTT(30) DEF RuntimeTypes, LifecycleTypeOK
  <2>5. QED
    BY <2>2, <2>3, <2>4, OwnersKept, SMTT(30) DEF RuntimeTypes
<1>2. \A w \in Worker : \A v \in Worker \ {w} : Holds(v)' \cap Holds(w)' = {}
  BY DEF ClaimsExclusive
<1>3. QED
  BY <1>1, <1>2, ZenonT(30) DEF ClaimsExclusive, ClaimOf

(***************************************************************************)
(* Every step of the runtime keeps claims exclusive: a claim that is       *)
(* executed hands out attempts nobody has, and nothing else hands out any. *)
(***************************************************************************)
LEMMA ExclusiveStep == RuntimeTypes /\ ClaimsExclusive /\ [Next]_vars => ClaimsExclusive'
<1> SUFFICES ASSUME RuntimeTypes, ClaimsExclusive, [Next]_vars
             PROVE  ClaimsExclusive'
  OBVIOUS
<1>1. [LifecycleNext]_lifecycleVars
  BY LifecycleStep
<1>2. CASE Shrinks
  <2>1. \A w \in Worker : /\ Holds(w)' \subseteq Holds(w)
                          /\ \A t \in tasks'[w] : ClaimOf(t) \notin batch'[w]
    BY <1>2 DEF Shrinks, Holds, ClaimsExclusive, ClaimOf
  <2>2. \A w \in Worker : \A t, u \in tasks'[w] : ClaimOf(t) = ClaimOf(u) => t = u
    BY <1>2 DEF Shrinks, ClaimsExclusive
  <2>3. QED
    BY <1>1, <2>1, <2>2, NothingNewHeld
<1>3. ASSUME NEW w \in Worker, NEW got \in SUBSET Event, ClaimExecutes(w, got)
      PROVE  ClaimsExclusive'
  <2> DEFINE new == {<<e, delivery_attempts[e] + 1>> : e \in got}
  <2>1. /\ batch' = [batch EXCEPT ![w] = new]
        /\ UNCHANGED tasks
        /\ \A e \in got : /\ delivery_attempts'[e] = delivery_attempts[e] + 1
                          /\ processing_owner'[e] = w
    BY <1>3, ClaimEffect
  <2>2. ASSUME NEW v \in Worker, NEW h \in Holds(v)
        PROVE  h \notin new
    <3>1. h \in Claimed /\ h[2] <= delivery_attempts[h[1]]
      BY HoldsTyped DEF ClaimsExclusive
    <3>2. ASSUME NEW e \in got, h = <<e, delivery_attempts[e] + 1>>
          PROVE  FALSE
      <4>1. delivery_attempts[e] \in Nat /\ h[1] = e /\ h[2] = delivery_attempts[e] + 1
        BY <3>2 DEF RuntimeTypes, LifecycleTypeOK
      <4>2. QED
        BY <3>1, <4>1
    <3>3. QED
      BY <3>2
  <2>3. ASSUME NEW h \in new
        PROVE  /\ h[2] <= delivery_attempts'[h[1]]
               /\ processing_owner'[h[1]] = w
    <3>1. PICK e \in got : h = <<e, delivery_attempts[e] + 1>>
      OBVIOUS
    <3>2. delivery_attempts[e] \in Nat /\ h[1] = e /\ h[2] = delivery_attempts[e] + 1
      BY <3>1 DEF RuntimeTypes, LifecycleTypeOK
    <3>3. QED
      BY <2>1, <3>2
  <2> HIDE DEF new
  <2>4. /\ Holds(w)' \subseteq Holds(w) \cup new
        /\ \A v \in Worker \ {w} : Holds(v)' = Holds(v)
    BY <2>1 DEF Holds, ClaimOf, RuntimeTypes
  <2>5. ASSUME NEW v \in Worker, NEW h \in Holds(v)
        PROVE  /\ h[2] <= delivery_attempts'[h[1]]
               /\ h[2] = delivery_attempts'[h[1]] /\ status'[h[1]] = "PROCESSING" =>
                    processing_owner'[h[1]] = v
    <3>1. h[1] \in Event /\ h[2] \in Nat
      BY HoldsTyped DEF Claimed
    <3>2. /\ h[2] <= delivery_attempts[h[1]]
          /\ h[2] = delivery_attempts[h[1]] /\ status[h[1]] = "PROCESSING" =>
               processing_owner[h[1]] = v
      BY DEF ClaimsExclusive
    <3>3. delivery_attempts[h[1]] \in Nat
      BY <3>1 DEF RuntimeTypes, LifecycleTypeOK
    <3>4. QED
      BY <1>1, <3>1, <3>2, <3>3, OwnersKept DEF RuntimeTypes
  <2>6. \A v \in Worker : \A h \in Holds(v)' :
          /\ h[2] <= delivery_attempts'[h[1]]
          /\ h[2] = delivery_attempts'[h[1]] /\ status'[h[1]] = "PROCESSING" =>
               processing_owner'[h[1]] = v
    BY <2>3, <2>4, <2>5
  <2>7. \A u \in Worker : \A v \in Worker \ {u} : Holds(v)' \cap Holds(u)' = {}
    BY <2>2, <2>4 DEF ClaimsExclusive
  <2>8. \A v \in Worker : \A t \in tasks'[v] : ClaimOf(t) \notin batch'[v]
    <3>1. \A t \in tasks[w] : ClaimOf(t) \in Holds(w)
      BY DEF Holds
    <3>2. QED
      BY <2>1, <2>2, <3>1 DEF ClaimsExclusive, RuntimeTypes
  <2>9. \A v \in Worker : \A t, u \in tasks'[v] : ClaimOf(t) = ClaimOf(u) => t = u
    BY <2>1 DEF ClaimsExclusive
  <2>10. QED
    BY <2>6, <2>7, <2>8, <2>9 DEF ClaimsExclusive, ClaimOf
<1>4. ASSUME NEW w \in Worker, ClaimReturns(w)
      PROVE  ClaimsExclusive'
  <2> DEFINE TaskOf(c) == [event |-> c[1], attempt |-> c[2], stage |-> "processing"]
             new == {TaskOf(c) : c \in batch[w]}
  <2>1. \A t \in new : ClaimOf(t) \in batch[w]
    <3>1. \A c \in batch[w] : ClaimOf(TaskOf(c)) = c
      BY DEF RuntimeTypes, Claimed, ClaimOf
    <3>2. QED
      BY <3>1
  <2>2. \A t, u \in new : ClaimOf(t) = ClaimOf(u) => t = u
    BY DEF ClaimOf
  <2>3. /\ tasks' = [tasks EXCEPT ![w] = @ \cup new]
        /\ batch' = [batch EXCEPT ![w] = {}]
    BY <1>4 DEF ClaimReturns
  <2> HIDE DEF new
  <2>4. \A v \in Worker : Holds(v)' \subseteq Holds(v)
    BY <2>1, <2>3, SMTT(30) DEF Holds, ClaimOf, RuntimeTypes
  <2>5. \A v \in Worker : \A t \in tasks'[v] : ClaimOf(t) \notin batch'[v]
    BY <2>3 DEF ClaimsExclusive, RuntimeTypes
  <2>6. \A v \in Worker : \A t, u \in tasks'[v] : ClaimOf(t) = ClaimOf(u) => t = u
    BY <2>1, <2>2, <2>3, SMTT(30) DEF ClaimsExclusive, RuntimeTypes
  <2>7. QED
    BY <1>1, <2>4, <2>5, <2>6, NothingNewHeld
<1>5. ASSUME NEW w \in Worker, NEW t \in tasks[w], TaskMoves(w, t)
      PROVE  ClaimsExclusive'
  <2>1. PICK stage \in Stage : Becomes(w, t, stage)
    BY <1>5 DEF TaskMoves
  <2> DEFINE next == [t EXCEPT !.stage = stage]
  <2>2. ClaimOf(next) = ClaimOf(t)
    BY TaskKept DEF RuntimeTypes
  <2>3. tasks' = [tasks EXCEPT ![w] = (@ \ {t}) \cup {next}] /\ UNCHANGED batch
    BY <1>5, <2>1, Zenon DEF Becomes, TaskMoves
  <2> HIDE DEF next
  <2>4. \A v \in Worker : Holds(v)' \subseteq Holds(v)
    BY <2>2, <2>3 DEF Holds, ClaimOf, RuntimeTypes
  <2>5. \A v \in Worker : \A u \in tasks'[v] : ClaimOf(u) \notin batch'[v]
    BY <2>2, <2>3, ZenonT(30) DEF ClaimsExclusive, RuntimeTypes
  <2>6. \A v \in Worker : \A s, u \in tasks'[v] : ClaimOf(s) = ClaimOf(u) => s = u
    BY <2>2, <2>3, SMTT(30) DEF ClaimsExclusive, RuntimeTypes
  <2>7. QED
    BY <1>1, <2>4, <2>5, <2>6, NothingNewHeld, ZenonT(30)
<1>6. CASE TableMoves
  <2>1. \A w \in Worker : /\ Holds(w)' \subseteq Holds(w)
                          /\ \A t \in tasks'[w] : ClaimOf(t) \notin batch'[w]
    BY <1>6, Zenon DEF TableMoves, Holds, ClaimsExclusive, ClaimOf
  <2>2. \A w \in Worker : \A t, u \in tasks'[w] : ClaimOf(t) = ClaimOf(u) => t = u
    BY <1>6 DEF TableMoves, ClaimsExclusive
  <2>3. QED
    BY <1>1, <2>1, <2>2, NothingNewHeld
<1>7. QED
  BY <1>2, <1>3, <1>4, <1>5, <1>6, StepKinds

---------------------------------------------------------------------------
(***************************************************************************)
(* A set of results is no larger than the set of arguments.                *)
(***************************************************************************)
LEMMA ImageNoLarger ==
  ASSUME NEW S, IsFiniteSet(S), NEW f, DOMAIN f = S, f = [x \in S |-> f[x]]
  PROVE  /\ IsFiniteSet({f[x] : x \in S})
         /\ Cardinality({f[x] : x \in S}) <= Cardinality(S)
<1>1. f \in Surjection(S, {f[x] : x \in S})
  BY ZenonT(30) DEF Surjection
<1>2. QED
  BY <1>1, FS_Surjection

(***************************************************************************)
(* Every step of the runtime keeps to the slots: `run` asks for no more    *)
(* events than it has free slots, and spawns no more tasks than it gets    *)
(* events.                                                                 *)
(***************************************************************************)
LEMMA SlotsStep == RuntimeTypes /\ SlotsSuffice /\ [Next]_vars => SlotsSuffice'
<1> SUFFICES ASSUME RuntimeTypes, SlotsSuffice, [Next]_vars, NEW v \in Worker
             PROVE  /\ IsFiniteSet(tasks'[v]) /\ IsFiniteSet(batch'[v])
                    /\ Cardinality(tasks'[v]) + Cardinality(batch'[v]) <= Concurrency
  BY DEF SlotsSuffice
<1> DEFINE Fits == /\ IsFiniteSet(tasks'[v]) /\ IsFiniteSet(batch'[v])
                   /\ Cardinality(tasks'[v]) + Cardinality(batch'[v]) <= Concurrency
<1>1. /\ IsFiniteSet(tasks[v]) /\ IsFiniteSet(batch[v])
      /\ Cardinality(tasks[v]) \in Nat /\ Cardinality(batch[v]) \in Nat
      /\ Cardinality(tasks[v]) + Cardinality(batch[v]) <= Concurrency
      /\ Concurrency \in Nat
  BY FS_CardinalityType, RuntimeAssumption, ZenonT(30) DEF SlotsSuffice
<1>2. CASE Shrinks
  <2>1. /\ IsFiniteSet(tasks'[v]) /\ Cardinality(tasks'[v]) <= Cardinality(tasks[v])
        /\ IsFiniteSet(batch'[v]) /\ Cardinality(batch'[v]) <= Cardinality(batch[v])
    BY <1>1, <1>2, FS_Subset DEF Shrinks
  <2>2. Cardinality(tasks'[v]) \in Nat /\ Cardinality(batch'[v]) \in Nat
    BY <2>1, FS_CardinalityType
  <2>3. QED
    BY <1>1, <2>1, <2>2, SMTT(30)
<1>3. ASSUME NEW w \in Worker, NEW got \in SUBSET Event, ClaimExecutes(w, got)
      PROVE  Fits
  <2>1. CASE v # w
    BY <1>1, <1>3, <2>1, ZenonT(30) DEF ClaimExecutes, RuntimeTypes
  <2>2. CASE v = w
    <3> DEFINE f == [e \in got |-> <<e, delivery_attempts[e] + 1>>]
               new == {f[e] : e \in got}
    <3>1. IsFiniteSet(got) /\ Cardinality(got) \in Nat
      BY FS_Subset, FS_CardinalityType, RuntimeAssumption, SMTT(30)
    <3>2. Cardinality(got) <= Concurrency - Cardinality(tasks[v])
      BY <1>3, <2>2 DEF ClaimExecutes, ExecuteClaim, Free
    <3>3. IsFiniteSet(new) /\ Cardinality(new) <= Cardinality(got)
      <4>1. DOMAIN f = got /\ f = [e \in got |-> f[e]]
        OBVIOUS
      <4> HIDE DEF f
      <4>2. QED
        BY <3>1, <4>1, ImageNoLarger
    <3>4. Cardinality(new) \in Nat
      BY <3>3, FS_CardinalityType
    <3>5. new = {<<e, delivery_attempts[e] + 1>> : e \in got}
      OBVIOUS
    <3> HIDE DEF new
    <3>6. batch'[v] = new /\ tasks'[v] = tasks[v]
      BY <1>3, <2>2, <3>5, ClaimEffect DEF RuntimeTypes
    <3>7. QED
      BY <1>1, <3>1, <3>2, <3>3, <3>4, <3>6, SMTT(30)
  <2>3. QED
    BY <2>1, <2>2, ZenonT(30)
<1>4. ASSUME NEW w \in Worker, ClaimReturns(w)
      PROVE  Fits
  <2>1. CASE v # w
    BY <1>1, <1>4, <2>1, ZenonT(30) DEF ClaimReturns, RuntimeTypes
  <2>2. CASE v = w
    <3> DEFINE f == [c \in batch[v] |->
                       [event |-> c[1], attempt |-> c[2], stage |-> "processing"]]
               new == {f[c] : c \in batch[v]}
    <3>1. IsFiniteSet(new) /\ Cardinality(new) <= Cardinality(batch[v])
      <4>1. DOMAIN f = batch[v] /\ f = [c \in batch[v] |-> f[c]]
        OBVIOUS
      <4> HIDE DEF f
      <4>2. QED
        BY <1>1, <4>1, ImageNoLarger
    <3>2. new = {[event |-> c[1], attempt |-> c[2], stage |-> "processing"] : c \in batch[v]}
      BY Zenon
    <3> HIDE DEF new
    <3>3. tasks'[v] = tasks[v] \cup new /\ batch'[v] = {}
      BY <1>4, <2>2, <3>2, ZenonT(30) DEF ClaimReturns, RuntimeTypes
    <3>4. /\ IsFiniteSet(tasks[v] \cup new)
          /\ Cardinality(tasks[v] \cup new)
               = Cardinality(tasks[v]) + Cardinality(new) - Cardinality(tasks[v] \cap new)
      BY <1>1, <3>1, FS_Union
    <3>5. Cardinality(tasks[v] \cap new) \in Nat /\ Cardinality(new) \in Nat
      <4>1. IsFiniteSet(tasks[v] \cap new)
        BY <3>1, FS_Subset, tasks[v] \cap new \in SUBSET new
      <4>2. QED
        BY <3>1, <4>1, FS_CardinalityType
    <3>6. QED
      BY <1>1, <3>1, <3>3, <3>4, <3>5, FS_EmptySet
  <2>3. QED
    BY <2>1, <2>2, ZenonT(30)
<1>5. ASSUME NEW w \in Worker, NEW t \in tasks[w], TaskMoves(w, t)
      PROVE  Fits
  <2>1. CASE v # w
    BY <1>1, <1>5, <2>1, ZenonT(30) DEF TaskMoves, Becomes, RuntimeTypes
  <2>2. CASE v = w
    <3>1. PICK stage \in Stage : Becomes(w, t, stage)
      BY <1>5 DEF TaskMoves
    <3> DEFINE next == [t EXCEPT !.stage = stage]
    <3>2. tasks'[v] = (tasks[v] \ {t}) \cup {next} /\ batch'[v] = batch[v]
      BY <1>5, <2>2, <3>1 DEF Becomes, TaskMoves, RuntimeTypes
    <3> HIDE DEF next
    <3>3. IsFiniteSet(tasks[v] \ {t}) /\ Cardinality(tasks[v] \ {t}) = Cardinality(tasks[v]) - 1
      BY <1>1, <2>2, FS_RemoveElement, Zenon
    <3>4. /\ IsFiniteSet(tasks'[v])
          /\ \/ Cardinality(tasks'[v]) = Cardinality(tasks[v] \ {t})
             \/ Cardinality(tasks'[v]) = Cardinality(tasks[v] \ {t}) + 1
      BY <3>2, <3>3, FS_AddElement, SMTT(30)
    <3>5. QED
      BY <1>1, <3>2, <3>3, <3>4, SMTT(30)
  <2>3. QED
    BY <2>1, <2>2
<1>6. CASE TableMoves
  BY <1>1, <1>6 DEF TableMoves
<1>7. QED
  BY <1>2, <1>3, <1>4, <1>5, <1>6, StepKinds, ZenonT(30)

---------------------------------------------------------------------------
(***************************************************************************)
(* The inductive invariant of the runtime: types, exclusive claims, no     *)
(* completion before its processor, and enough slots.                      *)
(***************************************************************************)
RuntimeInv == RuntimeTypes /\ ClaimsExclusive /\ HandledFirst /\ SlotsSuffice

(***************************************************************************)
(* No worker has begun.                                                    *)
(***************************************************************************)
LEMMA RuntimeInvInit == Init => RuntimeInv
<1> SUFFICES ASSUME Init
             PROVE  RuntimeInv
  OBVIOUS
<1>1. RuntimeTypes
  BY DEF Init, LifecycleInit, RuntimeTypes, LifecycleTypeOK, Status
<1>2. ClaimsExclusive
  BY DEF Init, ClaimsExclusive, Holds
<1>3. HandledFirst
  BY DEF Init, LifecycleInit, HandledFirst, ProcessedWasHandled
<1>4. SlotsSuffice
  BY FS_EmptySet, RuntimeAssumption DEF Init, SlotsSuffice
<1>5. QED
  BY <1>1, <1>2, <1>3, <1>4 DEF RuntimeInv

(***************************************************************************)
(* Every step of the runtime keeps its invariant.                          *)
(***************************************************************************)
LEMMA RuntimeInvStep == RuntimeInv /\ [Next]_vars => RuntimeInv'
BY RuntimeTypesStep, ExclusiveStep, HandledStep, SlotsStep DEF RuntimeInv

(***************************************************************************)
(* RuntimeInv holds in every state of any number of workers.               *)
(***************************************************************************)
THEOREM RuntimeInvariant == Spec => []RuntimeInv
BY RuntimeInvInit, RuntimeInvStep, PTL DEF Spec

(***************************************************************************)
(* What RuntimeInv says of a single state.                                 *)
(***************************************************************************)
LEMMA RuntimeInvCapacity == RuntimeInv => CapacityBound
BY ZenonT(30) DEF RuntimeInv, SlotsSuffice, CapacityBound

(***************************************************************************)
(* Two tasks of one delivery attempt hold the same claim.                  *)
(***************************************************************************)
LEMMA RuntimeInvExclusive == RuntimeInv => AttemptsExclusive
<1> SUFFICES ASSUME ClaimsExclusive, NEW v \in Worker, NEW w \in Worker,
                    NEW t \in tasks[v], NEW u \in tasks[w],
                    t.event = u.event, t.attempt = u.attempt
             PROVE  v = w /\ t = u
  BY ZenonT(30) DEF AttemptsExclusive, RuntimeInv
<1>1. ClaimOf(t) = ClaimOf(u)
  BY Zenon DEF ClaimOf
<1>2. ClaimOf(t) \in Holds(v) /\ ClaimOf(u) \in Holds(w)
  BY Zenon DEF Holds
<1>3. v = w
  BY <1>1, <1>2, Zenon DEF ClaimsExclusive
<1>4. QED
  BY <1>1, <1>3, Zenon DEF ClaimsExclusive

(***************************************************************************)
(* A task's claim is held by its worker.                                   *)
(***************************************************************************)
LEMMA RuntimeInvOwns == RuntimeInv => LatestAttemptOwns
<1> SUFFICES ASSUME ClaimsExclusive, NEW w \in Worker, NEW t \in tasks[w]
             PROVE  /\ t.attempt <= delivery_attempts[t.event]
                    /\ /\ t.attempt = delivery_attempts[t.event]
                       /\ status[t.event] = "PROCESSING"
                       => processing_owner[t.event] = w
  BY Zenon DEF LatestAttemptOwns, RuntimeInv
<1>1. ClaimOf(t) \in Holds(w)
  BY Zenon DEF Holds
<1>2. ClaimOf(t)[1] = t.event /\ ClaimOf(t)[2] = t.attempt
  BY Zenon DEF ClaimOf
<1>3. \A h \in Holds(w) :
        /\ h[2] <= delivery_attempts[h[1]]
        /\ h[2] = delivery_attempts[h[1]] /\ status[h[1]] = "PROCESSING" =>
             processing_owner[h[1]] = w
  BY Zenon DEF ClaimsExclusive
<1>4. QED
  BY <1>1, <1>2, <1>3, Zenon

(***************************************************************************)
(* A worker never holds more tasks and unanswered claims than              *)
(* `concurrency`, for any concurrency and any mix of failures.             *)
(***************************************************************************)
THEOREM RuntimeCapacityBound == Spec => []CapacityBound
BY RuntimeInvariant, RuntimeInvCapacity, PTL

(***************************************************************************)
(* Each delivery attempt is worked on by one task of one worker, however   *)
(* claims, lapsing leases and late statements interleave.                  *)
(***************************************************************************)
THEOREM RuntimeAttemptsExclusive == Spec => []AttemptsExclusive
BY RuntimeInvariant, RuntimeInvExclusive, PTL

(***************************************************************************)
(* The worker of the latest attempt owns the row while it is PROCESSING.   *)
(***************************************************************************)
THEOREM RuntimeLatestAttemptOwns == Spec => []LatestAttemptOwns
BY RuntimeInvariant, RuntimeInvOwns, PTL

(***************************************************************************)
(* An event is PROCESSED only if the processor returned Ok for it.         *)
(***************************************************************************)
THEOREM RuntimeProcessedWasHandled == Spec => []ProcessedWasHandled
<1>1. RuntimeInv => ProcessedWasHandled
  BY Zenon DEF RuntimeInv, HandledFirst
<1>2. QED
  BY <1>1, RuntimeInvariant, PTL
============================================================================
