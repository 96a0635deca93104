--------------------------- MODULE WorkerRuntime ---------------------------
(***************************************************************************)
(* The worker process (runtime.rs): the claim loop of `run`, the tasks it  *)
(* spawns (`process_claim`), and its shutdown, for several workers that    *)
(* share the events table.  The table is the one of EventLifecycle.        *)
(*                                                                         *)
(* A statement a worker sends, the moment the database executes it and     *)
(* the moment its answer is back are separate steps.  In between leases    *)
(* lapse, workers crash and tasks are aborted, and a statement whose       *)
(* sender is gone may still be executed.                                   *)
(***************************************************************************)
EXTENDS EventLifecycle, Faults, FiniteSets

CONSTANTS
  Concurrency,  \* config.concurrency
  Mortal        \* the workers that may be shut down or crash

ASSUME RuntimeAssumption ==
  /\ IsFiniteSet(Event)
  /\ Concurrency \in Nat \ {0}
  /\ Mortal \subseteq Worker

VARIABLES
  pc,             \* where each worker is in `run`
  tasks,          \* the JoinSet: spawned and not yet joined
  batch,          \* <<event, attempt>> of a claim whose answer is on its way
  shutdown,       \* the shutdown future is ready
  processed, failed, lost_claims, abandoned,    \* the RunReport
  lateClaims,     \* <<worker, limit, n>>: claims in flight whose sender is gone; the
                  \* failures so far, n, tell those of one worker apart
  lateCompletes,  \* <<worker, event>>: completions in flight, likewise
  spawned,        \* history: claims handed to process_claim
  handled         \* history: events the processor has returned Ok for

counters == <<processed, failed, lost_claims, abandoned, spawned>>
late == <<lateClaims, lateCompletes>>
vars == <<lifecycleVars, pc, tasks, batch, shutdown, counters, late, handled, faults>>

Running == {"top", "claiming", "claimed", "select", "draining", "aborting"}

(***************************************************************************)
(* A task is in processor.process ("processing"), waits for                *)
(* store.complete ("completing"), has its answer on the way ("done",       *)
(* "lost"), or is over and waits to be joined ("finished", "panicked").    *)
(***************************************************************************)
Finished == {"finished", "panicked"}
Stage == {"processing", "completing", "done", "lost"} \cup Finished
Task == [event : Event, attempt : Nat \ {0}, stage : Stage]

(***************************************************************************)
(* The type of the runtime's state.                                        *)
(***************************************************************************)
TypeOK ==
  /\ LifecycleTypeOK
  /\ pc \in [Worker -> Running \cup {"off", "stopped", "crashed"}]
  /\ tasks \in [Worker -> SUBSET Task]
  /\ batch \in [Worker -> SUBSET (Event \X (Nat \ {0}))]
  /\ shutdown \in [Worker -> BOOLEAN]
  /\ {processed, failed, lost_claims, abandoned, spawned} \subseteq [Worker -> Nat]
  /\ lateClaims \subseteq Worker \X (1 .. Concurrency) \X (0 .. MaxFaults)
  /\ lateCompletes \subseteq Worker \X Event
  /\ handled \subseteq Event
  /\ faults \in 0 .. MaxFaults

Init ==
  /\ LifecycleInit
  /\ pc = [w \in Worker |-> "off"]
  /\ tasks = [w \in Worker |-> {}]
  /\ batch = [w \in Worker |-> {}]
  /\ shutdown = [w \in Worker |-> FALSE]
  /\ processed = [w \in Worker |-> 0]
  /\ failed = [w \in Worker |-> 0]
  /\ lost_claims = [w \in Worker |-> 0]
  /\ abandoned = [w \in Worker |-> 0]
  /\ spawned = [w \in Worker |-> 0]
  /\ lateClaims = {}
  /\ lateCompletes = {}
  /\ handled = {}
  /\ faults = 0

Goto(w, label) == pc' = [pc EXCEPT ![w] = label]

Count(counter, w, n) == [counter EXCEPT ![w] = @ + n]

---------------------------------------------------------------------------
(* The claim loop of `run`.                                                *)

FinishedTasks(w) == {t \in tasks[w] : t.stage \in Finished}

(***************************************************************************)
(* Fault: a claim asks for one event too many.                             *)
(***************************************************************************)
FreeOffByOne(w, live) == Concurrency + 1 - Cardinality(live)

(***************************************************************************)
(* Fault: a claim asks for `concurrency` events whatever is running.       *)
(***************************************************************************)
FreeAll(w, live) == Concurrency

Free(w, live) == Concurrency - Cardinality(live)

(***************************************************************************)
(* Fault: a join that reports a panic is dropped.                          *)
(***************************************************************************)
JoinForgetsPanics(w, joined) ==
  /\ tasks' = [tasks EXCEPT ![w] = @ \ joined]
  /\ UNCHANGED failed

(***************************************************************************)
(* record_join of a set of tasks: they leave the JoinSet, and only here is *)
(* a panic counted.                                                        *)
(***************************************************************************)
Join(w, joined) ==
  LET panicked == {t \in joined : t.stage = "panicked"} IN
  /\ tasks' = [tasks EXCEPT ![w] = @ \ joined]
  /\ failed' = Count(failed, w, Cardinality(panicked))

Start(w) ==
  /\ pc[w] = "off"
  /\ Goto(w, "top")
  /\ UNCHANGED <<lifecycleVars, tasks, batch, shutdown, counters, late, handled, faults>>

(***************************************************************************)
(* The top of the loop: join every finished task, then ask for as many     *)
(* events as there are free slots, if any.                                 *)
(***************************************************************************)
LoopTop(w) ==
  /\ pc[w] = "top"
  /\ Join(w, FinishedTasks(w))
  /\ Goto(w, IF Free(w, tasks'[w]) > 0 THEN "claiming" ELSE "select")
  /\ UNCHANGED <<lifecycleVars, batch, shutdown, processed, lost_claims, abandoned,
                 spawned, late, handled, faults>>

(***************************************************************************)
(* The database executes a claim of w for at most n rows.  Which claimable *)
(* rows it gets is left open: the oldest ones, but for those another       *)
(* statement has locked.                                                   *)
(***************************************************************************)
ExecuteClaim(w, n, got) ==
  /\ Cardinality(got) <= n
  /\ Claim(w, got, FALSE)

ClaimExecutes(w, got) ==
  /\ pc[w] = "claiming"
  /\ ExecuteClaim(w, Free(w, tasks[w]), got)
  /\ batch' = [batch EXCEPT ![w] = {<<e, delivery_attempts'[e]>> : e \in got}]
  /\ Goto(w, "claimed")
  /\ UNCHANGED <<tasks, shutdown, counters, late, handled, faults>>

(***************************************************************************)
(* The claim returns Ok: one task per claimed event.                       *)
(***************************************************************************)
ClaimReturns(w) ==
  /\ pc[w] = "claimed"
  /\ tasks' = [tasks EXCEPT ![w] = @ \cup
                 {[event |-> c[1], attempt |-> c[2], stage |-> "processing"] : c \in batch[w]}]
  /\ spawned' = Count(spawned, w, Cardinality(batch[w]))
  /\ batch' = [batch EXCEPT ![w] = {}]
  /\ Goto(w, "select")
  /\ UNCHANGED <<lifecycleVars, shutdown, processed, failed, lost_claims, abandoned,
                 late, handled, faults>>

(***************************************************************************)
(* The claim returns Err: the database is unavailable, the statement was   *)
(* cut off, or it was executed and its rows did not come back (a lost      *)
(* answer, a row that does not convert).  There is no retry before the     *)
(* next turn of the loop, and no compensation for rows already claimed.    *)
(***************************************************************************)
ClaimFails(w) ==
  /\ pc[w] \in {"claiming", "claimed"}
  /\ Fault
  /\ lateClaims' = lateClaims \cup
       IF pc[w] = "claiming" THEN {<<w, Free(w, tasks[w]), faults>>} ELSE {}
  /\ batch' = [batch EXCEPT ![w] = {}]
  /\ Goto(w, "select")
  /\ UNCHANGED <<lifecycleVars, tasks, shutdown, counters, lateCompletes, handled>>

(***************************************************************************)
(* The biased select: shutdown first, then a finished task, then the poll  *)
(* interval, which is armed only while a slot is free.                     *)
(***************************************************************************)
SelectShutdown(w) ==
  /\ pc[w] = "select"
  /\ shutdown[w]
  /\ Goto(w, "draining")
  /\ UNCHANGED <<lifecycleVars, tasks, batch, shutdown, counters, late, handled, faults>>

SelectJoin(w, t) ==
  /\ pc[w] = "select"
  /\ ~shutdown[w]
  /\ t \in FinishedTasks(w)
  /\ Join(w, {t})
  /\ Goto(w, "top")
  /\ UNCHANGED <<lifecycleVars, batch, shutdown, processed, lost_claims, abandoned,
                 spawned, late, handled, faults>>

SelectPoll(w) ==
  /\ pc[w] = "select"
  /\ ~shutdown[w]
  /\ FinishedTasks(w) = {}
  /\ Free(w, tasks[w]) > 0
  /\ Goto(w, "top")
  /\ UNCHANGED <<lifecycleVars, tasks, batch, shutdown, counters, late, handled, faults>>

---------------------------------------------------------------------------
(* A task: process_claim.                                                  *)

Becomes(w, t, stage) ==
  tasks' = [tasks EXCEPT ![w] = (@ \ {t}) \cup {[t EXCEPT !.stage = stage]}]

ProcessOk(w, t) ==
  /\ t \in tasks[w] /\ t.stage = "processing"
  /\ Becomes(w, t, "completing")
  /\ handled' = handled \cup {t.event}
  /\ UNCHANGED <<lifecycleVars, pc, batch, shutdown, counters, late, faults>>

(***************************************************************************)
(* Fault: the error path does not return before the completion.            *)
(***************************************************************************)
ProcessErrFallsThrough(w, t) ==
  /\ t \in tasks[w] /\ t.stage = "processing"
  /\ Fault
  /\ Becomes(w, t, "completing")
  /\ failed' = Count(failed, w, 1)
  /\ UNCHANGED <<lifecycleVars, pc, batch, shutdown, processed, lost_claims, abandoned,
                 spawned, late, handled>>

ProcessErr(w, t) ==
  /\ t \in tasks[w] /\ t.stage = "processing"
  /\ Fault
  /\ Becomes(w, t, "finished")
  /\ failed' = Count(failed, w, 1)
  /\ UNCHANGED <<lifecycleVars, pc, batch, shutdown, processed, lost_claims, abandoned,
                 spawned, late, handled>>

ProcessPanic(w, t) ==
  /\ t \in tasks[w] /\ t.stage = "processing"
  /\ Fault
  /\ Becomes(w, t, "panicked")
  /\ UNCHANGED <<lifecycleVars, pc, batch, shutdown, counters, late, handled>>

(***************************************************************************)
(* The database executes a completion: the owner check decides.            *)
(***************************************************************************)
ExecuteComplete(w, e) ==
  IF Owns(w, e) THEN Complete(w, e) ELSE UNCHANGED lifecycleVars

CompleteExecutes(w, t) ==
  /\ t \in tasks[w] /\ t.stage = "completing"
  /\ ExecuteComplete(w, t.event)
  /\ Becomes(w, t, IF Owns(w, t.event) THEN "done" ELSE "lost")
  /\ UNCHANGED <<pc, batch, shutdown, counters, late, handled, faults>>

CompleteReturns(w, t) ==
  /\ t \in tasks[w] /\ t.stage \in {"done", "lost"}
  /\ Becomes(w, t, "finished")
  /\ processed' = Count(processed, w, IF t.stage = "done" THEN 1 ELSE 0)
  /\ lost_claims' = Count(lost_claims, w, IF t.stage = "lost" THEN 1 ELSE 0)
  /\ UNCHANGED <<lifecycleVars, pc, batch, shutdown, failed, abandoned, spawned, late,
                 handled, faults>>

(***************************************************************************)
(* store.complete returns Err, before or after the database executed it.   *)
(***************************************************************************)
CompleteFails(w, t) ==
  /\ t \in tasks[w] /\ t.stage \in {"completing", "done", "lost"}
  /\ Fault
  /\ Becomes(w, t, "finished")
  /\ failed' = Count(failed, w, 1)
  /\ lateCompletes' = lateCompletes \cup
       IF t.stage = "completing" THEN {<<w, t.event>>} ELSE {}
  /\ UNCHANGED <<lifecycleVars, pc, batch, shutdown, processed, lost_claims, abandoned,
                 spawned, lateClaims, handled>>

---------------------------------------------------------------------------
(* Shutdown and crash.                                                     *)

Signal(w) ==
  /\ w \in Mortal
  /\ pc[w] \in Running /\ ~shutdown[w]
  /\ shutdown' = [shutdown EXCEPT ![w] = TRUE]
  /\ UNCHANGED <<lifecycleVars, pc, tasks, batch, counters, late, handled, faults>>

DrainJoin(w, t) ==
  /\ pc[w] = "draining"
  /\ t \in FinishedTasks(w)
  /\ Join(w, {t})
  /\ UNCHANGED <<lifecycleVars, pc, batch, shutdown, processed, lost_claims, abandoned,
                 spawned, late, handled, faults>>

DrainDone(w) ==
  /\ pc[w] = "draining"
  /\ tasks[w] = {}
  /\ Goto(w, "stopped")
  /\ UNCHANGED <<lifecycleVars, tasks, batch, shutdown, counters, late, handled, faults>>

(***************************************************************************)
(* Fault: the drain waits for its tasks without a deadline.                *)
(***************************************************************************)
DrainForever(w) == FALSE

(***************************************************************************)
(* shutdown_timeout passes.  The drain is polled once more before the      *)
(* deadline is, so no finished task is left unjoined at this moment.       *)
(***************************************************************************)
DrainTimeout(w) ==
  /\ pc[w] = "draining"
  /\ tasks[w] # {} /\ FinishedTasks(w) = {}
  /\ abandoned' = [abandoned EXCEPT ![w] = Cardinality(tasks[w])]
  /\ Goto(w, "aborting")
  /\ UNCHANGED <<lifecycleVars, tasks, batch, shutdown, processed, failed, lost_claims,
                 spawned, late, handled, faults>>

InFlight(w, ended) == {<<w, t.event>> : t \in {u \in ended : u.stage = "completing"}}

(***************************************************************************)
(* tasks.shutdown(): each task is dropped at the await it has reached,     *)
(* which for one that is over already means only that it is collected.     *)
(* The join results are not looked at.                                     *)
(***************************************************************************)
AbortTask(w, t) ==
  /\ pc[w] = "aborting"
  /\ t \in tasks[w]
  /\ tasks' = [tasks EXCEPT ![w] = @ \ {t}]
  /\ lateCompletes' = lateCompletes \cup InFlight(w, {t})
  /\ UNCHANGED <<lifecycleVars, pc, batch, shutdown, counters, lateClaims, handled, faults>>

AbortDone(w) ==
  /\ pc[w] = "aborting"
  /\ tasks[w] = {}
  /\ Goto(w, "stopped")
  /\ UNCHANGED <<lifecycleVars, tasks, batch, shutdown, counters, late, handled, faults>>

(***************************************************************************)
(* The process dies.  Its memory is gone; its statements may be executed.  *)
(***************************************************************************)
Crash(w) ==
  /\ w \in Mortal
  /\ pc[w] \in Running
  /\ Goto(w, "crashed")
  /\ tasks' = [tasks EXCEPT ![w] = {}]
  /\ batch' = [batch EXCEPT ![w] = {}]
  /\ lateClaims' = lateClaims \cup
       IF pc[w] = "claiming" THEN {<<w, Free(w, tasks[w]), faults>>} ELSE {}
  /\ lateCompletes' = lateCompletes \cup InFlight(w, tasks[w])
  /\ UNCHANGED <<lifecycleVars, shutdown, counters, handled, faults>>

---------------------------------------------------------------------------
(* The database and the clients.                                           *)

(***************************************************************************)
(* A statement whose sender no longer waits for it is executed, or not.    *)
(***************************************************************************)
LateClaimExecutes(c, got) ==
  /\ c \in lateClaims
  /\ ExecuteClaim(c[1], c[2], got)
  /\ lateClaims' = lateClaims \ {c}
  /\ UNCHANGED <<pc, tasks, batch, shutdown, counters, lateCompletes, handled, faults>>

LateCompleteExecutes(c) ==
  /\ c \in lateCompletes
  /\ ExecuteComplete(c[1], c[2])
  /\ lateCompletes' = lateCompletes \ {c}
  /\ UNCHANGED <<pc, tasks, batch, shutdown, counters, lateClaims, handled, faults>>

LateDropped ==
  /\ \/ /\ \E c \in lateClaims : lateClaims' = lateClaims \ {c}
        /\ UNCHANGED lateCompletes
     \/ /\ \E c \in lateCompletes : lateCompletes' = lateCompletes \ {c}
        /\ UNCHANGED lateClaims
  /\ UNCHANGED <<lifecycleVars, pc, tasks, batch, shutdown, counters, handled, faults>>

(***************************************************************************)
(* The current claim of e is still worked on, or its answer on the way.    *)
(***************************************************************************)
WorkedOn(e) ==
  \E w \in Worker :
    \/ <<e, delivery_attempts[e]>> \in batch[w]
    \/ \E t \in tasks[w] : /\ t.event = e
                           /\ t.attempt = delivery_attempts[e]
                           /\ t.stage \notin Finished

LeaseLapses(e) ==
  /\ ~lease_lapsed[e]
  /\ LeasesLapse({e})
  /\ IF WorkedOn(e) THEN Fault ELSE UNCHANGED faults
  /\ UNCHANGED <<pc, tasks, batch, shutdown, counters, late, handled>>

EventAdmitted(e) ==
  /\ Admit(e)
  /\ UNCHANGED <<pc, tasks, batch, shutdown, counters, late, handled, faults>>

LoopStep(w) ==
  \/ Start(w)
  \/ LoopTop(w)
  \/ \E got \in SUBSET Event : ClaimExecutes(w, got)
  \/ ClaimReturns(w)
  \/ ClaimFails(w)
  \/ SelectShutdown(w)
  \/ \E t \in tasks[w] : SelectJoin(w, t)
  \/ SelectPoll(w)

TaskStep(w, t) ==
  \/ ProcessOk(w, t)
  \/ ProcessErr(w, t)
  \/ ProcessPanic(w, t)
  \/ CompleteExecutes(w, t)
  \/ CompleteReturns(w, t)
  \/ CompleteFails(w, t)

ShutdownStep(w) ==
  \/ Signal(w)
  \/ \E t \in tasks[w] : DrainJoin(w, t)
  \/ DrainDone(w)
  \/ DrainTimeout(w)
  \/ \E t \in tasks[w] : AbortTask(w, t)
  \/ AbortDone(w)
  \/ Crash(w)

DatabaseStep ==
  \/ \E c \in lateClaims, got \in SUBSET Event : LateClaimExecutes(c, got)
  \/ \E c \in lateCompletes : LateCompleteExecutes(c)
  \/ LateDropped
  \/ \E e \in Event : LeaseLapses(e) \/ EventAdmitted(e)

Next ==
  \/ \E w \in Worker : LoopStep(w) \/ ShutdownStep(w) \/ \E t \in tasks[w] : TaskStep(w, t)
  \/ DatabaseStep

Spec == Init /\ [][Next]_vars

(***************************************************************************)
(* What the tokio runtime and the database keep doing.  Every await of a   *)
(* worker but processor.process comes to an end: claim and complete by the *)
(* acquire and statement timeouts, the drain by shutdown_timeout.  A claim *)
(* that finds rows to take does not come back empty for ever: a row is     *)
(* passed over only while another statement has it locked, and locks end   *)
(* with their statement.  Leases nobody works under run out.               *)
(***************************************************************************)
RuntimeFairness ==
  /\ \A w \in Worker :
       /\ WF_vars(Start(w) \/ LoopTop(w) \/ ClaimReturns(w) \/ SelectPoll(w)
                    \/ SelectShutdown(w) \/ DrainDone(w) \/ DrainTimeout(w) \/ AbortDone(w))
       /\ WF_vars(\E t \in tasks[w] : SelectJoin(w, t) \/ DrainJoin(w, t) \/ AbortTask(w, t))
       /\ WF_vars(\E got \in SUBSET Event : ClaimExecutes(w, got))
       /\ SF_vars(\E got \in SUBSET Event \ {{}} : ClaimExecutes(w, got))
       /\ WF_vars(\E t \in tasks[w] : CompleteExecutes(w, t) \/ CompleteReturns(w, t))
  /\ \A e \in Event : WF_vars(LeaseLapses(e) /\ ~WorkedOn(e))

(***************************************************************************)
(* The processor returns.                                                  *)
(***************************************************************************)
ProcessorFairness == \A w \in Worker : WF_vars(\E t \in tasks[w] : ProcessOk(w, t))

FairSpec == Spec /\ RuntimeFairness

---------------------------------------------------------------------------
(***************************************************************************)
(* A worker never holds more live tasks and unanswered claims than         *)
(* `concurrency`, whatever fails: slots are counted before the claim, and  *)
(* the claim is answered after other tasks may have come and gone.         *)
(***************************************************************************)
CapacityBound ==
  \A w \in Worker : Cardinality(tasks[w]) + Cardinality(batch[w]) <= Concurrency

(***************************************************************************)
(* Every delivery attempt of an event is worked on by one task of one      *)
(* worker: two workers, or two slots of one worker, can hold the same      *)
(* event only under different attempts.                                    *)
(***************************************************************************)
AttemptsExclusive ==
  \A v, w \in Worker : \A t \in tasks[v], u \in tasks[w] :
    t.event = u.event /\ t.attempt = u.attempt => v = w /\ t = u

(***************************************************************************)
(* The worker of an event's latest attempt owns the row for as long as the *)
(* row is PROCESSING: no completion of an earlier attempt by some other    *)
(* worker, and no late statement, takes it away behind its back.           *)
(***************************************************************************)
LatestAttemptOwns ==
  \A w \in Worker : \A t \in tasks[w] :
    /\ t.attempt <= delivery_attempts[t.event]
    /\ t.attempt = delivery_attempts[t.event] /\ status[t.event] = "PROCESSING" =>
         processing_owner[t.event] = w

(***************************************************************************)
(* At least once: an event is PROCESSED only if the processor returned Ok  *)
(* for it on some attempt.                                                 *)
(***************************************************************************)
ProcessedWasHandled ==
  \A e \in Event : status[e] = "PROCESSED" => e \in handled

(***************************************************************************)
(* The workers' reports never count an event as processed twice, although  *)
(* several of them may have run it to the end: what they count can be      *)
(* shared out among the PROCESSED events, one for each.                    *)
(***************************************************************************)
CountedOnce ==
  \E counter \in [Event -> Worker \cup {NoOwner}] :
    /\ \A e \in Event : counter[e] # NoOwner => status[e] = "PROCESSED"
    /\ \A w \in Worker : processed[w] = Cardinality({e \in Event : counter[e] = w})

(***************************************************************************)
(* When `run` returns, its report accounts for every claim it spawned:     *)
(* each one exactly once after a complete drain, and none is missing after *)
(* one that timed out.                                                     *)
(***************************************************************************)
ReportAccounts ==
  \A w \in Worker : pc[w] = "stopped" =>
    LET settled == processed[w] + failed[w] + lost_claims[w] IN
    IF abandoned[w] = 0 THEN settled = spawned[w]
                        ELSE settled + abandoned[w] >= spawned[w]

(***************************************************************************)
(* Every admitted event is processed in the end, as long as processors     *)
(* return, one worker stays up and faults stop: crashed and aborted        *)
(* workers, lost answers and failed attempts only delay it until the lease *)
(* lapses.                                                                 *)
(***************************************************************************)
EventuallyProcessed ==
  ProcessorFairness => \A e \in Event : status[e] = "PENDING" ~> status[e] = "PROCESSED"

(***************************************************************************)
(* A worker that is told to shut down does stop, even if a processor never *)
(* returns and the signal arrives in the middle of a claim.                *)
(***************************************************************************)
ShutdownCompletes ==
  \A w \in Worker : shutdown[w] ~> pc[w] \in {"stopped", "crashed"}

---------------------------------------------------------------------------
(* What a comment of runtime.rs says and the code does not keep.           *)

(***************************************************************************)
(* The module comment: "claimed-but-unfinished events and live tasks never *)
(* exceed `concurrency`".  Live tasks do not (CapacityBound), but a failed *)
(* task leaves its row PROCESSING under this worker and frees its slot for *)
(* another claim.                                                          *)
(***************************************************************************)
ClaimedWithinConcurrency ==
  \A w \in Worker : Cardinality({e \in Event : Owns(w, e)}) <= Concurrency
===========================================================================
