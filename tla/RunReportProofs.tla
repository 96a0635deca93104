-------------------------- MODULE RunReportProofs --------------------------
(***************************************************************************)
(* Proofs that the RunReport of a worker accounts for every claim it has   *)
(* spawned and that the runtime keeps its types, for any events, workers,  *)
(* concurrency and number of faults.                                       *)
(***************************************************************************)
EXTENDS WorkerRuntimeProofs

CounterTypes ==
  /\ pc \in [Worker -> Running \cup {"off", "stopped", "crashed"}]
  /\ processed \in [Worker -> Nat] /\ failed \in [Worker -> Nat]
  /\ lost_claims \in [Worker -> Nat] /\ abandoned \in [Worker -> Nat]
  /\ spawned \in [Worker -> Nat]

(***************************************************************************)
(* The tasks of w that no counter has counted yet.                         *)
(***************************************************************************)
Uncounted(w) == {t \in tasks[w] : t.stage # "finished"}

Counted(w) == processed[w] + failed[w] + lost_claims[w]

(***************************************************************************)
(* Until the drain times out, every spawned claim is counted or one of the *)
(* uncounted tasks; from then on abandoned stands in for the tasks.        *)
(***************************************************************************)
Balanced(w) ==
  /\ pc[w] \notin {"aborting", "stopped", "crashed"} =>
       abandoned[w] = 0 /\ Counted(w) + Cardinality(Uncounted(w)) = spawned[w]
  /\ pc[w] = "aborting" => abandoned[w] > 0 /\ Counted(w) + abandoned[w] >= spawned[w]
  /\ pc[w] = "stopped" =>
       /\ tasks[w] = {}
       /\ abandoned[w] = 0 => Counted(w) = spawned[w]
       /\ abandoned[w] # 0 => Counted(w) + abandoned[w] >= spawned[w]

ReportInv == CounterTypes /\ \A w \in Worker : Balanced(w)

SameAt(w) ==
  /\ pc'[w] = pc[w] /\ tasks'[w] = tasks[w]
  /\ processed'[w] = processed[w] /\ failed'[w] = failed[w]
  /\ lost_claims'[w] = lost_claims[w] /\ abandoned'[w] = abandoned[w]
  /\ spawned'[w] = spawned[w]

(***************************************************************************)
(* A worker's step leaves the tasks and the report of the others alone.    *)
(***************************************************************************)
LEMMA OthersUntouched ==
  ASSUME RuntimeTypes, CounterTypes, NEW v \in Worker, NEW w \in Worker \ {v},
         \/ LoopStep(w)
         \/ ShutdownStep(w)
         \/ \E t \in tasks[w] : TaskStep(w, t)
  PROVE  SameAt(v)
<1> USE DEF RuntimeTypes, CounterTypes, SameAt, counters, Goto, Count
<1>1. CASE LoopStep(w)
  BY <1>1, ZenonT(30) DEF LoopStep, Start, LoopTop, Join, ClaimExecutes, ClaimReturns, ClaimFails,
              SelectShutdown, SelectJoin, SelectPoll
<1>2. CASE ShutdownStep(w)
  BY <1>2, ZenonT(30) DEF ShutdownStep, Signal, DrainJoin, Join, DrainDone, DrainTimeout, AbortTask,
              AbortDone, Crash
<1>3. ASSUME NEW t \in tasks[w], TaskStep(w, t)
      PROVE  SameAt(v)
  BY <1>3, SMTT(30) DEF TaskStep, ProcessOk, ProcessErr, ProcessPanic, CompleteExecutes,
              CompleteReturns, CompleteFails, Becomes
<1>4. QED
  BY <1>1, <1>2, <1>3

(***************************************************************************)
(* The runtime's steps keep the types of the program counters and reports. *)
(***************************************************************************)
LEMMA CounterTypesStep ==
  ASSUME RuntimeInv, CounterTypes, [Next]_vars
  PROVE  CounterTypes'
<1> USE DEF CounterTypes, counters, Goto, Count, Running
<1>1. ASSUME NEW w \in Worker, NEW S \in SUBSET tasks[w]
      PROVE  Cardinality(S) \in Nat
  BY FS_Subset, FS_CardinalityType DEF RuntimeInv, SlotsSuffice
<1>2. ASSUME NEW w \in Worker, NEW joined \in SUBSET tasks[w], Join(w, joined)
      PROVE  failed' \in [Worker -> Nat]
  <2>1. Cardinality({t \in joined : t.stage = "panicked"}) \in Nat
    BY <1>1
  <2>2. QED
    BY <1>2, <2>1 DEF Join
<1>3. ASSUME NEW w \in Worker, LoopStep(w)
      PROVE  CounterTypes'
  <2>1. CASE LoopTop(w)
    <3>1. failed' \in [Worker -> Nat]
      BY <1>2, <2>1 DEF LoopTop, FinishedTasks
    <3>2. QED
      BY <2>1, <3>1, Zenon DEF LoopTop
  <2>2. ASSUME NEW t \in tasks[w], SelectJoin(w, t)
        PROVE  CounterTypes'
    <3>1. failed' \in [Worker -> Nat]
      BY <1>2, <2>2, {t} \in SUBSET tasks[w] DEF SelectJoin
    <3>2. QED
      BY <2>2, <3>1, Zenon DEF SelectJoin
  <2>3. CASE ClaimReturns(w)
    <3>1. Cardinality(batch[w]) \in Nat
      BY FS_CardinalityType DEF RuntimeInv, SlotsSuffice
    <3>2. QED
      BY <2>3, <3>1 DEF ClaimReturns
  <2>4. QED
    BY <1>3, <2>1, <2>2, <2>3
       DEF LoopStep, Start, ClaimExecutes, ClaimFails, SelectShutdown, SelectPoll
<1>4. ASSUME NEW w \in Worker, ShutdownStep(w)
      PROVE  CounterTypes'
  <2>1. ASSUME NEW t \in tasks[w], DrainJoin(w, t)
        PROVE  CounterTypes'
    <3>1. failed' \in [Worker -> Nat]
      BY <1>2, <2>1, {t} \in SUBSET tasks[w] DEF DrainJoin
    <3>2. QED
      BY <2>1, <3>1 DEF DrainJoin
  <2>2. CASE DrainTimeout(w)
    BY <1>1, <2>2, ZenonT(30) DEF DrainTimeout
  <2>3. QED
    BY <1>4, <2>1, <2>2, Zenon DEF ShutdownStep, Signal, DrainDone, AbortTask, AbortDone, Crash
<1>5. ASSUME NEW w \in Worker, NEW t \in tasks[w], TaskStep(w, t)
      PROVE  CounterTypes'
  BY <1>5 DEF TaskStep, ProcessOk, ProcessErr, ProcessPanic, CompleteExecutes,
              CompleteReturns, CompleteFails
<1>6. CASE DatabaseStep \/ UNCHANGED vars
  BY <1>6, Zenon DEF DatabaseStep, LateClaimExecutes, LateCompleteExecutes, LateDropped,
              LeaseLapses, EventAdmitted, vars
<1>7. QED
  BY <1>3, <1>4, <1>5, <1>6 DEF Next

(***************************************************************************)
(* What a worker's report says stays true while nothing happens to it.     *)
(***************************************************************************)
LEMMA SameBalanced ==
  ASSUME NEW w \in Worker, Balanced(w), SameAt(w)
  PROVE  Balanced(w)'
<1>1. Uncounted(w)' = Uncounted(w) /\ Counted(w)' = Counted(w)
  BY DEF SameAt, Uncounted, Counted
<1>2. QED
  BY <1>1 DEF SameAt, Balanced

(***************************************************************************)
(* Uncounted tasks can be counted.                                         *)
(***************************************************************************)
LEMMA UncountedFinite ==
  ASSUME RuntimeInv, NEW w \in Worker
  PROVE  IsFiniteSet(Uncounted(w)) /\ Cardinality(Uncounted(w)) \in Nat
<1>1. IsFiniteSet(tasks[w]) /\ Uncounted(w) \in SUBSET tasks[w]
  BY DEF RuntimeInv, SlotsSuffice, Uncounted
<1>2. QED
  BY <1>1, FS_Subset, FS_CardinalityType

(***************************************************************************)
(* A task that moves on leaves the uncounted ones when it is finished, and *)
(* is one of them otherwise.                                               *)
(***************************************************************************)
LEMMA UncountedMoves ==
  ASSUME RuntimeInv, NEW w \in Worker, NEW t \in tasks[w], t.stage # "finished",
         NEW stage \in Stage, Becomes(w, t, stage)
  PROVE  Cardinality(Uncounted(w)') =
           Cardinality(Uncounted(w)) - IF stage = "finished" THEN 1 ELSE 0
<1> DEFINE next == [t EXCEPT !.stage = stage]
           U == Uncounted(w)
<1>1. next.stage = stage /\ ClaimOf(next) = ClaimOf(t)
  BY TaskKept DEF RuntimeInv, RuntimeTypes
<1>2. tasks'[w] = (tasks[w] \ {t}) \cup {next}
  BY DEF Becomes, RuntimeInv, RuntimeTypes
<1> HIDE DEF next
<1>3. t \in U /\ IsFiniteSet(U) /\ Cardinality(U) \in Nat
  BY UncountedFinite DEF Uncounted
<1>4. IsFiniteSet(U \ {t}) /\ Cardinality(U \ {t}) = Cardinality(U) - 1
  BY <1>3, FS_RemoveElement
<1>5. CASE stage = "finished"
  <2>1. Uncounted(w)' = U \ {t}
    BY <1>1, <1>2, <1>5 DEF Uncounted
  <2>2. QED
    BY <1>4, <1>5, <2>1
<1>6. CASE stage # "finished"
  <2>1. Uncounted(w)' = (U \ {t}) \cup {next}
    BY <1>1, <1>2, <1>6 DEF Uncounted
  <2>2. next \notin U \ {t}
    BY <1>1 DEF Uncounted, RuntimeInv, ClaimsExclusive
  <2> HIDE DEF U
  <2>3. Cardinality((U \ {t}) \cup {next}) = Cardinality(U \ {t}) + 1
    BY <1>4, <2>2, FS_AddElement, ZenonT(30)
  <2>4. QED
    BY <1>3, <1>4, <1>6, <2>1, <2>3 DEF U
<1>7. QED
  BY <1>5, <1>6

(***************************************************************************)
(* A step of process_claim counts its task when it finishes it, once.      *)
(***************************************************************************)
LEMMA TaskBalanced ==
  ASSUME RuntimeInv, ReportInv, NEW w \in Worker, NEW t \in tasks[w], TaskStep(w, t)
  PROVE  Balanced(w)'
<1> DEFINE U == Cardinality(Uncounted(w))
<1>1. /\ U \in Nat
      /\ processed[w] \in Nat /\ failed[w] \in Nat /\ lost_claims[w] \in Nat
      /\ abandoned[w] \in Nat /\ spawned[w] \in Nat
  BY UncountedFinite, ZenonT(30) DEF ReportInv, CounterTypes
<1>2. /\ pc'[w] = pc[w] /\ pc[w] # "stopped"
      /\ abandoned'[w] = abandoned[w] /\ spawned'[w] = spawned[w]
  BY DEF TaskStep, ProcessOk, ProcessErr, ProcessPanic, CompleteExecutes,
         CompleteReturns, CompleteFails, counters, ReportInv, Balanced
<1> DEFINE U1 == Cardinality(Uncounted(w)')
<1>3. \/ U1 = U /\ Counted(w)' = Counted(w)
      \/ U1 = U - 1 /\ Counted(w)' = Counted(w) + 1
  <2> USE DEF Counted, Stage, Finished, Count, counters, ReportInv, CounterTypes
  <2>1. CASE ProcessOk(w, t)
    <3>1. U1 = U
      BY <1>1, <2>1, UncountedMoves, SMTT(30) DEF ProcessOk
    <3>2. QED
      BY <2>1, <3>1 DEF ProcessOk
  <2>2. CASE ProcessErr(w, t)
    <3>1. U1 = U - 1
      BY <1>1, <2>2, UncountedMoves DEF ProcessErr
    <3>2. QED
      BY <1>1, <2>2, <3>1 DEF ProcessErr
  <2>3. CASE ProcessPanic(w, t)
    <3>1. U1 = U
      BY <1>1, <2>3, UncountedMoves DEF ProcessPanic
    <3>2. QED
      BY <2>3, <3>1 DEF ProcessPanic
  <2>4. CASE CompleteExecutes(w, t)
    <3>1. U1 = U
      BY <1>1, <2>4, UncountedMoves DEF CompleteExecutes
    <3>2. QED
      BY <2>4, <3>1 DEF CompleteExecutes
  <2>5. CASE CompleteReturns(w, t)
    <3>1. U1 = U - 1
      BY <1>1, <2>5, UncountedMoves DEF CompleteReturns
    <3>2. QED
      BY <1>1, <2>5, <3>1 DEF CompleteReturns
  <2>6. CASE CompleteFails(w, t)
    <3>1. U1 = U - 1
      BY <1>1, <2>6, UncountedMoves DEF CompleteFails
    <3>2. QED
      BY <1>1, <2>6, <3>1 DEF CompleteFails
  <2>7. QED
    BY <2>1, <2>2, <2>3, <2>4, <2>5, <2>6, ZenonT(30) DEF TaskStep
<1>4. Counted(w) \in Nat
  BY <1>1 DEF Counted
<1>5. Balanced(w)
  BY DEF ReportInv
<1> HIDE DEF U, U1
<1>6. QED
  BY <1>1, <1>2, <1>3, <1>4, <1>5 DEF Balanced, U, U1

(***************************************************************************)
(* record_join counts the panicked tasks it takes out of the JoinSet, and  *)
(* no others.                                                              *)
(***************************************************************************)
LEMMA JoinCounts ==
  ASSUME RuntimeInv, ReportInv, NEW w \in Worker, NEW joined \in SUBSET FinishedTasks(w),
         Join(w, joined)
  PROVE  /\ Cardinality(Uncounted(w)') \in Nat
         /\ failed'[w] + Cardinality(Uncounted(w)') = failed[w] + Cardinality(Uncounted(w))
         /\ failed'[w] \in Nat
<1> DEFINE U == Uncounted(w)
           P == {t \in joined : t.stage = "panicked"}
<1>1. tasks'[w] = tasks[w] \ joined /\ failed'[w] = failed[w] + Cardinality(P)
  BY DEF Join, Count, RuntimeInv, RuntimeTypes, ReportInv, CounterTypes
<1>2. P \in SUBSET U
  BY DEF Uncounted, FinishedTasks
<1>3. Uncounted(w)' = U \ P
  BY <1>1 DEF Uncounted, FinishedTasks, Finished
<1> HIDE DEF P, U
<1>4. IsFiniteSet(U) /\ Cardinality(U) \in Nat
  BY UncountedFinite DEF U
<1>5. /\ IsFiniteSet(P) /\ Cardinality(P) \in Nat
      /\ IsFiniteSet(U \ P) /\ Cardinality(U \ P) \in Nat
  BY <1>2, <1>4, FS_Subset, FS_CardinalityType, U \ P \in SUBSET U
<1>6. Cardinality(U) = Cardinality(P) + Cardinality(U \ P)
  <2>1. Cardinality(P \cup (U \ P)) = Cardinality(P) + Cardinality(U \ P)
                                        - Cardinality(P \cap (U \ P))
    BY <1>5, FS_Union
  <2>2. P \cup (U \ P) = U /\ P \cap (U \ P) = {}
    BY <1>2
  <2>3. Cardinality(P \cup (U \ P)) = Cardinality(U) /\ Cardinality(P \cap (U \ P)) = 0
    BY <2>2, FS_EmptySet, Zenon
  <2>4. QED
    BY <1>4, <1>5, <2>1, <2>3
<1>7. failed[w] \in Nat
  BY DEF ReportInv, CounterTypes
<1>8. QED
  BY <1>1, <1>3, <1>4, <1>5, <1>6, <1>7 DEF U

(***************************************************************************)
(* The answer of a claim adds one uncounted task for each of its events.   *)
(***************************************************************************)
LEMMA SpawnCounts ==
  ASSUME RuntimeInv, ReportInv, NEW w \in Worker, ClaimReturns(w)
  PROVE  /\ Cardinality(batch[w]) \in Nat
         /\ spawned'[w] = spawned[w] + Cardinality(batch[w])
         /\ Cardinality(Uncounted(w)') = Cardinality(Uncounted(w)) + Cardinality(batch[w])
<1> DEFINE U == Uncounted(w)
           B == batch[w]
           f == [c \in B |-> [event |-> c[1], attempt |-> c[2], stage |-> "processing"]]
           N == {f[c] : c \in B}
<1>1. IsFiniteSet(B) /\ Cardinality(B) \in Nat
  BY FS_CardinalityType DEF RuntimeInv, SlotsSuffice
<1>2. spawned'[w] = spawned[w] + Cardinality(B)
  BY DEF ClaimReturns, Count, ReportInv, CounterTypes
<1>3. tasks'[w] = tasks[w] \cup N
  BY Zenon DEF ClaimReturns, RuntimeInv, RuntimeTypes
<1>4. \A t \in N : t.stage = "processing" /\ ClaimOf(t) \in B
  <2>1. \A c \in B : f[c].stage = "processing" /\ ClaimOf(f[c]) = c
    BY DEF RuntimeInv, RuntimeTypes, Claimed, ClaimOf
  <2> HIDE DEF f
  <2>2. QED
    BY <2>1
<1>5. Uncounted(w)' = U \cup N
  BY <1>3, <1>4, Zenon DEF Uncounted
<1>6. U \cap N = {}
  BY <1>4, Zenon DEF Uncounted, RuntimeInv, ClaimsExclusive
<1>7. IsFiniteSet(N) /\ Cardinality(N) = Cardinality(B)
  <2>1. f \in Surjection(B, N)
    BY Zenon DEF Surjection
  <2>2. f \in Injection(B, N)
    <3>1. \A c, d \in B : f[c] = f[d] => c = d
      BY DEF RuntimeInv, RuntimeTypes, Claimed
    <3>2. QED
      BY <3>1, Zenon DEF Injection, IsInjective
  <2>3. QED
    BY <1>1, <2>1, <2>2, FS_Surjection
<1> HIDE DEF U, N, B, f
<1>8. IsFiniteSet(U) /\ Cardinality(U) \in Nat
  BY UncountedFinite DEF U
<1>9. Cardinality(U \cup N) = Cardinality(U) + Cardinality(N) - Cardinality(U \cap N)
  BY <1>7, <1>8, FS_Union
<1>10. Cardinality(U \cap N) = 0
  BY <1>6, FS_EmptySet, Zenon
<1>11. QED
  BY <1>1, <1>2, <1>5, <1>7, <1>8, <1>9, <1>10 DEF U, B

(***************************************************************************)
(* The claim loop keeps the report in balance.                             *)
(***************************************************************************)
LEMMA LoopBalanced ==
  ASSUME RuntimeInv, ReportInv, NEW w \in Worker, LoopStep(w)
  PROVE  Balanced(w)'
<1>1. /\ Cardinality(Uncounted(w)) \in Nat
      /\ processed[w] \in Nat /\ failed[w] \in Nat /\ lost_claims[w] \in Nat
      /\ spawned[w] \in Nat
  BY UncountedFinite DEF ReportInv, CounterTypes
<1>2. pc[w] \notin {"aborting", "stopped", "crashed"}
  BY Zenon DEF LoopStep, Start, LoopTop, ClaimExecutes, ClaimReturns, ClaimFails,
         SelectShutdown, SelectJoin, SelectPoll
<1>3. pc'[w] \notin {"aborting", "stopped", "crashed"} /\ abandoned'[w] = abandoned[w]
  BY Zenon DEF LoopStep, Start, LoopTop, ClaimExecutes, ClaimReturns, ClaimFails, Goto,
         SelectShutdown, SelectJoin, SelectPoll, counters, ReportInv, CounterTypes
<1>4. /\ abandoned[w] = 0
      /\ processed[w] + failed[w] + lost_claims[w] + Cardinality(Uncounted(w)) = spawned[w]
  BY <1>2 DEF ReportInv, Balanced, Counted
<1> DEFINE Goal == processed'[w] + failed'[w] + lost_claims'[w]
                     + Cardinality(Uncounted(w)') = spawned'[w]
<1>5. ASSUME UNCHANGED <<tasks, counters>>
      PROVE  Goal
  BY <1>4, <1>5 DEF Uncounted, counters
<1>6. ASSUME NEW joined \in SUBSET FinishedTasks(w), Join(w, joined),
             UNCHANGED <<processed, lost_claims, spawned>>
      PROVE  Goal
  <2>1. /\ Cardinality(Uncounted(w)') \in Nat
        /\ failed'[w] + Cardinality(Uncounted(w)') = failed[w] + Cardinality(Uncounted(w))
        /\ failed'[w] \in Nat
    BY <1>6, JoinCounts
  <2>2. QED
    BY <1>1, <1>4, <1>6, <2>1
<1>7. ASSUME ClaimReturns(w)
      PROVE  Goal
  <2>1. UNCHANGED <<processed, failed, lost_claims>>
    BY <1>7 DEF ClaimReturns
  <2>2. QED
    BY <1>1, <1>4, <1>7, <2>1, SpawnCounts
<1>8. Goal
  <2>1. ASSUME LoopTop(w)
        PROVE  Goal
    BY <1>6, <2>1 DEF LoopTop
  <2>2. ASSUME NEW t \in tasks[w], SelectJoin(w, t)
        PROVE  Goal
    <3>1. {t} \in SUBSET FinishedTasks(w) /\ Join(w, {t})
          /\ UNCHANGED <<processed, lost_claims, spawned>>
      BY <2>2, ZenonT(30) DEF SelectJoin
    <3>2. QED
      BY <1>6, <3>1
  <2>3. \/ UNCHANGED <<tasks, counters>>
        \/ LoopTop(w)
        \/ \E t \in tasks[w] : SelectJoin(w, t)
        \/ ClaimReturns(w)
    BY ZenonT(30) DEF LoopStep, Start, ClaimExecutes, ClaimFails, SelectShutdown, SelectPoll
  <2>4. QED
    BY <1>5, <1>7, <2>1, <2>2, <2>3
<1>9. QED
  BY <1>3, <1>4, <1>8 DEF Balanced, Counted

(***************************************************************************)
(* Shutdown keeps the report in balance: what a drain that times out has   *)
(* not counted, abandoned counts.                                          *)
(***************************************************************************)
LEMMA ShutdownBalanced ==
  ASSUME RuntimeInv, ReportInv, NEW w \in Worker, ShutdownStep(w)
  PROVE  Balanced(w)'
<1>1. /\ Cardinality(Uncounted(w)) \in Nat
      /\ processed[w] \in Nat /\ failed[w] \in Nat /\ lost_claims[w] \in Nat
      /\ abandoned[w] \in Nat /\ spawned[w] \in Nat
  BY UncountedFinite DEF ReportInv, CounterTypes
<1>2. Balanced(w)
  BY DEF ReportInv
<1> USE DEF ReportInv, CounterTypes, counters, Goto
<1>3. CASE Signal(w)
  BY <1>2, <1>3, SameBalanced, ZenonT(30) DEF Signal, SameAt
<1>4. ASSUME NEW t \in tasks[w], DrainJoin(w, t)
      PROVE  Balanced(w)'
  <2>1. {t} \in SUBSET FinishedTasks(w) /\ Join(w, {t})
    BY <1>4, ZenonT(30) DEF DrainJoin
  <2>2. /\ Cardinality(Uncounted(w)') \in Nat
        /\ failed'[w] + Cardinality(Uncounted(w)') = failed[w] + Cardinality(Uncounted(w))
        /\ failed'[w] \in Nat
    BY <2>1, JoinCounts
  <2>3. /\ pc[w] = "draining" /\ pc'[w] = "draining"
        /\ UNCHANGED <<processed, lost_claims, abandoned, spawned>>
    BY <1>4, ZenonT(30) DEF DrainJoin
  <2>4. abandoned[w] = 0 /\ Counted(w) + Cardinality(Uncounted(w)) = spawned[w]
    BY <1>2, <2>3, ZenonT(30) DEF Balanced
  <2>5. Counted(w)' + Cardinality(Uncounted(w)') = spawned[w]
    BY <1>1, <2>2, <2>3, <2>4, SMTT(30) DEF Counted
  <2>6. QED
    BY <2>3, <2>4, <2>5, ZenonT(30) DEF Balanced
<1>5. CASE DrainDone(w)
  <2>1. Uncounted(w) = {} /\ Cardinality({}) = 0
    BY <1>5, FS_EmptySet, ZenonT(30) DEF DrainDone, Uncounted
  <2>2. Counted(w) = spawned[w] /\ abandoned[w] = 0
    BY <1>1, <1>2, <1>5, <2>1, SMTT(30) DEF Balanced, Counted, DrainDone
  <2>3. /\ pc'[w] = "stopped" /\ tasks'[w] = {}
        /\ Counted(w)' = Counted(w) /\ abandoned'[w] = 0 /\ spawned'[w] = spawned[w]
    BY <1>5, <2>2, ZenonT(30) DEF DrainDone, Counted
  <2>4. QED
    BY <2>2, <2>3, ZenonT(30) DEF Balanced
<1>6. CASE DrainTimeout(w)
  <2>1. Uncounted(w) = tasks[w] /\ tasks[w] # {}
    BY <1>6, ZenonT(30) DEF DrainTimeout, Uncounted, FinishedTasks, Finished
  <2>2. Cardinality(tasks[w]) # 0
    BY <2>1, FS_EmptySet DEF RuntimeInv, SlotsSuffice
  <2>3. pc[w] = "draining" /\ Counted(w) + Cardinality(tasks[w]) = spawned[w]
    BY <1>2, <1>6, <2>1 DEF Balanced, DrainTimeout
  <2>4. /\ pc'[w] = "aborting" /\ abandoned'[w] = Cardinality(tasks[w])
        /\ Counted(w)' = Counted(w) /\ spawned'[w] = spawned[w]
    BY <1>6 DEF DrainTimeout, Counted
  <2>5. QED
    BY <1>1, <2>1, <2>2, <2>3, <2>4 DEF Balanced
<1>7. ASSUME NEW t \in tasks[w], AbortTask(w, t)
      PROVE  Balanced(w)'
  BY <1>2, <1>7, ZenonT(30) DEF AbortTask, Balanced, Counted
<1>8. CASE AbortDone(w)
  BY <1>2, <1>8 DEF AbortDone, Balanced, Counted
<1>9. CASE Crash(w)
  BY <1>9 DEF Crash, Balanced
<1>10. QED
  BY <1>3, <1>4, <1>5, <1>6, <1>7, <1>8, <1>9 DEF ShutdownStep

(***************************************************************************)
(* Every step of the runtime keeps the reports balanced.                   *)
(***************************************************************************)
LEMMA ReportStep == RuntimeInv /\ ReportInv /\ [Next]_vars => ReportInv'
<1> SUFFICES ASSUME RuntimeInv, ReportInv, [Next]_vars
             PROVE  ReportInv'
  OBVIOUS
<1>1. CounterTypes'
  BY CounterTypesStep DEF ReportInv
<1>2. ASSUME NEW v \in Worker
      PROVE  Balanced(v)'
  <2>1. Balanced(v) /\ RuntimeTypes /\ CounterTypes
    BY DEF ReportInv, RuntimeInv
  <2>2. ASSUME NEW w \in Worker, LoopStep(w)
        PROVE  Balanced(v)'
    <3>1. CASE v = w
      BY <2>2, <3>1, LoopBalanced
    <3>2. CASE v # w
      <4>1. SameAt(v)
        BY <2>1, <2>2, <3>2, OthersUntouched, ZenonT(30)
      <4>2. QED
        BY <2>1, <4>1, SameBalanced
    <3>3. QED
      BY <3>1, <3>2
  <2>3. ASSUME NEW w \in Worker, ShutdownStep(w)
        PROVE  Balanced(v)'
    <3>1. CASE v = w
      BY <2>3, <3>1, ShutdownBalanced
    <3>2. CASE v # w
      <4>1. SameAt(v)
        BY <2>1, <2>3, <3>2, OthersUntouched
      <4>2. QED
        BY <2>1, <4>1, SameBalanced
    <3>3. QED
      BY <3>1, <3>2
  <2>4. ASSUME NEW w \in Worker, NEW t \in tasks[w], TaskStep(w, t)
        PROVE  Balanced(v)'
    <3>1. CASE v = w
      BY <2>4, <3>1, TaskBalanced
    <3>2. CASE v # w
      <4>1. SameAt(v)
        BY <2>1, <2>4, <3>2, OthersUntouched
      <4>2. QED
        BY <2>1, <4>1, SameBalanced
    <3>3. QED
      BY <3>1, <3>2
  <2>5. CASE DatabaseStep \/ UNCHANGED vars
    <3>1. SameAt(v)
      BY <2>5, Zenon DEF DatabaseStep, LateClaimExecutes, LateCompleteExecutes, LateDropped,
                  LeaseLapses, EventAdmitted, vars, counters, SameAt
    <3>2. QED
      BY <2>1, <3>1, SameBalanced
  <2>6. QED
    BY <2>2, <2>3, <2>4, <2>5 DEF Next
<1>3. QED
  BY <1>1, <1>2 DEF ReportInv

(***************************************************************************)
(* The reports start at zero.                                              *)
(***************************************************************************)
LEMMA ReportInvInit == Init => ReportInv
<1> SUFFICES ASSUME Init
             PROVE  ReportInv
  OBVIOUS
<1>1. CounterTypes
  BY DEF Init, CounterTypes
<1>2. ASSUME NEW w \in Worker
      PROVE  Balanced(w)
  <2>1. Uncounted(w) = {} /\ Cardinality({}) = 0
    BY FS_EmptySet DEF Init, Uncounted
  <2>2. /\ pc[w] = "off" /\ abandoned[w] = 0 /\ spawned[w] = 0
        /\ processed[w] = 0 /\ failed[w] = 0 /\ lost_claims[w] = 0
    BY DEF Init
  <2>3. QED
    BY <2>1, <2>2 DEF Balanced, Counted
<1>3. QED
  BY <1>1, <1>2 DEF ReportInv

(***************************************************************************)
(* ReportInv holds in every state: the RunReport of each worker accounts   *)
(* for what it has spawned at every step, also before it is returned.      *)
(***************************************************************************)
THEOREM ReportInvariant == Spec => []ReportInv
BY ReportInvInit, ReportStep, RuntimeInvariant, PTL DEF Spec

(***************************************************************************)
(* What ReportInv says when `run` has returned.                            *)
(***************************************************************************)
LEMMA ReportInvAccounts == ReportInv => ReportAccounts
<1> SUFFICES ASSUME ReportInv, NEW w \in Worker, pc[w] = "stopped"
             PROVE  IF abandoned[w] = 0
                    THEN processed[w] + failed[w] + lost_claims[w] = spawned[w]
                    ELSE processed[w] + failed[w] + lost_claims[w] + abandoned[w]
                           >= spawned[w]
  BY DEF ReportAccounts
<1>1. QED
  BY DEF ReportInv, Balanced, Counted

(***************************************************************************)
(* The report `run` returns accounts for every claim it spawned, for any   *)
(* concurrency and number of failures.                                     *)
(***************************************************************************)
THEOREM RuntimeReportAccounts == Spec => []ReportAccounts
BY ReportInvariant, ReportInvAccounts, PTL

---------------------------------------------------------------------------
(***************************************************************************)
(* The rest of the types.  That a claim in flight asks for at least one    *)
(* event (the type of lateClaims) rests on the guard of the claim: `run`   *)
(* claims only with a slot free, and no task is added before the claim is  *)
(* answered.                                                               *)
(***************************************************************************)
ClaimingHasSlot ==
  \A w \in Worker : pc[w] = "claiming" => Cardinality(tasks[w]) < Concurrency

RestTypes ==
  /\ shutdown \in [Worker -> BOOLEAN]
  /\ handled \subseteq Event
  /\ faults \in 0 .. MaxFaults
  /\ lateClaims \subseteq Worker \X (1 .. Concurrency) \X (0 .. MaxFaults)

(***************************************************************************)
(* A task that moves on takes no further slot.                             *)
(***************************************************************************)
LEMMA TaskKeepsSlot ==
  ASSUME RuntimeInv, NEW w \in Worker, NEW t \in tasks[w], NEW stage, Becomes(w, t, stage)
  PROVE  /\ Cardinality(tasks'[w]) <= Cardinality(tasks[w])
         /\ \A v \in Worker \ {w} : tasks'[v] = tasks[v]
<1> DEFINE next == [t EXCEPT !.stage = stage]
<1>1. tasks' = [tasks EXCEPT ![w] = (@ \ {t}) \cup {next}] /\ tasks \in [Worker -> SUBSET Task]
  BY DEF Becomes, RuntimeInv, RuntimeTypes
<1> HIDE DEF next
<1>2. IsFiniteSet(tasks[w])
  BY DEF RuntimeInv, SlotsSuffice
<1>3. /\ IsFiniteSet(tasks[w] \ {t}) /\ Cardinality(tasks[w] \ {t}) = Cardinality(tasks[w]) - 1
      /\ Cardinality(tasks[w]) \in Nat
  BY <1>2, FS_RemoveElement, FS_CardinalityType, Zenon
<1>4. Cardinality((tasks[w] \ {t}) \cup {next}) \in {Cardinality(tasks[w] \ {t}), Cardinality(tasks[w] \ {t}) + 1}
  BY <1>3, FS_AddElement, Zenon
<1>5. tasks'[w] = (tasks[w] \ {t}) \cup {next} /\ \A v \in Worker \ {w} : tasks'[v] = tasks[v]
  BY <1>1, Zenon
<1>6. QED
  BY <1>3, <1>4, <1>5

(***************************************************************************)
(* While a claim is unanswered, the worker keeps the slot it was sent for. *)
(***************************************************************************)
LEMMA ClaimingStep ==
  ASSUME RuntimeInv, CounterTypes, ClaimingHasSlot, [Next]_vars
  PROVE  ClaimingHasSlot'
<1> SUFFICES ASSUME NEW v \in Worker, pc'[v] = "claiming"
             PROVE  Cardinality(tasks'[v]) < Concurrency
  BY DEF ClaimingHasSlot
<1> DEFINE Kept == Cardinality(tasks'[v]) < Concurrency
<1>0. \A w \in Worker : Cardinality(tasks[w]) \in Nat /\ Concurrency \in Nat
  BY FS_CardinalityType, RuntimeAssumption DEF RuntimeInv, SlotsSuffice
<1>1. ASSUME NEW w \in Worker, LoopStep(w)
      PROVE  Kept
  <2>1. CASE v # w
    <3>1. SameAt(v)
      BY <1>1, <2>1, OthersUntouched, ZenonT(30) DEF RuntimeInv
    <3>2. QED
      BY <3>1 DEF SameAt, ClaimingHasSlot
  <2>2. CASE v = w
    <3>1. CASE LoopTop(w)
      <4>1. Concurrency - Cardinality(tasks'[w]) > 0
        BY <2>2, <3>1 DEF LoopTop, Goto, Free, CounterTypes
      <4>2. tasks'[w] \subseteq tasks[w]
        BY <3>1 DEF LoopTop, Join, RuntimeInv, RuntimeTypes
      <4>3. Cardinality(tasks'[w]) \in Nat
        BY <4>2, FS_Subset, FS_CardinalityType DEF RuntimeInv, SlotsSuffice
      <4>4. QED
        BY <1>0, <2>2, <4>1, <4>3
    <3>2. CASE ~LoopTop(w)
      BY <1>1, <2>2, <3>2, ZenonT(30) DEF LoopStep, Start, ClaimExecutes, ClaimReturns, ClaimFails, SelectShutdown,
             SelectJoin, SelectPoll, Goto, CounterTypes
    <3>3. QED
      BY <3>1, <3>2
  <2>3. QED
    BY <2>1, <2>2
<1>2. ASSUME NEW w \in Worker, ShutdownStep(w)
      PROVE  Kept
  <2>1. tasks'[v] \subseteq tasks[v] /\ IsFiniteSet(tasks[v])
    BY <1>2, ShutdownKinds DEF Shrinks, RuntimeInv, SlotsSuffice
  <2>2. /\ Cardinality(tasks'[v]) \in Nat
        /\ Cardinality(tasks'[v]) <= Cardinality(tasks[v])
    BY <2>1, FS_Subset, FS_CardinalityType
  <2>3. pc[v] = "claiming"
    BY <1>2, ZenonT(30) DEF ShutdownStep, Signal, DrainJoin, DrainDone, DrainTimeout, AbortTask, AbortDone,
           Crash, Goto, CounterTypes
  <2>4. QED
    BY <1>0, <2>2, <2>3 DEF ClaimingHasSlot
<1>3. ASSUME NEW w \in Worker, NEW t \in tasks[w], TaskStep(w, t)
      PROVE  Kept
  <2>1. PICK stage : Becomes(w, t, stage)
    BY <1>3, TaskKinds DEF TaskMoves, RuntimeInv
  <2>2. pc[v] = "claiming"
    BY <1>3, Zenon DEF TaskStep, ProcessOk, ProcessErr, ProcessPanic, CompleteExecutes, CompleteReturns,
           CompleteFails
  <2>3. Cardinality(tasks'[v]) = Cardinality(tasks[v]) \/ v = w
    BY <2>1, TaskKeepsSlot
  <2>4. Cardinality(tasks'[w]) \in Nat /\ Cardinality(tasks'[w]) <= Cardinality(tasks[w])
    <3>1. IsFiniteSet(tasks'[w])
      BY SlotsStep DEF RuntimeInv, SlotsSuffice
    <3>2. QED
      BY <2>1, <3>1, TaskKeepsSlot, FS_CardinalityType
  <2>5. QED
    BY <1>0, <2>2, <2>3, <2>4 DEF ClaimingHasSlot
<1>4. CASE DatabaseStep \/ UNCHANGED vars
  <2>1. UNCHANGED <<pc, tasks>>
    BY <1>4, Zenon DEF DatabaseStep, LateClaimExecutes, LateCompleteExecutes, LateDropped,
                LeaseLapses, EventAdmitted, vars
  <2>2. QED
    BY <2>1 DEF ClaimingHasSlot
<1>5. QED
  BY <1>1, <1>2, <1>3, <1>4, Zenon DEF Next

(***************************************************************************)
(* A claim that is cut off asked for one to Concurrency events.            *)
(***************************************************************************)
LEMMA RestTypesStep ==
  ASSUME RuntimeInv, ClaimingHasSlot, RestTypes, [Next]_vars
  PROVE  RestTypes'
<1>1. ASSUME NEW w \in Worker, pc[w] = "claiming"
      PROVE  <<w, Free(w, tasks[w]), faults>> \in Worker \X (1 .. Concurrency) \X (0 .. MaxFaults)
  <2>1. Cardinality(tasks[w]) \in Nat /\ Concurrency \in Nat
    BY FS_CardinalityType, RuntimeAssumption DEF RuntimeInv, SlotsSuffice
  <2>2. QED
    BY <1>1, <2>1 DEF ClaimingHasSlot, Free, RestTypes
<1>2. faults' \in 0 .. MaxFaults
  BY FaultsCounted, FaultsAssumption DEF Fault, RestTypes
<1>3. ASSUME NEW w \in Worker, LoopStep(w)
      PROVE  RestTypes'
  <2>1. lateClaims' \subseteq Worker \X (1 .. Concurrency) \X (0 .. MaxFaults)
    <3>1. CASE ClaimFails(w)
      BY <1>1, <3>1 DEF ClaimFails, RestTypes
    <3>2. CASE ~ClaimFails(w)
      <4>1. UNCHANGED lateClaims
        BY <1>3, <3>2, Zenon DEF LoopStep, Start, LoopTop, ClaimExecutes, ClaimReturns,
                                 SelectShutdown, SelectJoin, SelectPoll, late
      <4>2. QED
        BY <4>1 DEF RestTypes
    <3>3. QED
      BY <3>1, <3>2
  <2>2. UNCHANGED <<shutdown, handled>>
    BY <1>3, Zenon DEF LoopStep, Start, LoopTop, ClaimExecutes, ClaimReturns, ClaimFails,
                       SelectShutdown, SelectJoin, SelectPoll
  <2>3. QED
    BY <1>2, <2>1, <2>2 DEF RestTypes
<1>4. ASSUME NEW w \in Worker, ShutdownStep(w)
      PROVE  RestTypes'
  <2>1. UNCHANGED handled
    BY <1>4, Zenon DEF ShutdownStep, Signal, DrainJoin, DrainDone, DrainTimeout, AbortTask,
                       AbortDone, Crash
  <2>2. lateClaims' \subseteq Worker \X (1 .. Concurrency) \X (0 .. MaxFaults)
    <3>1. CASE Crash(w)
      BY <1>1, <3>1 DEF Crash, RestTypes
    <3>2. CASE ~Crash(w)
      <4>1. UNCHANGED lateClaims
        BY <1>4, <3>2, Zenon DEF ShutdownStep, Signal, DrainJoin, DrainDone, DrainTimeout,
                                 AbortTask, AbortDone, late
      <4>2. QED
        BY <4>1 DEF RestTypes
    <3>3. QED
      BY <3>1, <3>2
  <2>3. shutdown' \in [Worker -> BOOLEAN]
    BY <1>4, Zenon DEF ShutdownStep, Signal, DrainJoin, DrainDone, DrainTimeout, AbortTask,
                       AbortDone, Crash, RestTypes
  <2>4. QED
    BY <1>2, <2>1, <2>2, <2>3 DEF RestTypes
<1>5. ASSUME NEW w \in Worker, NEW t \in tasks[w], TaskStep(w, t)
      PROVE  RestTypes'
  <2>1. t.event \in Event
    BY DEF RuntimeInv, RuntimeTypes, Task
  <2>2. UNCHANGED <<shutdown, lateClaims>>
    BY <1>5, ZenonT(30) DEF TaskStep, ProcessOk, ProcessErr, ProcessPanic, CompleteExecutes,
                            CompleteReturns, CompleteFails, late
  <2>3. handled' \subseteq Event
    BY <1>5, <2>1 DEF TaskStep, ProcessOk, ProcessErr, ProcessPanic, CompleteExecutes,
                      CompleteReturns, CompleteFails, RestTypes
  <2>4. QED
    BY <1>2, <2>2, <2>3 DEF RestTypes
<1>6. CASE DatabaseStep \/ UNCHANGED vars
  <2>1. UNCHANGED <<shutdown, handled>> /\ lateClaims' \subseteq lateClaims
    BY <1>6, Zenon DEF DatabaseStep, LateClaimExecutes, LateCompleteExecutes, LateDropped,
                       LeaseLapses, EventAdmitted, vars, late
  <2>2. QED
    BY <1>2, <2>1 DEF RestTypes
<1>7. QED
  BY <1>3, <1>4, <1>5, <1>6, Zenon DEF Next

(***************************************************************************)
(* Every variable of the runtime keeps its type; of these, that a claim    *)
(* asks for one to `concurrency` events is what Store::claim requires of   *)
(* its limit.                                                              *)
(***************************************************************************)
THEOREM RuntimeTypeCorrect == Spec => []TypeOK
<1>1. Init => ClaimingHasSlot /\ RestTypes
  BY FaultsAssumption DEF Init, ClaimingHasSlot, RestTypes
<1>2. RuntimeInv /\ ReportInv /\ RestTypes => TypeOK
  <2> SUFFICES ASSUME RuntimeInv, ReportInv, RestTypes
               PROVE  TypeOK
    OBVIOUS
  <2>1. \A c \in {processed, failed, lost_claims, abandoned, spawned} : c \in [Worker -> Nat]
    BY Zenon DEF ReportInv, CounterTypes
  <2>2. QED
    BY <2>1, Zenon DEF TypeOK, RuntimeInv, RuntimeTypes, Claimed, ReportInv, CounterTypes, RestTypes
<1>3. QED
  BY <1>1, <1>2, ClaimingStep, RestTypesStep, RuntimeInvariant, ReportInvariant, PTL
     DEF Spec, ReportInv
============================================================================
