------------------------- MODULE EventStoreProofs -------------------------
(***************************************************************************)
(* Proofs about the statement-level store, for any set of sessions, any    *)
(* lease and any clock, and about the connection pool through which the    *)
(* statements reach it, for any number of probes, queries, slots and       *)
(* outages.                                                                *)
(***************************************************************************)
EXTENDS EventStore, FiniteSetTheorems, WellFoundedInduction, TLAPS

(***************************************************************************)
(* Every step of every statement keeps the table and the sessions in their *)
(* types.                                                                  *)
(***************************************************************************)
THEOREM StoreTypeCorrect == Spec => []TypeOK
<1> USE StoreAssumption DEF TypeOK, Time, Null
<1>1. Init => TypeOK
  BY SMTT(30) DEF Init
<1>2. TypeOK /\ [Next]_vars => TypeOK'
  <2> SUFFICES ASSUME TypeOK, [Next]_vars
               PROVE  TypeOK'
    OBVIOUS
  <2>1. CASE Tick
    BY <2>1 DEF Tick, row, session
  <2>2. ASSUME NEW e \in Event, NEW t \in 0 .. MaxClock, AdmitCommit(e, t)
        PROVE  TypeOK'
    BY <2>2 DEF AdmitCommit, AcceptedAt, session
  <2>3. ASSUME NEW s \in Session, NEW w \in Worker, NEW n \in 1 .. MaxLimit,
               NEW t \in 0 .. MaxClock, ClaimStart(s, w, n, t)
        PROVE  TypeOK'
    BY <2>3 DEF ClaimStart, row
  <2>4. ASSUME NEW s \in Session, ClaimVisit(s)
        PROVE  TypeOK'
    BY <2>4 DEF ClaimVisit, row
  <2>5. ASSUME NEW s \in Session, ClaimCommit(s)
        PROVE  TypeOK'
    BY <2>5 DEF ClaimCommit, LeaseDeadline, Release
  <2>6. ASSUME NEW s \in Session, NEW w \in Worker, NEW e \in Event,
               CompleteStart(s, w, e)
        PROVE  TypeOK'
    BY <2>6 DEF CompleteStart, row
  <2>7. ASSUME NEW s \in Session, CompleteLock(s)
        PROVE  TypeOK'
    BY <2>7 DEF CompleteLock, row
  <2>8. ASSUME NEW s \in Session, CompleteCommit(s)
        PROVE  TypeOK'
    BY <2>8 DEF CompleteCommit, Release
  <2>9. ASSUME NEW s \in Session, Rollback(s)
        PROVE  TypeOK'
    BY <2>9 DEF Rollback, Release, row
  <2>10. CASE UNCHANGED vars
    BY <2>10, ZenonT(30) DEF vars, row, session
  <2>11. QED
    BY <2>1, <2>2, <2>3, <2>4, <2>5, <2>6, <2>7, <2>8, <2>9, <2>10, ZenonT(30) DEF Next
<1>3. QED
  BY <1>1, <1>2, PTL DEF Spec

---------------------------------------------------------------------------
(***************************************************************************)
(* Every step keeps the locks sound.  The rows a session has locked are    *)
(* changed by its own commit only, which releases them, and the clock can  *)
(* only make a lapsed lease older.                                         *)
(***************************************************************************)
LEMMA LocksGuardStep ==
  TypeOK /\ LocksGuard /\ [Next]_vars => LocksGuard'
<1> SUFFICES ASSUME TypeOK, LocksGuard, [Next]_vars
             PROVE  LocksGuard'
  OBVIOUS
<1> USE StoreAssumption DEF TypeOK, LocksGuard, ClaimableAt, Owns
<1>1. CASE Tick
  BY <1>1 DEF Tick, row, session
<1>2. ASSUME NEW e \in Event, NEW t \in 0 .. MaxClock, AdmitCommit(e, t)
      PROVE  LocksGuard'
  BY <1>2 DEF AdmitCommit, session
<1>3. ASSUME NEW s \in Session, NEW w \in Worker, NEW n \in 1 .. MaxLimit,
             NEW t \in 0 .. MaxClock, ClaimStart(s, w, n, t)
      PROVE  LocksGuard'
  BY <1>3 DEF ClaimStart, row
<1>4. ASSUME NEW s \in Session, ClaimVisit(s)
      PROVE  LocksGuard'
  BY <1>4 DEF ClaimVisit, Locked, row
<1>5. ASSUME NEW s \in Session, ClaimCommit(s)
      PROVE  LocksGuard'
  BY <1>5 DEF ClaimCommit, Release
<1>6. ASSUME NEW s \in Session, NEW w \in Worker, NEW e \in Event,
             CompleteStart(s, w, e)
      PROVE  LocksGuard'
  BY <1>6 DEF CompleteStart, row
<1>7. ASSUME NEW s \in Session, CompleteLock(s)
      PROVE  LocksGuard'
  BY <1>7 DEF CompleteLock, Locked, row
<1>8. ASSUME NEW s \in Session, CompleteCommit(s)
      PROVE  LocksGuard'
  BY <1>8 DEF CompleteCommit, Release
<1>9. ASSUME NEW s \in Session, Rollback(s)
      PROVE  LocksGuard'
  BY <1>9 DEF Rollback, Release, row
<1>10. CASE UNCHANGED vars
  BY <1>10 DEF vars, row, session
<1>11. QED
  BY <1>1, <1>2, <1>3, <1>4, <1>5, <1>6, <1>7, <1>8, <1>9, <1>10, ZenonT(30) DEF Next

(***************************************************************************)
(* No two sessions ever hold the same row, and what a claim or completion  *)
(* saw when it locked a row is still true when it commits.                 *)
(***************************************************************************)
THEOREM StoreLocksGuard == Spec => []LocksGuard
<1>1. Init => LocksGuard
  BY DEF Init, LocksGuard
<1>2. QED
  BY <1>1, LocksGuardStep, StoreTypeCorrect, PTL DEF Spec

---------------------------------------------------------------------------
(***************************************************************************)
(* No statement is ever rejected by events_lifecycle_consistent.           *)
(***************************************************************************)
THEOREM StoreLifecycleConsistent == Spec => []LifecycleConsistent
<1> USE StoreAssumption DEF TypeOK, LifecycleConsistent, Null, Time
<1>1. Init => LifecycleConsistent
  BY SMTT(30) DEF Init
<1>2. TypeOK /\ LocksGuard /\ LifecycleConsistent /\ [Next]_vars => LifecycleConsistent'
  <2> SUFFICES ASSUME TypeOK, LocksGuard, LifecycleConsistent, [Next]_vars
               PROVE  LifecycleConsistent'
    OBVIOUS
  <2>1. CASE row' = row
    BY <2>1 DEF row
  <2>2. ASSUME NEW e \in Event, NEW t \in 0 .. MaxClock, AdmitCommit(e, t)
        PROVE  LifecycleConsistent'
    BY <2>2 DEF AdmitCommit
  <2>3. ASSUME NEW s \in Session, ClaimCommit(s)
        PROVE  LifecycleConsistent'
    BY <2>3 DEF ClaimCommit, LeaseDeadline, LocksGuard, ClaimableAt
  <2>4. ASSUME NEW s \in Session, CompleteCommit(s)
        PROVE  LifecycleConsistent'
    BY <2>4, SMTT(30) DEF CompleteCommit, LocksGuard, Owns
  <2>5. QED
    BY <2>1, <2>2, <2>3, <2>4, ZenonT(30)
       DEF Next, Tick, ClaimStart, ClaimVisit, CompleteStart, CompleteLock, Rollback, vars
<1>3. QED
  BY <1>1, <1>2, StoreTypeCorrect, StoreLocksGuard, PTL DEF Spec

---------------------------------------------------------------------------
(***************************************************************************)
(* A row is accepted before any completion of it is sent: a committed      *)
(* accepted_at is never ahead of the clock, and a completion looks for     *)
(* rows that were there when its now() was taken.                          *)
(***************************************************************************)
AcceptedFirst ==
  /\ \A e \in Event : status[e] # "ABSENT" => accepted_at[e] <= clock
  /\ \A s \in Session : statement[s] = "complete" =>
       \A e \in todo[s] \cup held[s] : status[e] # "ABSENT" /\ accepted_at[e] <= started[s]

(***************************************************************************)
(* Every step keeps that order; the columns it is about change only with   *)
(* an admission, for a row that is new, and with a completion, which binds *)
(* the now() it was sent with.                                             *)
(***************************************************************************)
LEMMA TimestampsStep ==
  TypeOK /\ LocksGuard /\ AcceptedFirst /\ TimestampsOrdered /\ [Next]_vars =>
    AcceptedFirst' /\ TimestampsOrdered'
<1> SUFFICES ASSUME TypeOK, LocksGuard, AcceptedFirst, TimestampsOrdered, [Next]_vars
             PROVE  AcceptedFirst' /\ TimestampsOrdered'
  OBVIOUS
<1> USE StoreAssumption DEF TypeOK, Time, Null, AcceptedFirst, TimestampsOrdered
<1>1. CASE Tick
  BY <1>1 DEF Tick, row, session
<1>2. ASSUME NEW e \in Event, NEW t \in 0 .. MaxClock, AdmitCommit(e, t)
      PROVE  AcceptedFirst' /\ TimestampsOrdered'
  BY <1>2 DEF AdmitCommit, AcceptedAt, session
<1>3. ASSUME NEW s \in Session, NEW w \in Worker, NEW n \in 1 .. MaxLimit,
             NEW t \in 0 .. MaxClock, ClaimStart(s, w, n, t)
      PROVE  AcceptedFirst' /\ TimestampsOrdered'
  BY <1>3 DEF ClaimStart, row
<1>4. ASSUME NEW s \in Session, ClaimVisit(s)
      PROVE  AcceptedFirst' /\ TimestampsOrdered'
  BY <1>4 DEF ClaimVisit, row
<1>5. ASSUME NEW s \in Session, ClaimCommit(s)
      PROVE  AcceptedFirst' /\ TimestampsOrdered'
  <2>1. \A e \in Event : /\ status'[e] # "ABSENT" <=> status[e] # "ABSENT"
                         /\ status'[e] = "PROCESSED" => status[e] = "PROCESSED"
    BY <1>5 DEF ClaimCommit, LocksGuard, ClaimableAt
  <2>2. AcceptedFirst'
    BY <1>5, <2>1 DEF ClaimCommit, Release
  <2>3. TimestampsOrdered'
    BY <1>5, <2>1 DEF ClaimCommit
  <2>4. QED
    BY <2>2, <2>3
<1>6. ASSUME NEW s \in Session, NEW w \in Worker, NEW e \in Event,
             CompleteStart(s, w, e)
      PROVE  AcceptedFirst' /\ TimestampsOrdered'
  BY <1>6 DEF CompleteStart, Owns, LocksGuard, row
<1>7. ASSUME NEW s \in Session, CompleteLock(s)
      PROVE  AcceptedFirst' /\ TimestampsOrdered'
  BY <1>7 DEF CompleteLock, row
<1>8. ASSUME NEW s \in Session, CompleteCommit(s)
      PROVE  AcceptedFirst' /\ TimestampsOrdered'
  BY <1>8 DEF CompleteCommit, Release
<1>9. ASSUME NEW s \in Session, Rollback(s)
      PROVE  AcceptedFirst' /\ TimestampsOrdered'
  BY <1>9 DEF Rollback, Release, row
<1>10. CASE UNCHANGED vars
  BY <1>10 DEF vars, row, session
<1>11. QED
  BY <1>1, <1>2, <1>3, <1>4, <1>5, <1>6, <1>7, <1>8, <1>9, <1>10, ZenonT(30) DEF Next

(***************************************************************************)
(* No event is shown as processed before it was accepted, whatever waits   *)
(* for whose lock between the start of a transaction and its end.          *)
(***************************************************************************)
THEOREM StoreTimestampsOrdered == Spec => []TimestampsOrdered
<1>1. Init => AcceptedFirst /\ TimestampsOrdered
  BY DEF Init, AcceptedFirst, TimestampsOrdered
<1>2. QED
  BY <1>1, TimestampsStep, StoreTypeCorrect, StoreLocksGuard, PTL DEF Spec

---------------------------------------------------------------------------
(* The order of claims.                                                    *)

(***************************************************************************)
(* The rows of a claim's snapshot are there and stay, so their accepted_at *)
(* is settled; and what the claim has locked can be counted.               *)
(***************************************************************************)
ClaimsSeeRows ==
  \A s \in Session : statement[s] = "claim" =>
    /\ \A e \in todo[s] \cup held[s] : status[e] # "ABSENT"
    /\ IsFiniteSet(held[s])

(***************************************************************************)
(* One more row adds at most one to the count that LIMIT bounds.           *)
(***************************************************************************)
LEMMA OneMore ==
  ASSUME NEW S, NEW x, IsFiniteSet(S)
  PROVE  /\ IsFiniteSet(S \cup {x})
         /\ Cardinality(S \cup {x}) \in Nat
         /\ Cardinality(S \cup {x}) <= Cardinality(S) + 1
<1>1. /\ IsFiniteSet(S \cup {x})
      /\ Cardinality(S \cup {x}) = IF x \in S THEN Cardinality(S) ELSE Cardinality(S) + 1
  BY FS_AddElement, Zenon
<1>2. Cardinality(S) \in Nat /\ Cardinality(S \cup {x}) \in Nat
  BY <1>1, FS_CardinalityType, Zenon
<1>3. QED
  BY <1>1, <1>2

(***************************************************************************)
(* Every step keeps the order.  A visit takes the first row of what is     *)
(* left, so it comes after all that is locked and before all that remains, *)
(* and an admission dates a row that no snapshot has.                      *)
(***************************************************************************)
LEMMA OrderStep ==
  TypeOK /\ LocksGuard /\ ClaimsSeeRows /\ ClaimsInOrder /\ [Next]_vars =>
    ClaimsSeeRows' /\ ClaimsInOrder'
<1> SUFFICES ASSUME TypeOK, LocksGuard, ClaimsSeeRows, ClaimsInOrder, [Next]_vars
             PROVE  ClaimsSeeRows' /\ ClaimsInOrder'
  OBVIOUS
<1> USE StoreAssumption DEF TypeOK, ClaimsSeeRows, ClaimsInOrder, Precedes
<1>0. IsFiniteSet({}) /\ Cardinality({}) = 0
  BY FS_EmptySet
<1>1. CASE Tick
  BY <1>1 DEF Tick, row, session
<1>2. ASSUME NEW e \in Event, NEW t \in 0 .. MaxClock, AdmitCommit(e, t)
      PROVE  ClaimsSeeRows' /\ ClaimsInOrder'
  BY <1>2 DEF AdmitCommit, session
<1>3. ASSUME NEW s \in Session, NEW w \in Worker, NEW n \in 1 .. MaxLimit,
             NEW t \in 0 .. MaxClock, ClaimStart(s, w, n, t)
      PROVE  ClaimsSeeRows' /\ ClaimsInOrder'
  <2>1. held' = held /\ held[s] = {} /\ UNCHANGED row
    BY <1>3 DEF ClaimStart, LocksGuard
  <2>2. limit'[s] = n /\ (\A e \in todo'[s] : status[e] # "ABSENT")
    BY <1>3 DEF ClaimStart, ClaimableAt
  <2>3. \A o \in Session \ {s} :
          statement'[o] = statement[o] /\ limit'[o] = limit[o] /\ todo'[o] = todo[o]
    BY <1>3 DEF ClaimStart
  <2>4. Cardinality(held'[s]) <= limit'[s] /\ IsFiniteSet(held'[s])
    BY <1>0, <2>1, <2>2
  <2>5. ASSUME NEW o \in Session, statement'[o] = "claim"
        PROVE  (\A e \in todo'[o] \cup held'[o] : status[e] # "ABSENT") /\ IsFiniteSet(held'[o])
    <3>1. CASE o = s
      BY <2>1, <2>2, <2>4, <3>1, ZenonT(30)
    <3>2. CASE o # s
      BY <2>1, <2>3, <2>5, <3>2, ZenonT(30)
    <3>3. QED
      BY <3>1, <3>2
  <2>6. ASSUME NEW o \in Session, statement'[o] = "claim"
        PROVE  /\ Cardinality(held'[o]) <= limit'[o]
               /\ \A e \in held'[o], f \in todo'[o] : e # f /\ Precedes(e, f)
    <3>1. CASE o = s
      BY <2>1, <2>4, <3>1, ZenonT(30)
    <3>2. CASE o # s
      BY <2>1, <2>3, <2>6, <3>2, ZenonT(30)
    <3>3. QED
      BY <3>1, <3>2
  <2>7. QED
    BY <2>1, <2>5, <2>6 DEF row
<1>4. ASSUME NEW s \in Session, ClaimVisit(s)
      PROVE  ClaimsSeeRows' /\ ClaimsInOrder'
  <2>1. PICK e \in todo[s] :
          /\ \A f \in todo[s] : Precedes(e, f)
          /\ todo' = [todo EXCEPT ![s] = @ \ {e}]
          /\ held' = [held EXCEPT ![s] =
                        IF Locked(e, s) \/ ~ClaimableAt(e, started[s]) THEN @ ELSE @ \cup {e}]
    BY <1>4, Zenon DEF ClaimVisit, NextRow
  <2>2. held'[s] \in {held[s], held[s] \cup {e}} /\ todo'[s] = todo[s] \ {e}
    BY <2>1
  <2>3. IsFiniteSet(held'[s]) /\ Cardinality(held'[s]) <= limit[s]
    <3> DEFINE old == held[s]
               new == held'[s]
    <3>1. IsFiniteSet(old) /\ Cardinality(old) \in Nat /\ limit[s] \in Nat
      BY <1>4, FS_CardinalityType DEF ClaimVisit
    <3>2. Cardinality(old) < limit[s] /\ new \in {old, old \cup {e}}
      BY <1>4, <2>2 DEF ClaimVisit
    <3> HIDE DEF old, new
    <3>3. /\ IsFiniteSet(old \cup {e})
          /\ Cardinality(old \cup {e}) \in Nat
          /\ Cardinality(old \cup {e}) <= Cardinality(old) + 1
      BY <3>1, OneMore, Zenon
    <3>4. IsFiniteSet(new) /\ Cardinality(new) <= limit[s]
      <4>1. CASE new = old
        BY <3>1, <3>2, <4>1
      <4>2. CASE new = old \cup {e}
        BY <3>1, <3>2, <3>3, <4>2
      <4>3. QED
        BY <3>2, <4>1, <4>2, Zenon
    <3>5. QED
      BY <3>4 DEF new
  <2>4. \A o \in Session \ {s} : held'[o] = held[o] /\ todo'[o] = todo[o]
    BY <2>1
  <2>5. UNCHANGED <<row, statement, limit>>
    BY <1>4 DEF ClaimVisit
  <2>6. \A f \in todo'[s] : e # f /\ Precedes(e, f)
    BY <2>1, <2>2
  <2>7. \A f \in todo'[s], d \in held'[s] : d # f /\ Precedes(d, f)
    BY <1>4, <2>2, <2>6 DEF ClaimVisit
  <2>8. statement'[s] = "claim" => \A d \in todo'[s] \cup held'[s] : status[d] # "ABSENT"
    BY <1>4, <2>2 DEF ClaimVisit
  <2>9. ClaimsSeeRows'
    BY <2>3, <2>4, <2>5, <2>8, ZenonT(30) DEF row
  <2>10. ASSUME NEW o \in Session, statement'[o] = "claim"
         PROVE  /\ Cardinality(held'[o]) <= limit'[o]
                /\ \A d \in held'[o], f \in todo'[o] : d # f /\ Precedes(d, f)
    <3>1. CASE o = s
      BY <2>3, <2>5, <2>7, <3>1
    <3>2. CASE o # s
      BY <2>4, <2>5, <2>10, <3>2, ZenonT(30)
    <3>3. QED
      BY <3>1, <3>2
  <2>11. QED
    BY <2>5, <2>9, <2>10 DEF row
<1>5. ASSUME NEW s \in Session, ClaimCommit(s)
      PROVE  ClaimsSeeRows' /\ ClaimsInOrder'
  BY <1>5 DEF ClaimCommit, Release
<1>6. ASSUME NEW s \in Session, NEW w \in Worker, NEW e \in Event,
             CompleteStart(s, w, e)
      PROVE  ClaimsSeeRows' /\ ClaimsInOrder'
  BY <1>6 DEF CompleteStart, row
<1>7. ASSUME NEW s \in Session, CompleteLock(s)
      PROVE  ClaimsSeeRows' /\ ClaimsInOrder'
  BY <1>7 DEF CompleteLock, row
<1>8. ASSUME NEW s \in Session, CompleteCommit(s)
      PROVE  ClaimsSeeRows' /\ ClaimsInOrder'
  BY <1>8 DEF CompleteCommit, Release
<1>9. ASSUME NEW s \in Session, Rollback(s)
      PROVE  ClaimsSeeRows' /\ ClaimsInOrder'
  BY <1>9 DEF Rollback, Release, row
<1>10. CASE UNCHANGED vars
  BY <1>10 DEF vars, row, session
<1>11. QED
  BY <1>1, <1>2, <1>3, <1>4, <1>5, <1>6, <1>7, <1>8, <1>9, <1>10, ZenonT(30) DEF Next

(***************************************************************************)
(* A claim takes the oldest rows first and no more than its LIMIT          *)
(* (ORDER BY accepted_at, event_id LIMIT $1 FOR UPDATE SKIP LOCKED).       *)
(***************************************************************************)
THEOREM StoreClaimsInOrder == Spec => []ClaimsInOrder
<1>1. Init => ClaimsSeeRows /\ ClaimsInOrder
  BY DEF Init, ClaimsSeeRows, ClaimsInOrder
<1>2. QED
  BY <1>1, OrderStep, StoreTypeCorrect, StoreLocksGuard, PTL DEF Spec

---------------------------------------------------------------------------
(* Nobody waits in a circle.                                               *)

(***************************************************************************)
(* A completion still to lock its row holds nothing.                       *)
(***************************************************************************)
WaitersHoldNothing ==
  \A s \in Session : statement[s] = "complete" /\ todo[s] # {} => held[s] = {}

(***************************************************************************)
(* Every step keeps it: the lock and the emptied todo are one step.        *)
(***************************************************************************)
LEMMA WaitersStep ==
  TypeOK /\ LocksGuard /\ WaitersHoldNothing /\ [Next]_vars => WaitersHoldNothing'
<1> SUFFICES ASSUME TypeOK, LocksGuard, WaitersHoldNothing, [Next]_vars
             PROVE  WaitersHoldNothing'
  OBVIOUS
<1> USE DEF TypeOK, WaitersHoldNothing
<1>1. ASSUME NEW s \in Session, NEW w \in Worker, NEW n \in 1 .. MaxLimit,
             NEW t \in 0 .. MaxClock, ClaimStart(s, w, n, t)
      PROVE  WaitersHoldNothing'
  BY <1>1 DEF ClaimStart
<1>2. ASSUME NEW s \in Session, ClaimVisit(s)
      PROVE  WaitersHoldNothing'
  BY <1>2 DEF ClaimVisit
<1>3. ASSUME NEW s \in Session, NEW w \in Worker, NEW e \in Event,
             CompleteStart(s, w, e)
      PROVE  WaitersHoldNothing'
  BY <1>3 DEF CompleteStart, LocksGuard
<1>4. ASSUME NEW s \in Session, CompleteLock(s)
      PROVE  WaitersHoldNothing'
  BY <1>4 DEF CompleteLock
<1>5. ASSUME NEW s \in Session, Release(s)
      PROVE  WaitersHoldNothing'
  BY <1>5 DEF Release
<1>6. CASE UNCHANGED session
  BY <1>6 DEF session
<1>7. QED
  BY <1>1, <1>2, <1>3, <1>4, <1>5, <1>6, ZenonT(30)
     DEF Next, Tick, AdmitCommit, ClaimCommit, CompleteCommit, Rollback, vars

(***************************************************************************)
(* A nonempty set of numbers has a least one.                              *)
(***************************************************************************)
LEMMA LeastNumber ==
  ASSUME NEW T \in SUBSET Nat, T # {}
  PROVE  \E x \in T : \A y \in T : x <= y
<1>1. PICK x \in T : \A y \in T : ~(<<y, x>> \in OpToRel(<, Nat))
  BY WFMin, NatLessThanWellFounded, ZenonT(30)
<1>2. \A y \in T : ~(y < x)
  BY <1>1, ZenonT(30) DEF OpToRel
<1>3. QED
  BY <1>2

(***************************************************************************)
(* ORDER BY accepted_at, event_id always has a first row to offer.         *)
(***************************************************************************)
LEMMA OldestRow ==
  ASSUME TypeOK, NEW rows \in SUBSET Event, rows # {}
  PROVE  \E e \in rows : \A f \in rows : Precedes(e, f)
<1> USE StoreAssumption DEF TypeOK, Time, Null
<1> DEFINE dates == {accepted_at[e] : e \in rows}
<1>0. \A e \in rows : accepted_at[e] \in Nat
  OBVIOUS
<1>1. dates \in SUBSET Nat /\ dates # {}
  <2>1. PICK r \in rows : TRUE
    BY ZenonT(30)
  <2>2. accepted_at[r] \in dates
    OBVIOUS
  <2>3. \A c \in dates : c \in Nat
    BY <1>0
  <2>4. QED
    BY <2>2, <2>3
<1>2. PICK d \in dates : \A c \in dates : d <= c
  BY <1>1, LeastNumber, Zenon
<1> DEFINE first == {e \in rows : accepted_at[e] = d}
<1>3. first \in SUBSET Nat /\ first # {}
  <2>1. PICK e \in rows : accepted_at[e] = d
    BY <1>2, Zenon
  <2>2. e \in first
    BY <2>1
  <2>3. QED
    BY <2>2, ZenonT(30)
<1>4. PICK e \in first : \A f \in first : e <= f
  BY <1>3, LeastNumber, Zenon
<1>5. ASSUME NEW f \in rows
      PROVE  Precedes(e, f)
  <2>1. d <= accepted_at[f] /\ accepted_at[e] = d
    BY <1>2, <1>4
  <2>2. CASE accepted_at[f] = d
    BY <1>4, <2>1, <2>2 DEF Precedes
  <2>3. CASE accepted_at[f] # d
    BY <1>0, <2>1, <2>3 DEF Precedes
  <2>4. QED
    BY <2>2, <2>3
<1>6. QED
  BY <1>4, <1>5, Zenon

(***************************************************************************)
(* There is no deadlock over row locks in any reachable state: claims and  *)
(* completions never wait for each other in a circle, so no statement      *)
(* needs a timeout to end.                                                 *)
(***************************************************************************)
THEOREM StoreLocksResolve == Spec => []LocksResolve
<1>1. Init => WaitersHoldNothing
  BY DEF Init, WaitersHoldNothing
<1>2. Init => ClaimsSeeRows /\ ClaimsInOrder
  BY DEF Init, ClaimsSeeRows, ClaimsInOrder
<1>3. ASSUME TypeOK, LocksGuard, ClaimsSeeRows, ClaimsInOrder, WaitersHoldNothing
      PROVE  LocksResolve
  <2>1. ASSUME NEW s \in Session, statement[s] = "claim"
        PROVE  CanGoOn(s)
    <3>1. IsFiniteSet(held[s]) /\ Cardinality(held[s]) <= limit[s] /\ limit[s] \in Nat
      BY <1>3, <2>1, StoreAssumption DEF ClaimsSeeRows, ClaimsInOrder, TypeOK
    <3>2. Cardinality(held[s]) \in Nat
      BY <3>1, FS_CardinalityType, Zenon
    <3>3. Cardinality(held[s]) = limit[s] \/ Cardinality(held[s]) < limit[s]
      BY <3>1, <3>2
    <3>4. todo[s] = {} \/ \E e \in Event : NextRow(s, e)
      BY <1>3, OldestRow DEF TypeOK, NextRow
    <3>5. QED
      BY <2>1, <3>3, <3>4, Zenon DEF CanGoOn
  <2>2. ASSUME NEW s \in Session, statement[s] = "complete", held[s] # {}
        PROVE  CanGoOn(s)
    BY <1>3, <2>2 DEF CanGoOn, WaitersHoldNothing
  <2>3. ASSUME NEW s \in Session, statement[s] = "complete", ~CanGoOn(s)
        PROVE  /\ held[s] = {}
               /\ \E e \in todo[s], o \in Session \ {s} : e \in held[o] /\ CanGoOn(o)
    <3>1. PICK e \in todo[s], o \in Session \ {s} : e \in held[o]
      BY <2>3 DEF CanGoOn, Locked
    <3>2. statement[o] \in {"claim", "complete"} /\ held[o] # {}
      BY <1>3, <3>1 DEF TypeOK, LocksGuard
    <3>3. CanGoOn(o)
      BY <2>1, <2>2, <3>2, Zenon
    <3>4. held[s] = {}
      BY <1>3, <2>3, <3>1 DEF WaitersHoldNothing
    <3>5. QED
      BY <3>1, <3>3, <3>4
  <2>4. QED
    BY <1>3, <2>1, <2>3 DEF LocksResolve, TypeOK
<1>4. QED
  BY <1>1, <1>2, <1>3, OrderStep, WaitersStep, StoreTypeCorrect, StoreLocksGuard, PTL DEF Spec

---------------------------------------------------------------------------
(* What the lifecycle promises, of the store itself.                       *)

(***************************************************************************)
(* A commit changes no row it has not locked, and what it has locked is    *)
(* claimable, or its caller's own.                                         *)
(***************************************************************************)
LEMMA CommitTouchesLocked ==
  ASSUME TypeOK, LocksGuard, [Next]_vars, NEW e \in Event,
         status[e] \in {"PROCESSING", "PROCESSED"}
  PROVE  \/ /\ status'[e] = status[e]
            /\ processing_owner'[e] = processing_owner[e]
            /\ delivery_attempts'[e] = delivery_attempts[e]
         \/ /\ status[e] = "PROCESSING" /\ lease_expires_at[e] <= clock
            /\ status'[e] = "PROCESSING"
         \/ /\ status[e] = "PROCESSING" /\ status'[e] = "PROCESSED"
            /\ delivery_attempts'[e] = delivery_attempts[e]
<1> USE StoreAssumption DEF TypeOK, Time, Null
<1>1. CASE row' = row
  BY <1>1 DEF row
<1>2. ASSUME NEW f \in Event, NEW t \in 0 .. MaxClock, AdmitCommit(f, t)
      PROVE  /\ status'[e] = status[e]
             /\ processing_owner'[e] = processing_owner[e]
             /\ delivery_attempts'[e] = delivery_attempts[e]
  BY <1>2 DEF AdmitCommit
<1>3. ASSUME NEW s \in Session, ClaimCommit(s)
      PROVE  \/ /\ status'[e] = status[e]
                /\ processing_owner'[e] = processing_owner[e]
                /\ delivery_attempts'[e] = delivery_attempts[e]
             \/ /\ status[e] = "PROCESSING" /\ lease_expires_at[e] <= clock
                /\ status'[e] = "PROCESSING"
  <2>1. CASE e \in held[s]
    <3>1. ClaimableAt(e, started[s]) /\ started[s] <= clock
      BY <1>3, <2>1 DEF ClaimCommit, LocksGuard
    <3>2. status[e] = "PROCESSING" /\ lease_expires_at[e] <= clock
      BY <3>1 DEF ClaimableAt
    <3>3. QED
      BY <1>3, <2>1, <3>2 DEF ClaimCommit
  <2>2. CASE e \notin held[s]
    BY <1>3, <2>2 DEF ClaimCommit
  <2>3. QED
    BY <2>1, <2>2
<1>4. ASSUME NEW s \in Session, CompleteCommit(s)
      PROVE  \/ /\ status'[e] = status[e]
                /\ processing_owner'[e] = processing_owner[e]
                /\ delivery_attempts'[e] = delivery_attempts[e]
             \/ /\ status[e] = "PROCESSING" /\ status'[e] = "PROCESSED"
                /\ delivery_attempts'[e] = delivery_attempts[e]
  <2>1. CASE e \in held[s]
    BY <1>4, <2>1 DEF CompleteCommit, LocksGuard, Owns
  <2>2. CASE e \notin held[s]
    BY <1>4, <2>2 DEF CompleteCommit
  <2>3. QED
    BY <2>1, <2>2
<1>5. QED
  BY <1>1, <1>2, <1>3, <1>4, ZenonT(30)
     DEF Next, Tick, ClaimStart, ClaimVisit, CompleteStart, CompleteLock, Rollback, vars

(***************************************************************************)
(* Until the database clock reaches its deadline, a claim is its owner's   *)
(* alone, however the statements of the sessions interleave.               *)
(***************************************************************************)
THEOREM StoreLeaseProtects == Spec => Lifecycle!LeaseProtectsClaim
<1>1. ASSUME TypeOK, LocksGuard, [Next]_vars
      PROVE  [\A e \in Event :
                status[e] = "PROCESSING" /\ ~LeaseLapsed[e] =>
                  /\ delivery_attempts'[e] = delivery_attempts[e]
                  /\ \/ status'[e] = "PROCESSED"
                     \/ status'[e] = "PROCESSING" /\ processing_owner'[e] = processing_owner[e]
             ]_Lifecycle!lifecycleVars
  <2> SUFFICES ASSUME NEW e \in Event, status[e] = "PROCESSING", ~LeaseLapsed[e]
               PROVE  /\ delivery_attempts'[e] = delivery_attempts[e]
                      /\ \/ status'[e] = "PROCESSED"
                         \/ /\ status'[e] = "PROCESSING"
                            /\ processing_owner'[e] = processing_owner[e]
    BY Zenon
  <2>1. ~(lease_expires_at[e] <= clock)
    BY Zenon DEF LeaseLapsed
  <2>2. QED
    BY <1>1, <2>1, CommitTouchesLocked
<1>2. QED
  BY <1>1, StoreTypeCorrect, StoreLocksGuard, PTL DEF Spec, Lifecycle!LeaseProtectsClaim

(***************************************************************************)
(* A PROCESSED row is never written again, although claims and completions *)
(* that were sent before it was processed still find it in their snapshot. *)
(***************************************************************************)
THEOREM StoreProcessedIsFinal == Spec => Lifecycle!ProcessedIsFinal
<1>1. ASSUME TypeOK, LocksGuard, [Next]_vars
      PROVE  [\A e \in Event :
                status[e] = "PROCESSED" =>
                  /\ status'[e] = "PROCESSED"
                  /\ delivery_attempts'[e] = delivery_attempts[e]
             ]_Lifecycle!lifecycleVars
  BY <1>1, CommitTouchesLocked
<1>2. QED
  BY <1>1, StoreTypeCorrect, StoreLocksGuard, PTL DEF Spec, Lifecycle!ProcessedIsFinal

---------------------------------------------------------------------------
(***************************************************************************)
(* The statement-level store implements the lifecycle.  A commit is one    *)
(* atomic operation of it because the locks kept its guard true; a tick    *)
(* of the clock is the lapse of the leases it reaches; every other step is *)
(* invisible.                                                              *)
(***************************************************************************)
THEOREM StoreImplementsLifecycle == Spec => ImplementsLifecycle
<1> USE DEF Lifecycle!lifecycleVars
<1>1. Init => Lifecycle!LifecycleInit
  BY ZenonT(30) DEF Init, Lifecycle!LifecycleInit, LeaseLapsed
<1>2. ASSUME TypeOK, LocksGuard, LifecycleConsistent, [Next]_vars
      PROVE  [Lifecycle!LifecycleNext]_Lifecycle!lifecycleVars
  <2> USE <1>2, StoreAssumption DEF TypeOK, Time, Null, LeaseLapsed
  <2>1. CASE row' = row /\ clock' = clock
    BY <2>1 DEF row
  <2>2. CASE Tick
    <3> DEFINE lapsing == {e \in Event : status[e] = "PROCESSING" /\ lease_expires_at[e] <= clock'}
    <3> HIDE DEF LeaseLapsed
    <3>0. ASSUME NEW e \in Event
          PROVE  LeaseLapsed'[e] <=> (e \in lapsing \/ LeaseLapsed[e])
      <4>1. LeaseLapsed'[e] <=> e \in lapsing
        BY <2>2, Zenon DEF Tick, row, LeaseLapsed
      <4>2. status[e] = "PROCESSING" /\ lease_expires_at[e] <= clock => e \in lapsing
        BY <2>2 DEF Tick
      <4>3. LeaseLapsed[e] => e \in lapsing
        BY <4>2, Zenon DEF LeaseLapsed
      <4>4. QED
        BY <4>1, <4>3, Zenon
    <3>1. LeaseLapsed' = [e \in Event |-> e \in lapsing \/ LeaseLapsed[e]]
      BY <3>0, Zenon DEF LeaseLapsed
    <3>2. Lifecycle!LeasesLapse(lapsing)
      BY <2>2, <3>1 DEF Tick, row, Lifecycle!LeasesLapse
    <3>3. lapsing \in SUBSET Event
      OBVIOUS
    <3>4. QED
      BY <3>2, <3>3, Zenon DEF Lifecycle!LifecycleNext
  <2>3. ASSUME NEW e \in Event, NEW t \in 0 .. MaxClock, AdmitCommit(e, t)
        PROVE  Lifecycle!LifecycleNext
    <3>1. Lifecycle!Admit(e)
      BY <2>3 DEF AdmitCommit, Lifecycle!Admit
    <3>2. QED
      BY <3>1 DEF Lifecycle!LifecycleNext
  <2>4. ASSUME NEW s \in Session, ClaimCommit(s)
        PROVE  Lifecycle!LifecycleNext
    <3>1. ASSUME NEW e \in held[s]
          PROVE  Lifecycle!Claimable(e)
      <4>1. e \in Event
        OBVIOUS
      <4>2. \/ status[e] = "PENDING"
            \/ status[e] = "PROCESSING" /\ lease_expires_at[e] <= clock
        BY <2>4, <4>1 DEF ClaimCommit, LocksGuard, ClaimableAt
      <4>3. QED
        BY <4>1, <4>2, Zenon DEF Lifecycle!Claimable
    <3>2. caller[s] \in Worker /\ held[s] \in SUBSET Event
      BY <2>4 DEF ClaimCommit, LocksGuard
    <3>3. CASE LeaseDeadline(s) <= clock
      <4>1. LeaseLapsed' = [e \in Event |-> IF e \in held[s] THEN TRUE ELSE LeaseLapsed[e]]
        BY <2>4, <3>3, ZenonT(30) DEF ClaimCommit
      <4>2. Lifecycle!Claim(caller[s], held[s], TRUE)
        BY <2>4, <3>1, <4>1, ZenonT(30) DEF ClaimCommit, Lifecycle!Claim
      <4>3. QED
        BY <3>2, <4>2, Zenon DEF Lifecycle!LifecycleNext
    <3>4. CASE ~(LeaseDeadline(s) <= clock)
      <4>1. LeaseLapsed' = [e \in Event |-> IF e \in held[s] THEN FALSE ELSE LeaseLapsed[e]]
        BY <2>4, <3>4, ZenonT(30) DEF ClaimCommit
      <4>2. Lifecycle!Claim(caller[s], held[s], FALSE)
        BY <2>4, <3>1, <4>1, ZenonT(30) DEF ClaimCommit, Lifecycle!Claim
      <4>3. QED
        BY <3>2, <4>2, Zenon DEF Lifecycle!LifecycleNext
    <3>5. QED
      BY <3>3, <3>4
  <2>5. ASSUME NEW s \in Session, CompleteCommit(s)
        PROVE  [Lifecycle!LifecycleNext]_Lifecycle!lifecycleVars
    <3>1. CASE held[s] = {}
      BY <2>5, <3>1 DEF CompleteCommit
    <3>2. CASE held[s] # {}
      <4>1. PICK e \in Event : held[s] = {e} /\ Owns(caller[s], e) /\ caller[s] \in Worker
        BY <2>5, <3>2, ZenonT(30) DEF CompleteCommit, LocksGuard
      <4>2. LeaseLapsed' = [LeaseLapsed EXCEPT ![e] = FALSE]
        BY <2>5, <4>1, ZenonT(30) DEF CompleteCommit
      <4>3. Lifecycle!Complete(caller[s], e)
        BY <2>5, <4>1, <4>2, ZenonT(30) DEF CompleteCommit, Owns, Lifecycle!Complete, Lifecycle!Owns
      <4>4. QED
        BY <4>1, <4>3 DEF Lifecycle!LifecycleNext
    <3>3. QED
      BY <3>1, <3>2
  <2>6. QED
    BY <2>1, <2>2, <2>3, <2>4, <2>5
       DEF Next, ClaimStart, ClaimVisit, CompleteStart, CompleteLock, Rollback, vars
<1>3. QED
  BY <1>1, <1>2, StoreTypeCorrect, StoreLocksGuard, StoreLifecycleConsistent, PTL
     DEF Spec, ImplementsLifecycle, Lifecycle!LifecycleSpec
===========================================================================
