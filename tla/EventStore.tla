---------------------------- MODULE EventStore ----------------------------
(***************************************************************************)
(* The claim and complete operations of `Store` at the level of what       *)
(* PostgreSQL does with them under READ COMMITTED: row locks, one snapshot *)
(* per statement, a second look at a row that changed since the snapshot,  *)
(* and now() frozen at the start of the statement.                         *)
(*                                                                         *)
(* Each operation is one autocommit statement on a pooled connection (a    *)
(* session), executed in several steps that interleave with the steps of   *)
(* every other session, and cut off before its commit at any of them.      *)
(***************************************************************************)
EXTENDS Naturals, FiniteSets

CONSTANTS
  Event,      \* event ids, ordered as event_id is
  Worker,
  NoOwner,    \* processing_owner IS NULL
  Session,    \* the connections of all worker pools
  Lease,      \* the lease, in clock ticks
  MaxLimit,   \* bound: the largest LIMIT a claim asks for
  MaxClock    \* bound: the database clock stops here

ASSUME StoreAssumption ==
  /\ Event \subseteq Nat
  /\ NoOwner \notin Worker
  /\ Lease \in Nat \ {0}
  /\ MaxLimit \in Nat
  /\ MaxClock \in Nat

VARIABLES
  clock,                \* the database's clock
  status,               \* the columns of table events; "ABSENT": no such row
  accepted_at,
  processing_owner,
  processing_started_at,
  lease_expires_at,
  processed_at,
  delivery_attempts,
  statement,            \* what each session runs: "idle", "claim", "complete"
  caller,               \* the worker the statement runs for
  started,              \* now() in the statement
  limit,                \* LIMIT of a claim
  todo,                 \* rows of the snapshot the statement has yet to visit
  held                  \* rows the statement has locked

row == <<status, accepted_at, processing_owner, processing_started_at,
         lease_expires_at, processed_at, delivery_attempts>>
session == <<statement, caller, started, limit, todo, held>>
vars == <<clock, row, session>>

Null == MaxClock + Lease + 1     \* a timestamp column that IS NULL
Time == 0 .. MaxClock + Lease

TypeOK ==
  /\ clock \in 0 .. MaxClock
  /\ status \in [Event -> {"ABSENT", "PENDING", "PROCESSING", "PROCESSED"}]
  /\ accepted_at \in [Event -> Time \cup {Null}]
  /\ processing_owner \in [Event -> Worker \cup {NoOwner}]
  /\ processing_started_at \in [Event -> Time \cup {Null}]
  /\ lease_expires_at \in [Event -> Time \cup {Null}]
  /\ processed_at \in [Event -> Time \cup {Null}]
  /\ delivery_attempts \in [Event -> Nat]
  /\ statement \in [Session -> {"idle", "claim", "complete"}]
  /\ caller \in [Session -> Worker \cup {NoOwner}]
  /\ started \in [Session -> 0 .. MaxClock]
  /\ limit \in [Session -> 0 .. MaxLimit]
  /\ todo \in [Session -> SUBSET Event]
  /\ held \in [Session -> SUBSET Event]

Init ==
  /\ clock = 0
  /\ status = [e \in Event |-> "ABSENT"]
  /\ accepted_at = [e \in Event |-> Null]
  /\ processing_owner = [e \in Event |-> NoOwner]
  /\ processing_started_at = [e \in Event |-> Null]
  /\ lease_expires_at = [e \in Event |-> Null]
  /\ processed_at = [e \in Event |-> Null]
  /\ delivery_attempts = [e \in Event |-> 0]
  /\ statement = [s \in Session |-> "idle"]
  /\ caller = [s \in Session |-> NoOwner]
  /\ started = [s \in Session |-> 0]
  /\ limit = [s \in Session |-> 0]
  /\ todo = [s \in Session |-> {}]
  /\ held = [s \in Session |-> {}]

Tick ==
  /\ clock < MaxClock
  /\ clock' = clock + 1
  /\ UNCHANGED <<row, session>>

(***************************************************************************)
(* Fault: accepted_at is taken from an API host whose clock is ahead.      *)
(***************************************************************************)
AcceptedAtHost(t) == t + 1

(***************************************************************************)
(* accepted_at TIMESTAMPTZ NOT NULL DEFAULT now(), for a transaction begun *)
(* at t.                                                                   *)
(***************************************************************************)
AcceptedAt(t) == t

(***************************************************************************)
(* Store::admit commits a new row.  accepted_at defaults to now(), the     *)
(* time t its transaction began, so rows need not appear in the order of   *)
(* their accepted_at.                                                      *)
(***************************************************************************)
AdmitCommit(e, t) ==
  /\ status[e] = "ABSENT"
  /\ t <= clock
  /\ status' = [status EXCEPT ![e] = "PENDING"]
  /\ accepted_at' = [accepted_at EXCEPT ![e] = AcceptedAt(t)]
  /\ UNCHANGED <<clock, processing_owner, processing_started_at, lease_expires_at,
                 processed_at, delivery_attempts, session>>

---------------------------------------------------------------------------
(***************************************************************************)
(* A statement ends: its locks are released and its connection goes back   *)
(* to the pool.                                                            *)
(***************************************************************************)
Release(s) ==
  /\ statement' = [statement EXCEPT ![s] = "idle"]
  /\ caller' = [caller EXCEPT ![s] = NoOwner]
  /\ started' = [started EXCEPT ![s] = 0]
  /\ limit' = [limit EXCEPT ![s] = 0]
  /\ todo' = [todo EXCEPT ![s] = {}]
  /\ held' = [held EXCEPT ![s] = {}]

(***************************************************************************)
(* Fault: candidates are selected without FOR UPDATE.                      *)
(***************************************************************************)
LockedNever(e, s) == FALSE

(***************************************************************************)
(* A row lock of another session is in the way.                            *)
(***************************************************************************)
Locked(e, s) == \E other \in Session \ {s} : e \in held[other]

(***************************************************************************)
(* Fault: the WHERE clause excludes running claims only, so that finished  *)
(* rows qualify.                                                           *)
(***************************************************************************)
ClaimableAtAgain(e, t) ==
  \/ status[e] \in {"PENDING", "PROCESSED"}
  \/ status[e] = "PROCESSING" /\ lease_expires_at[e] <= t

(***************************************************************************)
(* The WHERE clause of Store::claim, with now() = t.                       *)
(***************************************************************************)
ClaimableAt(e, t) ==
  \/ status[e] = "PENDING"
  \/ status[e] = "PROCESSING" /\ lease_expires_at[e] <= t

(***************************************************************************)
(* ORDER BY accepted_at, event_id                                          *)
(***************************************************************************)
Precedes(e, f) ==
  \/ accepted_at[e] < accepted_at[f]
  \/ accepted_at[e] = accepted_at[f] /\ e <= f

(***************************************************************************)
(* Store::claim is sent: the statement freezes now() at t, when it         *)
(* arrives, and takes its snapshot.  Rows may have been committed between  *)
(* the two.  A limit of 0 returns before any statement is sent.            *)
(***************************************************************************)
ClaimStart(s, w, n, t) ==
  /\ statement[s] = "idle"
  /\ n > 0
  /\ t <= clock
  /\ statement' = [statement EXCEPT ![s] = "claim"]
  /\ caller' = [caller EXCEPT ![s] = w]
  /\ started' = [started EXCEPT ![s] = t]
  /\ limit' = [limit EXCEPT ![s] = n]
  /\ todo' = [todo EXCEPT ![s] = {e \in Event : ClaimableAt(e, t)}]
  /\ UNCHANGED <<clock, row, held>>

(***************************************************************************)
(* Fault: FOR UPDATE without SKIP LOCKED, and without an order: the        *)
(* statement waits for a locked row.                                       *)
(***************************************************************************)
NextRowWaits(s, e) == e \in todo[s] /\ ~Locked(e, s)

(***************************************************************************)
(* The row a claim visits next: the first of its snapshot, locked or not.  *)
(***************************************************************************)
NextRow(s, e) == e \in todo[s] /\ \A f \in todo[s] : Precedes(e, f)

(***************************************************************************)
(* FOR UPDATE SKIP LOCKED visits the next row of the ordered snapshot.  It *)
(* passes over a row another session has locked, and a row that no longer  *)
(* satisfies the WHERE clause in its current version.                      *)
(***************************************************************************)
ClaimVisit(s) ==
  /\ statement[s] = "claim"
  /\ Cardinality(held[s]) < limit[s]
  /\ \E e \in Event :
       /\ NextRow(s, e)
       /\ todo' = [todo EXCEPT ![s] = @ \ {e}]
       /\ held' = [held EXCEPT ![s] =
                     IF Locked(e, s) \/ ~ClaimableAt(e, started[s])
                     THEN @ ELSE @ \cup {e}]
  /\ UNCHANGED <<clock, row, statement, caller, started, limit>>

(***************************************************************************)
(* now() + make_interval(secs => lease)                                    *)
(***************************************************************************)
LeaseDeadline(s) == started[s] + Lease

(***************************************************************************)
(* The UPDATE of the locked rows, and the commit.                          *)
(***************************************************************************)
ClaimCommit(s) ==
  /\ statement[s] = "claim"
  /\ todo[s] = {} \/ Cardinality(held[s]) = limit[s]
  /\ LET batch == held[s] IN
       /\ status' = [e \in Event |-> IF e \in batch THEN "PROCESSING" ELSE status[e]]
       /\ processing_owner' =
            [e \in Event |-> IF e \in batch THEN caller[s] ELSE processing_owner[e]]
       /\ processing_started_at' =
            [e \in Event |-> IF e \in batch THEN started[s] ELSE processing_started_at[e]]
       /\ lease_expires_at' =
            [e \in Event |-> IF e \in batch THEN LeaseDeadline(s) ELSE lease_expires_at[e]]
       /\ delivery_attempts' =
            [e \in Event |-> delivery_attempts[e] + IF e \in batch THEN 1 ELSE 0]
  /\ Release(s)
  /\ UNCHANGED <<clock, accepted_at, processed_at>>

(***************************************************************************)
(* The WHERE clause of Store::complete.                                    *)
(***************************************************************************)
Owns(w, e) == status[e] = "PROCESSING" /\ processing_owner[e] = w

(***************************************************************************)
(* Store::complete is sent.  Its now() may be taken for the time of its    *)
(* snapshot: what its caller owns was claimed before the statement was     *)
(* sent.  If the row does not match in the snapshot there is nothing to    *)
(* update.                                                                 *)
(***************************************************************************)
CompleteStart(s, w, e) ==
  /\ statement[s] = "idle"
  /\ statement' = [statement EXCEPT ![s] = "complete"]
  /\ caller' = [caller EXCEPT ![s] = w]
  /\ started' = [started EXCEPT ![s] = clock]
  /\ todo' = [todo EXCEPT ![s] = IF Owns(w, e) THEN {e} ELSE {}]
  /\ UNCHANGED <<clock, row, limit, held>>

(***************************************************************************)
(* The UPDATE waits for the row's lock, then looks at the row again: it    *)
(* takes the lock if the caller owns the row in its current version.       *)
(***************************************************************************)
CompleteLock(s) ==
  /\ statement[s] = "complete"
  /\ \E e \in todo[s] :
       /\ ~Locked(e, s)
       /\ todo' = [todo EXCEPT ![s] = {}]
       /\ held' = [held EXCEPT ![s] = IF Owns(caller[s], e) THEN {e} ELSE {}]
  /\ UNCHANGED <<clock, row, statement, caller, started, limit>>

(***************************************************************************)
(* The commit of Store::complete, which returns rows_affected = 1: true    *)
(* if the statement holds its row, false if it found nothing to update.    *)
(***************************************************************************)
CompleteCommit(s) ==
  /\ statement[s] = "complete"
  /\ todo[s] = {}
  /\ LET done == held[s] IN
       /\ status' = [e \in Event |-> IF e \in done THEN "PROCESSED" ELSE status[e]]
       /\ processed_at' = [e \in Event |-> IF e \in done THEN started[s] ELSE processed_at[e]]
       /\ processing_owner' =
            [e \in Event |-> IF e \in done THEN NoOwner ELSE processing_owner[e]]
       /\ lease_expires_at' =
            [e \in Event |-> IF e \in done THEN Null ELSE lease_expires_at[e]]
  /\ Release(s)
  /\ UNCHANGED <<clock, accepted_at, processing_started_at, delivery_attempts>>

(***************************************************************************)
(* A statement is cut off before its commit: statement_timeout, a lost     *)
(* connection, a dead server.  Nothing it did remains.                     *)
(***************************************************************************)
Rollback(s) ==
  /\ statement[s] # "idle"
  /\ Release(s)
  /\ UNCHANGED <<clock, row>>

Next ==
  \/ Tick
  \/ \E e \in Event, t \in 0 .. MaxClock : AdmitCommit(e, t)
  \/ \E s \in Session :
       \/ \E w \in Worker, n \in 1 .. MaxLimit, t \in 0 .. MaxClock : ClaimStart(s, w, n, t)
       \/ ClaimVisit(s)
       \/ ClaimCommit(s)
       \/ \E w \in Worker, e \in Event : CompleteStart(s, w, e)
       \/ CompleteLock(s)
       \/ CompleteCommit(s)
       \/ Rollback(s)

Spec == Init /\ [][Next]_vars

---------------------------------------------------------------------------
(***************************************************************************)
(* No statement of the store is ever rejected by the CHECK constraint      *)
(* events_lifecycle_consistent, in whatever order claims, completions and  *)
(* rollbacks hit a row.                                                    *)
(***************************************************************************)
LifecycleConsistent ==
  \A e \in Event :
    \/ /\ status[e] \in {"ABSENT", "PENDING"}
       /\ processing_owner[e] = NoOwner
       /\ processing_started_at[e] = Null
       /\ lease_expires_at[e] = Null
       /\ processed_at[e] = Null
    \/ /\ status[e] = "PROCESSING"
       /\ processing_owner[e] # NoOwner
       /\ processing_started_at[e] # Null
       /\ lease_expires_at[e] # Null
       /\ processed_at[e] = Null
       /\ delivery_attempts[e] >= 1
    \/ /\ status[e] = "PROCESSED"
       /\ processing_owner[e] = NoOwner
       /\ lease_expires_at[e] = Null
       /\ processed_at[e] # Null
       /\ delivery_attempts[e] >= 1

(***************************************************************************)
(* A row lock keeps what its statement saw true until the commit: no row   *)
(* is locked twice, a row locked by a claim stays claimable, and a row     *)
(* locked by a completion stays its caller's.                              *)
(***************************************************************************)
LocksGuard ==
  /\ \A s, o \in Session : s # o => held[s] \cap held[o] = {}
  /\ \A s \in Session :
       /\ started[s] <= clock
       /\ statement[s] = "idle" => held[s] = {}
       /\ statement[s] # "idle" => caller[s] \in Worker
       /\ statement[s] = "claim" => \A e \in held[s] : ClaimableAt(e, started[s])
       /\ statement[s] = "complete" =>
            \A e \in held[s] : held[s] = {e} /\ Owns(caller[s], e)

(***************************************************************************)
(* Store::claim takes the oldest rows first and no more than LIMIT of      *)
(* them, whatever other sessions lock or admit while it walks its          *)
(* snapshot: every row it has locked comes, in ORDER BY, before every row  *)
(* it has yet to visit.  The worker counts on the limit for its slots, and *)
(* the order is what keeps old events from being passed over for ever.     *)
(***************************************************************************)
ClaimsInOrder ==
  \A s \in Session : statement[s] = "claim" =>
    /\ Cardinality(held[s]) <= limit[s]
    /\ \A e \in held[s], f \in todo[s] : e # f /\ Precedes(e, f)

(***************************************************************************)
(* The timestamps GET /v1/events/{id} shows never run backwards: an event  *)
(* is not processed before it was accepted, although the two are the       *)
(* starts of transactions that end long after, behind other sessions'      *)
(* locks.  (Nothing of the kind holds for processing_started_at: a claim   *)
(* may take a row accepted after its now(), and a completion that waited   *)
(* behind its own worker's reclaim is older than that.)                    *)
(***************************************************************************)
TimestampsOrdered ==
  \A e \in Event : status[e] = "PROCESSED" => accepted_at[e] <= processed_at[e]

(***************************************************************************)
(* The statement-level store does nothing the lifecycle does not allow:    *)
(* with a lease seen as lapsed once the clock reaches its deadline, every  *)
(* commit is one atomic Admit, Claim or Complete and every other step is   *)
(* invisible.  In particular two overlapping claims never take the same    *)
(* row, and a completion that waited behind a reclaim changes nothing of   *)
(* another worker's row.                                                   *)
(***************************************************************************)
LeaseLapsed ==
  [e \in Event |-> status[e] = "PROCESSING" /\ lease_expires_at[e] <= clock]

Lifecycle == INSTANCE EventLifecycle WITH lease_lapsed <- LeaseLapsed

ImplementsLifecycle == Lifecycle!LifecycleSpec

(***************************************************************************)
(* The guard of a session's next step, other than being cut off: a claim   *)
(* visits its next row or commits, a completion locks its row or commits.  *)
(***************************************************************************)
CanGoOn(s) ==
  \/ /\ statement[s] = "claim"
     /\ \/ todo[s] = {}
        \/ Cardinality(held[s]) = limit[s]
        \/ /\ Cardinality(held[s]) < limit[s]
           /\ \E e \in Event : NextRow(s, e)
  \/ /\ statement[s] = "complete"
     /\ todo[s] = {} \/ \E e \in todo[s] : ~Locked(e, s)

(***************************************************************************)
(* Sessions never wait for each other in a circle, and no statement needs  *)
(* a timeout to end: one that cannot go on holds no lock and waits for a   *)
(* row of a session that can go on.  Only Store::complete waits, and for   *)
(* its first lock; Store::claim, which collects locks, passes over what is *)
(* locked (FOR UPDATE SKIP LOCKED).                                        *)
(***************************************************************************)
LocksResolve ==
  \A s \in Session : statement[s] # "idle" =>
    \/ CanGoOn(s)
    \/ /\ held[s] = {}
       /\ \E e \in todo[s], o \in Session \ {s} : e \in held[o] /\ CanGoOn(o)
===========================================================================
