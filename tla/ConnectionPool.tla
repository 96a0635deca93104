--------------------------- MODULE ConnectionPool ---------------------------
(***************************************************************************)
(* One API process's database pool (Store::connect_lazy), the readiness    *)
(* probes (health.rs) and the requests that share it, and a database that  *)
(* goes down, comes back, or hangs without closing its connections.        *)
(*                                                                         *)
(* The pool is sqlx's, modelled from the options the store sets: at most   *)
(* max_connections, each tested before it is handed out, a wait of at most *)
(* acquire_timeout.  A time limit can run out only while the task waits    *)
(* for something, never against one whose next step can be taken.          *)
(***************************************************************************)
EXTENDS Integers, FiniteSets

CONSTANTS
  Probe,        \* GET /health/ready
  Query,        \* admissions and status reads
  Connection,   \* max_connections slots
  Free,         \* holder of a slot nobody uses
  Pool,         \* holder of a slot whose user gave up in the middle
  MaxOutages    \* bound: outages and hangs

ASSUME PoolConstants ==
  /\ {Free, Pool} \cap (Probe \cup Query) = {} /\ Free # Pool
  /\ MaxOutages \in Nat

VARIABLES
  db,          \* "up", "down" or "hung"
  socket,      \* slot -> "none", "alive" or "broken"
  holder,      \* slot -> the task that has it, Free or Pool
  pc,          \* task -> "idle", "acquire", "test", "execute", "answered"
  outcome,     \* task -> its last answer
  disturbed,   \* task -> the database was not up at some time since it began
  outages

poolVars == <<db, socket, holder, pc, outcome, disturbed, outages>>

Task == Probe \cup Query

PoolInit ==
  /\ db \in {"up", "down"}
  /\ socket = [c \in Connection |-> "none"]
  /\ holder = [c \in Connection |-> Free]
  /\ pc = [t \in Task |-> "idle"]
  /\ outcome = [t \in Task |-> "none"]
  /\ disturbed = [t \in Task |-> FALSE]
  /\ outages = 0

Goto(t, label) == pc' = [pc EXCEPT ![t] = label]

Idle == {c \in Connection : holder[c] = Free /\ socket[c] # "none"}
Empty == {c \in Connection : holder[c] = Free /\ socket[c] = "none"}

Answer(t, a) ==
  /\ Goto(t, "answered")
  /\ outcome' = [outcome EXCEPT ![t] = a]

(***************************************************************************)
(* A probe or a request comes in and asks the pool for a connection.       *)
(***************************************************************************)
Begin(t) ==
  /\ pc[t] \in {"idle", "answered"}
  /\ Goto(t, "acquire")
  /\ disturbed' = [disturbed EXCEPT ![t] = db # "up"]
  /\ UNCHANGED <<db, socket, holder, outcome, outages>>

(***************************************************************************)
(* Fault: test_before_acquire(false).                                      *)
(***************************************************************************)
TakeIdleUntested(t, c) ==
  /\ pc[t] = "acquire"
  /\ c \in Idle
  /\ holder' = [holder EXCEPT ![c] = t]
  /\ Goto(t, "execute")
  /\ UNCHANGED <<db, socket, outcome, disturbed, outages>>

TakeIdle(t, c) ==
  /\ pc[t] = "acquire"
  /\ c \in Idle
  /\ holder' = [holder EXCEPT ![c] = t]
  /\ Goto(t, "test")
  /\ UNCHANGED <<db, socket, outcome, disturbed, outages>>

Open(t, c) ==
  /\ pc[t] = "acquire"
  /\ Idle = {} /\ c \in Empty
  /\ db = "up"
  /\ socket' = [socket EXCEPT ![c] = "alive"]
  /\ holder' = [holder EXCEPT ![c] = t]
  /\ Goto(t, "execute")
  /\ UNCHANGED <<db, outcome, disturbed, outages>>

OpenFails(t) ==
  /\ pc[t] = "acquire"
  /\ Idle = {} /\ Empty # {}
  /\ db = "down"
  /\ Answer(t, "unavailable")
  /\ UNCHANGED <<db, socket, holder, disturbed, outages>>

TestPasses(t, c) ==
  /\ pc[t] = "test" /\ holder[c] = t
  /\ socket[c] = "alive" /\ db = "up"
  /\ Goto(t, "execute")
  /\ UNCHANGED <<db, socket, holder, outcome, disturbed, outages>>

(***************************************************************************)
(* Fault: a connection that fails its test stays checked out.              *)
(***************************************************************************)
TestFailsLeaks(t, c) ==
  /\ pc[t] = "test" /\ holder[c] = t
  /\ socket[c] = "broken"
  /\ holder' = [holder EXCEPT ![c] = Pool]
  /\ socket' = [socket EXCEPT ![c] = "none"]
  /\ Goto(t, "acquire")
  /\ UNCHANGED <<db, outcome, disturbed, outages>>

(***************************************************************************)
(* A dead connection is closed and the pool tries the next one.            *)
(***************************************************************************)
TestFails(t, c) ==
  /\ pc[t] = "test" /\ holder[c] = t
  /\ socket[c] = "broken"
  /\ holder' = [holder EXCEPT ![c] = Free]
  /\ socket' = [socket EXCEPT ![c] = "none"]
  /\ Goto(t, "acquire")
  /\ UNCHANGED <<db, outcome, disturbed, outages>>

(***************************************************************************)
(* SELECT 1, or a request's statements.                                    *)
(***************************************************************************)
ExecutePasses(t, c) ==
  /\ pc[t] = "execute" /\ holder[c] = t
  /\ socket[c] = "alive" /\ db = "up"
  /\ holder' = [holder EXCEPT ![c] = Free]
  /\ Answer(t, "ok")
  /\ UNCHANGED <<db, socket, disturbed, outages>>

ExecuteFails(t, c) ==
  /\ pc[t] = "execute" /\ holder[c] = t
  /\ socket[c] = "broken"
  /\ holder' = [holder EXCEPT ![c] = Free]
  /\ socket' = [socket EXCEPT ![c] = "none"]
  /\ Answer(t, "unavailable")
  /\ UNCHANGED <<db, disturbed, outages>>

(***************************************************************************)
(* What a task waits for does not come.                                    *)
(***************************************************************************)
Waits(t) ==
  \/ pc[t] = "acquire" /\ Idle = {} /\ (db # "up" \/ Empty = {})
  \/ /\ pc[t] \in {"test", "execute"}
     /\ db = "hung"
     /\ \E c \in Connection : holder[c] = t /\ socket[c] = "alive"

(***************************************************************************)
(* Fault: no limit on the readiness check but the pool's own.              *)
(***************************************************************************)
LimitedByPool(t) == pc[t] \in {"acquire", "test"}

(***************************************************************************)
(* READINESS_TIMEOUT covers the whole check of a probe, acquire_timeout    *)
(* only a request's way to a connection.                                   *)
(***************************************************************************)
Limited(t) == t \in Probe \/ pc[t] \in {"acquire", "test"}

(***************************************************************************)
(* The limit runs out; the future is dropped and its connection goes back  *)
(* to the pool, which must first find out what state it is in.             *)
(***************************************************************************)
TimesOut(t) ==
  /\ Waits(t)
  /\ Limited(t)
  /\ holder' = [c \in Connection |-> IF holder[c] = t THEN Pool ELSE holder[c]]
  /\ Answer(t, "timed_out")
  /\ UNCHANGED <<db, socket, disturbed, outages>>

Returned(c) ==
  /\ holder[c] = Pool
  /\ \/ socket[c] = "alive" /\ db = "up" /\ UNCHANGED socket
     \/ socket[c] = "broken" /\ socket' = [socket EXCEPT ![c] = "none"]
  /\ holder' = [holder EXCEPT ![c] = Free]
  /\ UNCHANGED <<db, pc, outcome, disturbed, outages>>

---------------------------------------------------------------------------
DatabaseLeaves(how) ==
  /\ db = "up"
  /\ outages < MaxOutages
  /\ db' = how
  /\ socket' = [c \in Connection |->
                  IF how = "down" /\ socket[c] = "alive" THEN "broken" ELSE socket[c]]
  /\ disturbed' = [t \in Task |-> disturbed[t] \/ pc[t] \in {"acquire", "test", "execute"}]
  /\ outages' = outages + 1
  /\ UNCHANGED <<holder, pc, outcome>>

DatabaseReturns ==
  /\ db # "up"
  /\ db' = "up"
  /\ UNCHANGED <<socket, holder, pc, outcome, disturbed, outages>>

TaskStep(t) ==
  \/ OpenFails(t)
  \/ \E c \in Connection :
       \/ TakeIdle(t, c) \/ Open(t, c) \/ TestPasses(t, c) \/ TestFails(t, c)
       \/ ExecutePasses(t, c) \/ ExecuteFails(t, c)

PoolNext ==
  \/ \E t \in Task : Begin(t) \/ TaskStep(t) \/ TimesOut(t)
  \/ \E c \in Connection : Returned(c)
  \/ DatabaseLeaves("down") \/ DatabaseLeaves("hung") \/ DatabaseReturns

PoolSpec == PoolInit /\ [][PoolNext]_poolVars

(***************************************************************************)
(* Tasks run and time limits fire; probes keep coming.  Nothing is assumed *)
(* of the database: it may stay down or hung for good.                     *)
(***************************************************************************)
FairPoolSpec ==
  /\ PoolSpec
  /\ \A t \in Task : WF_poolVars(TaskStep(t)) /\ WF_poolVars(TimesOut(t))
  /\ \A t \in Probe : WF_poolVars(Begin(t))
  /\ \A c \in Connection : WF_poolVars(Returned(c))

---------------------------------------------------------------------------
(***************************************************************************)
(* connect_lazy: "Validate pooled connections before use, so the pool      *)
(* recovers after a database restart": no probe or request that began      *)
(* after the restart, and saw no outage itself, fails on a connection left *)
(* over from before it.                                                    *)
(***************************************************************************)
StaleConnectionsHarmless ==
  \A t \in Task : pc[t] = "answered" /\ outcome[t] = "unavailable" => disturbed[t]

(***************************************************************************)
(* While the database is up and stays up, and there are slots for all, no  *)
(* probe is turned away: readiness recovers after every restart and hang   *)
(* without restarting the API.                                             *)
(***************************************************************************)
ReadinessRecovers ==
  <>[](db = "up") => \A p \in Probe : <>[](pc[p] = "answered" => outcome[p] = "ok")

(***************************************************************************)
(* READINESS_TIMEOUT: "so probes never hang", whatever the database does.  *)
(***************************************************************************)
ProbesNeverHang == \A p \in Probe : pc[p] = "acquire" ~> pc[p] = "answered"
=============================================================================
