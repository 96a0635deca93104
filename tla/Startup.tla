------------------------------ MODULE Startup ------------------------------
(***************************************************************************)
(* The life of the API and worker processes (both main.rs): configuration, *)
(* lazy pool, migration under sqlx's advisory lock, bind, service, drain   *)
(* on a signal, exit code.  Several processes start on one database, which *)
(* may go down, or hang without closing its connections; a process may be  *)
(* killed, and a supervisor (external) starts one that failed again.       *)
(*                                                                         *)
(* What a process does while it serves is reduced to the number of         *)
(* requests or events it has in hand and to whether it has connections on  *)
(* their way back to its pool; WorkerRuntime, Admission and ConnectionPool *)
(* model it.                                                               *)
(***************************************************************************)
EXTENDS Configuration, FiniteSets

CONSTANTS
  Api,           \* API processes, all with the same bind address
  Worker,        \* worker processes
  Nobody,        \* no process
  Stranger,      \* another program that listens on the bind address
  Environment,   \* the environments the processes may be started in
  MaxActive,     \* bound: requests or events in hand at once
  MaxFaults      \* bound: outages, hangs, kills and lock waits cut short

ASSUME StartupConstants ==
  /\ {Nobody, Stranger} \cap (Api \cup Worker) = {} /\ Nobody # Stranger
  /\ Api \cap Worker = {}
  /\ MaxActive \in Nat /\ MaxFaults \in Nat

VARIABLES
  env,       \* the environment, the same for every process
  pc,        \* where each process is in main
  settings,  \* what its configuration parsed to
  known,     \* whether list_applied_migrations found migration 0001
  active,    \* requests or events in hand
  dropped,   \* of these, how many a worker's shutdown timeout aborted
  returning, \* whether connections are on their way back to its pool
  code,      \* exit code
  db,        \* "up", "down" or "hung"
  schema,    \* whether migration 0001 is applied
  lock,      \* the session that holds the migration lock
  port,      \* the process that listens on the bind address
  faults

processVars == <<pc, settings, known, active, dropped, returning, code>>
databaseVars == <<db, schema, lock>>
startupVars == <<env, processVars, databaseVars, port, faults>>

Process == Api \cup Worker
Migrating == {"list", "apply", "unlock"}   \* holding a database session
Claiming == {"first_claim", "claiming", "stopping"}   \* run awaits Store::claim
Serving == Claiming \cup {"running", "draining", "closing"}

StartupInit ==
  /\ env \in Environment
  /\ pc = [p \in Process |-> "start"]
  /\ settings = [p \in Process |-> <<>>]
  /\ known = [p \in Process |-> FALSE]
  /\ active = [p \in Process |-> 0]
  /\ dropped = [p \in Process |-> 0]
  /\ returning = [p \in Process |-> FALSE]
  /\ code = [p \in Process |-> "none"]
  /\ db \in {"up", "down"}
  /\ schema \in BOOLEAN
  /\ lock = Nobody
  /\ port \in {Nobody, Stranger}
  /\ faults = 0

Goto(p, label) == pc' = [pc EXCEPT ![p] = label]

Release(owner, p) == IF owner = p THEN Nobody ELSE owner

(***************************************************************************)
(* Fault: the lock is not bound to the session (a flag in a table).        *)
(***************************************************************************)
ExitKeepsLock(p, c) ==
  /\ Goto(p, "exited")
  /\ code' = [code EXCEPT ![p] = c]
  /\ port' = Release(port, p)
  /\ UNCHANGED lock

(***************************************************************************)
(* The end of the process: its session lock and its listener go with it.   *)
(***************************************************************************)
Exit(p, c) ==
  /\ Goto(p, "exited")
  /\ code' = [code EXCEPT ![p] = c]
  /\ lock' = Release(lock, p)
  /\ port' = Release(port, p)

MigrateOnStart(p) == settings[p]["MIGRATE_ON_START"] = Word("true")

AfterMigration(p) == IF p \in Api THEN "bind" ELSE "first_claim"

(***************************************************************************)
(* from_env.                                                               *)
(***************************************************************************)
Configure(p) ==
  /\ pc[p] = "start"
  /\ LET config == FromLookup(env, IF p \in Api THEN ApiVars ELSE WorkerVars) IN
     IF config.error # "none"
     THEN Exit(p, "failure") /\ UNCHANGED settings
     ELSE /\ Goto(p, "connect")
          /\ settings' = [settings EXCEPT ![p] = config.settings]
          /\ UNCHANGED <<code, lock, port>>
  /\ UNCHANGED <<env, known, active, dropped, returning, db, schema, faults>>

(***************************************************************************)
(* Store::connect_lazy: parses the URL, touches no connection.             *)
(***************************************************************************)
ConnectLazy(p) ==
  /\ pc[p] = "connect"
  /\ IF settings[p]["DATABASE_URL"].port = "bad"
     THEN Exit(p, "failure")
     ELSE /\ Goto(p, IF MigrateOnStart(p) THEN "lock" ELSE AfterMigration(p))
          /\ UNCHANGED <<code, lock, port>>
  /\ UNCHANGED <<env, settings, known, active, dropped, returning, db, schema, faults>>

---------------------------------------------------------------------------
(* Store::migrate, the steps of sqlx's Migrator::run.                      *)

(***************************************************************************)
(* Fault: the migrator takes no lock.                                      *)
(***************************************************************************)
MigrationStartsUnlocked(p) ==
  /\ pc[p] = "lock"
  /\ db = "up"
  /\ Goto(p, "list")
  /\ UNCHANGED <<env, settings, known, active, dropped, returning, code, databaseVars,
                 port, faults>>

MigrationLocks(p) ==
  /\ pc[p] = "lock"
  /\ db = "up"
  /\ lock = Nobody
  /\ lock' = p
  /\ Goto(p, "list")
  /\ UNCHANGED <<env, settings, known, active, dropped, returning, code, db, schema, port, faults>>

(***************************************************************************)
(* No connection within acquire_timeout, or statement_timeout cuts the     *)
(* wait for another process's lock.                                        *)
(***************************************************************************)
MigrationLockFails(p) ==
  /\ pc[p] = "lock"
  /\ \/ db # "up" /\ UNCHANGED faults
     \/ lock # Nobody /\ faults < MaxFaults /\ faults' = faults + 1
  /\ Exit(p, "failure")
  /\ UNCHANGED <<env, settings, known, active, dropped, returning, db, schema>>

MigrationLists(p) ==
  /\ pc[p] = "list"
  /\ db = "up"
  /\ known' = [known EXCEPT ![p] = schema]
  /\ Goto(p, "apply")
  /\ UNCHANGED <<env, settings, active, dropped, returning, code, databaseVars, port, faults>>

(***************************************************************************)
(* One transaction: the statements of 0001 and the row that records it.    *)
(* Its CREATE TABLE fails if the table is already there.                   *)
(***************************************************************************)
MigrationApplies(p) ==
  /\ pc[p] = "apply"
  /\ db = "up"
  /\ IF schema /\ ~known[p]
     THEN Exit(p, "failure") /\ UNCHANGED schema
     ELSE Goto(p, "unlock") /\ schema' = TRUE /\ UNCHANGED <<code, lock, port>>
  /\ UNCHANGED <<env, settings, known, active, dropped, returning, db, faults>>

MigrationUnlocks(p) ==
  /\ pc[p] = "unlock"
  /\ db = "up"
  /\ lock' = Release(lock, p)
  /\ Goto(p, AfterMigration(p))
  /\ UNCHANGED <<env, settings, known, active, dropped, returning, code, db, schema, port, faults>>

(***************************************************************************)
(* Fault: a failed migration is logged and the process goes on.            *)
(***************************************************************************)
MigrationFailureLogged(p) ==
  /\ pc[p] = "failed"
  /\ Goto(p, AfterMigration(p))
  /\ UNCHANGED <<env, settings, known, active, dropped, returning, code, databaseVars,
                 port, faults>>

(***************************************************************************)
(* The session broke under the migration.                                  *)
(***************************************************************************)
MigrationFails(p) ==
  /\ pc[p] = "failed"
  /\ Exit(p, "failure")
  /\ UNCHANGED <<env, settings, known, active, dropped, returning, db, schema, faults>>

---------------------------------------------------------------------------
Bind(p) ==
  /\ pc[p] = "bind"
  /\ IF port = Nobody
     THEN Goto(p, "running") /\ port' = p /\ UNCHANGED <<code, lock>>
     ELSE Exit(p, "failure")
  /\ UNCHANGED <<env, settings, known, active, dropped, returning, db, schema, faults>>

(***************************************************************************)
(* What ends its use of the database has a connection to give back: the    *)
(* pool tests it before it counts as returned.  Some work never had one.   *)
(***************************************************************************)
MayReturn(p) == \E used \in BOOLEAN : returning' = [returning EXCEPT ![p] = @ \/ used]

(***************************************************************************)
(* The API takes a request.                                                *)
(***************************************************************************)
TakeRequest(p) ==
  /\ p \in Api
  /\ pc[p] = "running"
  /\ active[p] < MaxActive
  /\ active' = [active EXCEPT ![p] = @ + 1]
  /\ UNCHANGED <<env, pc, settings, known, dropped, returning, code, databaseVars, port, faults>>

(***************************************************************************)
(* A turn of the worker's loop, after a poll interval or a finished task:  *)
(* it claims if it has a slot free.                                        *)
(***************************************************************************)
ClaimBegins(p) ==
  /\ p \in Worker
  /\ pc[p] = "running"
  /\ active[p] < MaxActive
  /\ Goto(p, "claiming")
  /\ UNCHANGED <<env, settings, known, active, dropped, returning, code, databaseVars,
                 port, faults>>

(***************************************************************************)
(* The claim is answered and the loop comes to its select, where it sees a *)
(* signal that came in the meantime.  Without the database or the table    *)
(* the claim is an error; while the database hangs a wait for a connection *)
(* is cut by acquire_timeout, but a statement on its way is not.           *)
(***************************************************************************)
ClaimEnds(p) ==
  /\ p \in Worker
  /\ pc[p] \in Claiming
  /\ \E n \in 0 .. MaxActive - active[p] :
       /\ n > 0 => db = "up" /\ schema
       /\ active' = [active EXCEPT ![p] = @ + n]
  /\ MayReturn(p)
  /\ Goto(p, IF pc[p] = "stopping" THEN "draining" ELSE "running")
  /\ UNCHANGED <<env, settings, known, dropped, code, databaseVars, port, faults>>

FinishWork(p) ==
  /\ active[p] > 0
  /\ active' = [active EXCEPT ![p] = @ - 1]
  /\ MayReturn(p)
  /\ UNCHANGED <<env, pc, settings, known, dropped, code, databaseVars, port, faults>>

(***************************************************************************)
(* The connections are tested and back in the pool, or closed if the       *)
(* database is gone.  One that hangs answers no test.                      *)
(***************************************************************************)
ConnectionsReturned(p) ==
  /\ returning[p]
  /\ db # "hung"
  /\ returning' = [returning EXCEPT ![p] = FALSE]
  /\ UNCHANGED <<env, pc, settings, known, active, dropped, code, databaseVars, port, faults>>

(***************************************************************************)
(* SIGINT or SIGTERM.  shutdown::signal installs its handlers when serve   *)
(* or run first polls it, run only after its first claim; before that the  *)
(* signal ends the process.  The API closes its listener and drains; so    *)
(* does the worker's loop, once it is through with a claim under way.      *)
(***************************************************************************)
Signal(p) ==
  /\ pc[p] \notin {"stopping", "draining", "closing", "exited"}
  /\ CASE pc[p] = "running" ->
            Goto(p, "draining") /\ port' = Release(port, p) /\ UNCHANGED <<code, lock>>
       [] pc[p] = "claiming" -> Goto(p, "stopping") /\ UNCHANGED <<code, lock, port>>
       [] OTHER -> Exit(p, "signalled")
  /\ UNCHANGED <<env, settings, known, active, dropped, returning, db, schema, faults>>

Drained(p) ==
  /\ pc[p] = "draining"
  /\ active[p] = 0
  /\ Goto(p, "closing")
  /\ UNCHANGED <<env, settings, known, active, dropped, returning, code, databaseVars,
                 port, faults>>

(***************************************************************************)
(* Fault: the worker's drain has no time limit.                            *)
(***************************************************************************)
DrainNeverTimesOut(p) == FALSE /\ UNCHANGED startupVars

(***************************************************************************)
(* The worker's shutdown_timeout aborts what is left; the API has none.    *)
(***************************************************************************)
DrainTimesOut(p) ==
  /\ p \in Worker
  /\ pc[p] = "draining"
  /\ active[p] > 0
  /\ dropped' = [dropped EXCEPT ![p] = active[p]]
  /\ active' = [active EXCEPT ![p] = 0]
  /\ MayReturn(p)
  /\ Goto(p, "closing")
  /\ UNCHANGED <<env, settings, known, code, databaseVars, port, faults>>

(***************************************************************************)
(* Store::close, which waits for checked-out connections to be returned,   *)
(* and the exit code.                                                      *)
(***************************************************************************)
Close(p) ==
  /\ pc[p] = "closing"
  /\ ~returning[p]
  /\ Exit(p, IF dropped[p] > 0 THEN "failure" ELSE "success")
  /\ UNCHANGED <<env, settings, known, active, dropped, returning, db, schema, faults>>

---------------------------------------------------------------------------
(* The surroundings.                                                       *)

(***************************************************************************)
(* An outage breaks the sessions and frees their locks; of the processes   *)
(* at the lock, those that had a connection notice.                        *)
(***************************************************************************)
DatabaseFails ==
  /\ db # "down"
  /\ faults < MaxFaults
  /\ db' = "down"
  /\ lock' = Nobody
  /\ \E waiting \in SUBSET {p \in Process : pc[p] = "lock"} :
        pc' = [p \in Process |->
                 IF pc[p] \in Migrating \/ p \in waiting THEN "failed" ELSE pc[p]]
  /\ faults' = faults + 1
  /\ UNCHANGED <<env, settings, known, active, dropped, returning, code, schema, port>>

(***************************************************************************)
(* The database stops answering and keeps its connections and locks.       *)
(***************************************************************************)
DatabaseHangs ==
  /\ db = "up"
  /\ faults < MaxFaults
  /\ db' = "hung"
  /\ faults' = faults + 1
  /\ UNCHANGED <<env, processVars, schema, lock, port>>

DatabaseReturns ==
  /\ db # "up"
  /\ db' = "up"
  /\ UNCHANGED <<env, processVars, schema, lock, port, faults>>

Kill(p) ==
  /\ pc[p] # "exited"
  /\ faults < MaxFaults
  /\ Exit(p, "killed")
  /\ active' = [active EXCEPT ![p] = 0]
  /\ returning' = [returning EXCEPT ![p] = FALSE]
  /\ faults' = faults + 1
  /\ UNCHANGED <<env, settings, known, dropped, db, schema>>

(***************************************************************************)
(* The supervisor starts again what ended without having been told to.     *)
(***************************************************************************)
Restart(p) ==
  /\ code[p] \in {"failure", "killed"}
  /\ dropped[p] = 0
  /\ Goto(p, "start")
  /\ settings' = [settings EXCEPT ![p] = <<>>]
  /\ known' = [known EXCEPT ![p] = FALSE]
  /\ code' = [code EXCEPT ![p] = "none"]
  /\ UNCHANGED <<env, active, dropped, returning, databaseVars, port, faults>>

StartStep(p) == Configure(p) \/ ConnectLazy(p) \/ Bind(p)

MigrationStep(p) ==
  \/ MigrationLocks(p) \/ MigrationLists(p) \/ MigrationApplies(p) \/ MigrationUnlocks(p)
  \/ MigrationLockFails(p) \/ MigrationFails(p)

ShutdownStep(p) == Drained(p) \/ DrainTimesOut(p) \/ Close(p)

StartupNext ==
  \/ \E p \in Process :
       \/ StartStep(p) \/ MigrationStep(p) \/ ShutdownStep(p)
       \/ TakeRequest(p) \/ ClaimBegins(p) \/ ClaimEnds(p)
       \/ FinishWork(p) \/ ConnectionsReturned(p)
       \/ Signal(p) \/ Kill(p) \/ Restart(p)
  \/ DatabaseFails \/ DatabaseHangs \/ DatabaseReturns

StartupSpec == StartupInit /\ [][StartupNext]_startupVars

(***************************************************************************)
(* The processes' own steps are fair, and so are the answers of a database *)
(* that does not hang; outages and hangs end, and the supervisor restarts  *)
(* what failed.  PostgreSQL grants the migration lock in the order of the  *)
(* requests, so a process that waits for it is not passed over for ever.   *)
(* No FinishWork is fair: a worker's processor may hang, and nothing       *)
(* limits how long a request of the API takes to send its body.            *)
(***************************************************************************)
StartupFairness ==
  /\ \A p \in Process :
       /\ WF_startupVars(StartStep(p)) /\ WF_startupVars(MigrationStep(p))
       /\ SF_startupVars(MigrationLocks(p))
       /\ WF_startupVars(db # "hung" /\ ClaimEnds(p))
       /\ WF_startupVars(ConnectionsReturned(p))
       /\ WF_startupVars(ShutdownStep(p)) /\ WF_startupVars(Restart(p))
  /\ WF_startupVars(DatabaseReturns)

FairStartupSpec == StartupSpec /\ StartupFairness

---------------------------------------------------------------------------
(***************************************************************************)
(* Store::migrate is safe to run concurrently: what a process listed as    *)
(* not applied is still not applied when it comes to apply it, whatever    *)
(* other processes, outages and kills did in between, so no start fails on *)
(* a table another process created.                                        *)
(***************************************************************************)
ConcurrentMigrationsSafe ==
  \A p \in Process : pc[p] = "apply" /\ ~known[p] => ~schema

(***************************************************************************)
(* A process that migrates at start serves only with the schema in place,  *)
(* however its migration was interrupted before (main: migrate, then bind  *)
(* or run).                                                                *)
(***************************************************************************)
ServesOnSchema ==
  \A p \in Process : pc[p] \in Serving /\ MigrateOnStart(p) => schema

(***************************************************************************)
(* No process gets past its configuration with a number outside the        *)
(* documented range, a number that is set is taken as it is, never         *)
(* replaced by the default, and an API and a worker in one environment     *)
(* work on one database with the same limits (bounded_integer,             *)
(* from_lookup).                                                           *)
(***************************************************************************)
ConfiguredInRange ==
  \A p \in Process : settings[p] # <<>> =>
    /\ \A v \in DOMAIN settings[p] \cap DOMAIN BoundedInteger :
         /\ settings[p][v].n \in BoundedInteger[v].min .. BoundedInteger[v].max
         /\ env[v].form = "number" => settings[p][v] = env[v]
    /\ \A q \in Process : settings[q] # <<>> =>
         \A v \in Range(DatabaseVars) : settings[p][v] = settings[q][v]

(***************************************************************************)
(* An environment that both processes can use.                             *)
(***************************************************************************)
Usable ==
  /\ \A vars \in {ApiVars, WorkerVars} : FromLookup(env, vars).error = "none"
  /\ env["DATABASE_URL"].port # "bad"

(***************************************************************************)
(* In a usable environment every start leads to service (or to a signal),  *)
(* through outages, kills in the middle of a migration and restarts: no    *)
(* dead process blocks the migration of the others, and neither does an    *)
(* API that is started again and again because its address is taken.       *)
(***************************************************************************)
ServesInTheEnd ==
  \A p \in Process :
    Usable /\ (p \in Api => port # Stranger) /\ pc[p] = "start" ~>
      pc[p] \in Serving \/ code[p] = "signalled"

(***************************************************************************)
(* A signalled worker exits, also if its processor hangs (shutdown_timeout *)
(* in run), if the signal met a claim under way, and if connections of     *)
(* aborted tasks have yet to return to the pool that Store::close waits    *)
(* for.  A signalled API exits once its requests have ended, which is all  *)
(* that can be promised: serve waits for them without a limit.             *)
(***************************************************************************)
SignalledExits ==
  /\ \A p \in Worker : pc[p] \in {"stopping", "draining"} ~> pc[p] = "exited"
  /\ \A p \in Api : pc[p] = "draining" /\ active[p] = 0 ~> pc[p] = "exited"
============================================================================
