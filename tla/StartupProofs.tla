--------------------------- MODULE StartupProofs ---------------------------
(***************************************************************************)
(* The start of any number of API and worker processes on one database, in *)
(* any environments, with any number of outages, hangs, kills and restarts; *)
(* and what their configuration parses to.                                 *)
(***************************************************************************)
EXTENDS Startup, TLAPS, WellFoundedInduction

---------------------------------------------------------------------------
(* The start and the migrations.                                           *)

StartupTypes ==
  /\ pc \in [Process -> {"start", "connect", "lock", "failed", "bind", "exited"}
                          \cup Migrating \cup Serving]
  /\ known \in [Process -> BOOLEAN]
  /\ schema \in BOOLEAN
  /\ DOMAIN settings = Process

(***************************************************************************)
(* A process between listing and unlocking holds the lock.                 *)
(***************************************************************************)
LockHeld == \A p \in Process : pc[p] \in Migrating => lock = p

(***************************************************************************)
(* Past the migration the schema is there.                                 *)
(***************************************************************************)
SchemaReady ==
  \A p \in Process :
    /\ pc[p] = "unlock" => schema
    /\ pc[p] \in {"bind"} \cup Serving /\ MigrateOnStart(p) => schema

StartupInv == StartupTypes /\ LockHeld /\ ConcurrentMigrationsSafe /\ SchemaReady

---------------------------------------------------------------------------
(***************************************************************************)
(* The steps of main that leave the migration alone: p goes on, past the   *)
(* migration only if it has none to do, or exits.                          *)
(***************************************************************************)
OutsideMigration(p) ==
  /\ \E l \in {"start", "connect", "lock", "bind", "exited"} \cup Serving :
       /\ pc' = [pc EXCEPT ![p] = l]
       /\ l \in {"bind"} \cup Serving =>
            pc[p] \in {"bind"} \cup Serving \/ ~MigrateOnStart(p)
       /\ l \in {"bind"} \cup Serving => UNCHANGED settings
  /\ \A q \in Process \ {p} : settings'[q] = settings[q]
  /\ DOMAIN settings' = Process
  /\ known' \in [Process -> BOOLEAN]
  /\ \A q \in Process \ {p} : known'[q] = known[q]
  /\ lock' \in {lock, Release(lock, p)}
  /\ UNCHANGED schema

(***************************************************************************)
(* Such a step keeps the invariant: the lock of another process stays, and *)
(* nothing is applied.                                                     *)
(***************************************************************************)
LEMMA OutsideKeepsInv ==
  ASSUME StartupInv, NEW p \in Process, OutsideMigration(p)
  PROVE  StartupInv'
<1> PICK l \in {"start", "connect", "lock", "bind", "exited"} \cup Serving :
         /\ pc' = [pc EXCEPT ![p] = l]
         /\ l \in {"bind"} \cup Serving =>
              pc[p] \in {"bind"} \cup Serving \/ ~MigrateOnStart(p)
         /\ l \in {"bind"} \cup Serving => UNCHANGED settings
  BY Zenon DEF OutsideMigration
<1>1. pc'[p] = l /\ \A q \in Process \ {p} : pc'[q] = pc[q]
  BY DEF StartupInv, StartupTypes
<1>2. StartupTypes'
  BY ZenonT(30) DEF StartupInv, StartupTypes, OutsideMigration
<1>3. LockHeld'
  BY <1>1 DEF StartupInv, LockHeld, OutsideMigration, Release, Migrating, Serving, Claiming
<1>4. ConcurrentMigrationsSafe'
  BY <1>1 DEF StartupInv, ConcurrentMigrationsSafe, OutsideMigration, Serving, Claiming
<1>5. SchemaReady'
  BY <1>1, SMTT(30) DEF StartupInv, SchemaReady, OutsideMigration, MigrateOnStart, Serving, Claiming
<1>6. QED
  BY <1>2, <1>3, <1>4, <1>5, SMTT(30) DEF StartupInv

(***************************************************************************)
(* Configuration, service, shutdown, kills and restarts are such steps.    *)
(***************************************************************************)
LEMMA OutsideSteps ==
  ASSUME StartupInv, NEW p \in Process,
         \/ StartStep(p) \/ ShutdownStep(p)
         \/ TakeRequest(p) \/ ClaimBegins(p) \/ ClaimEnds(p)
         \/ FinishWork(p) \/ ConnectionsReturned(p)
         \/ Signal(p) \/ Kill(p) \/ Restart(p)
         \/ MigrationLockFails(p) \/ MigrationFails(p)
  PROVE  OutsideMigration(p) \/ UNCHANGED <<pc, settings, known, schema, lock>>
<1> USE DEF StartupInv, StartupTypes, OutsideMigration, Exit, Goto, Serving, Claiming
<1>1. CASE Configure(p)
  BY <1>1 DEF Configure
<1>2. CASE ConnectLazy(p)
  BY <1>2 DEF ConnectLazy, AfterMigration
<1>3. CASE Bind(p)
  BY <1>3 DEF Bind
<1>4. CASE TakeRequest(p) \/ FinishWork(p) \/ ConnectionsReturned(p)
  BY <1>4 DEF TakeRequest, FinishWork, ConnectionsReturned, databaseVars
<1>5. CASE Signal(p)
  BY <1>5 DEF Signal
<1>6. CASE Drained(p) \/ DrainTimesOut(p)
  BY <1>6, ZenonT(30) DEF Drained, DrainTimesOut, databaseVars
<1>7. CASE Close(p) \/ Kill(p)
  BY <1>7, ZenonT(30) DEF Close, Kill
<1>8. CASE MigrationLockFails(p)
  BY <1>8, ZenonT(30) DEF MigrationLockFails
<1>9. CASE MigrationFails(p)
  BY <1>9, ZenonT(30) DEF MigrationFails
<1>10. CASE Restart(p)
  BY <1>10, SMTT(30) DEF Restart, databaseVars
<1>11. CASE ClaimBegins(p)
  BY <1>11 DEF ClaimBegins, databaseVars
<1>12. CASE ClaimEnds(p)
  BY <1>12 DEF ClaimEnds, databaseVars
<1>13. QED
  BY <1>1, <1>2, <1>3, <1>4, <1>5, <1>6, <1>7, <1>8, <1>9, <1>10, <1>11, <1>12, ZenonT(30)
     DEF StartStep, ShutdownStep

(***************************************************************************)
(* The migration keeps the invariant: what p listed is still true when it  *)
(* applies, as everyone else would need the lock to change it.             *)
(***************************************************************************)
LEMMA MigrationKeepsInv ==
  ASSUME StartupInv, NEW p \in Process,
         \/ MigrationLocks(p) \/ MigrationLists(p)
         \/ MigrationApplies(p) \/ MigrationUnlocks(p)
  PROVE  StartupInv'
<1> USE DEF StartupInv, StartupTypes, LockHeld, ConcurrentMigrationsSafe, SchemaReady,
            MigrateOnStart, Migrating, Serving, Claiming, Goto
<1>0. Nobody # p /\ \A q \in Process : q # Nobody
  BY StartupConstants DEF Process
<1>1. CASE MigrationLocks(p)
  BY <1>0, <1>1 DEF MigrationLocks
<1>2. CASE MigrationLists(p)
  BY <1>2 DEF MigrationLists, databaseVars
<1>3. CASE MigrationApplies(p)
  BY <1>0, <1>3, ZenonT(30) DEF MigrationApplies, Exit, Release
<1>4. CASE MigrationUnlocks(p)
  BY <1>0, <1>4 DEF MigrationUnlocks, Release, AfterMigration
<1>5. QED
  BY <1>1, <1>2, <1>3, <1>4, SMTT(30)

(***************************************************************************)
(* An outage ends the sessions together with their lock; a hang leaves     *)
(* them both.                                                              *)
(***************************************************************************)
LEMMA DatabaseKeepsInv ==
  ASSUME StartupInv, DatabaseFails \/ DatabaseHangs \/ DatabaseReturns
  PROVE  StartupInv'
<1> USE DEF StartupInv, StartupTypes, LockHeld, ConcurrentMigrationsSafe, SchemaReady,
            MigrateOnStart, Migrating, Serving, Claiming
<1>1. CASE DatabaseFails
  BY <1>1 DEF DatabaseFails
<1>2. CASE DatabaseHangs \/ DatabaseReturns
  BY <1>2 DEF DatabaseHangs, DatabaseReturns, processVars
<1>3. QED
  BY <1>1, <1>2

(***************************************************************************)
(* StartupInv holds in every state.                                        *)
(***************************************************************************)
THEOREM StartupInvariant == StartupSpec => []StartupInv
<1>1. StartupInit => StartupInv
  BY DEF StartupInit, StartupInv, StartupTypes, LockHeld, ConcurrentMigrationsSafe,
         SchemaReady, Migrating, Serving, Claiming
<1>2. StartupInv /\ [StartupNext]_startupVars => StartupInv'
  <2> SUFFICES ASSUME StartupInv, [StartupNext]_startupVars
               PROVE  StartupInv'
    OBVIOUS
  <2>1. CASE UNCHANGED <<pc, settings, known, schema, lock>>
    BY <2>1 DEF StartupInv, StartupTypes, LockHeld, ConcurrentMigrationsSafe,
                SchemaReady, MigrateOnStart
  <2>2. CASE UNCHANGED startupVars
    BY <2>1, <2>2 DEF startupVars, processVars, databaseVars
  <2>3. CASE DatabaseFails \/ DatabaseHangs \/ DatabaseReturns
    BY <2>3, DatabaseKeepsInv, ZenonT(30)
  <2>4. ASSUME NEW p \in Process,
               \/ StartStep(p) \/ MigrationStep(p) \/ ShutdownStep(p)
               \/ TakeRequest(p) \/ ClaimBegins(p) \/ ClaimEnds(p)
               \/ FinishWork(p) \/ ConnectionsReturned(p)
               \/ Signal(p) \/ Kill(p) \/ Restart(p)
        PROVE  StartupInv'
    BY <2>1, <2>4, OutsideSteps, OutsideKeepsInv, MigrationKeepsInv, SMTT(30) DEF MigrationStep
  <2>5. QED
    BY <2>2, <2>3, <2>4 DEF StartupNext
<1>3. QED
  BY <1>1, <1>2, PTL DEF StartupSpec

(***************************************************************************)
(* Store::migrate is safe to run concurrently, by any number of processes: *)
(* what one listed as missing is missing until it applies it.              *)
(***************************************************************************)
THEOREM StartupMigrationsSafe == StartupSpec => []ConcurrentMigrationsSafe
BY StartupInvariant, PTL DEF StartupInv

(***************************************************************************)
(* Every process that migrates at start serves only with the schema in     *)
(* place.                                                                  *)
(***************************************************************************)
THEOREM StartupServesOnSchema == StartupSpec => []ServesOnSchema
<1>1. StartupInv => ServesOnSchema
  BY DEF StartupInv, SchemaReady, ServesOnSchema
<1>2. QED
  BY <1>1, StartupInvariant, PTL

---------------------------------------------------------------------------
(* What a process holds, and what it leaves behind.                        *)

(***************************************************************************)
(* Whoever holds something is alive and can let go of it: the migration    *)
(* lock is held by a process in the middle of its migration, on a database *)
(* that is not down, and the bind address by the one API that listens on   *)
(* it.                                                                     *)
(***************************************************************************)
HoldersAlive ==
  /\ lock # Nobody => lock \in Process /\ pc[lock] \in Migrating /\ db # "down"
  /\ \A p \in Api : port = p <=> pc[p] = "running"

(***************************************************************************)
(* A process has work in hand only between its start of service and the    *)
(* end of its drain, has an exit code exactly when it has ended, and       *)
(* reports success only if it dropped nothing.                             *)
(***************************************************************************)
WorkInHand ==
  /\ active \in [Process -> Nat] /\ dropped \in [Process -> Nat]
  /\ DOMAIN pc = Process /\ DOMAIN code = Process
  /\ \A p \in Process :
       /\ active[p] > 0 => pc[p] \in {"running", "claiming", "stopping", "draining"}
       /\ dropped[p] > 0 => pc[p] \in {"closing", "exited"}
       /\ code[p] # "none" <=> pc[p] = "exited"
       /\ code[p] = "success" => dropped[p] = 0

(***************************************************************************)
(* Every step keeps WorkInHand: a process leaves the drain with nothing in *)
(* hand, because all is finished, or aborted and counted as dropped.       *)
(***************************************************************************)
LEMMA WorkStep ==
  WorkInHand /\ [StartupNext]_startupVars => WorkInHand'
<1> SUFFICES ASSUME WorkInHand, [StartupNext]_startupVars
             PROVE  WorkInHand'
  OBVIOUS
<1> USE DEF WorkInHand, Goto, Exit, AfterMigration, Migrating
<1>1. ASSUME NEW p \in Process, Configure(p)
      PROVE  WorkInHand'
  BY <1>1 DEF Configure
<1>2. ASSUME NEW p \in Process, ConnectLazy(p)
      PROVE  WorkInHand'
  BY <1>2 DEF ConnectLazy
<1>3. ASSUME NEW p \in Process, Bind(p)
      PROVE  WorkInHand'
  BY <1>3 DEF Bind
<1>4. ASSUME NEW p \in Process, MigrationLocks(p)
      PROVE  WorkInHand'
  BY <1>4 DEF MigrationLocks
<1>5. ASSUME NEW p \in Process, MigrationLists(p)
      PROVE  WorkInHand'
  BY <1>5 DEF MigrationLists
<1>6. ASSUME NEW p \in Process, MigrationApplies(p)
      PROVE  WorkInHand'
  BY <1>6 DEF MigrationApplies
<1>7. ASSUME NEW p \in Process, MigrationUnlocks(p)
      PROVE  WorkInHand'
  BY <1>7 DEF MigrationUnlocks
<1>8. ASSUME NEW p \in Process, MigrationLockFails(p)
      PROVE  WorkInHand'
  BY <1>8 DEF MigrationLockFails
<1>9. ASSUME NEW p \in Process, MigrationFails(p)
      PROVE  WorkInHand'
  BY <1>9 DEF MigrationFails
<1>10. ASSUME NEW p \in Process, Drained(p)
      PROVE  WorkInHand'
  BY <1>10 DEF Drained
<1>11. ASSUME NEW p \in Process, DrainTimesOut(p)
      PROVE  WorkInHand'
  BY <1>11 DEF DrainTimesOut
<1>12. ASSUME NEW p \in Process, Close(p)
      PROVE  WorkInHand'
  BY <1>12 DEF Close
<1>13. ASSUME NEW p \in Process, TakeRequest(p)
      PROVE  WorkInHand'
  BY <1>13 DEF TakeRequest
<1>14. ASSUME NEW p \in Process, FinishWork(p)
      PROVE  WorkInHand'
  BY <1>14 DEF FinishWork
<1>15. ASSUME NEW p \in Process, Signal(p)
      PROVE  WorkInHand'
  BY <1>15 DEF Signal
<1>16. ASSUME NEW p \in Process, Kill(p)
      PROVE  WorkInHand'
  BY <1>16 DEF Kill
<1>17. ASSUME NEW p \in Process, Restart(p)
      PROVE  WorkInHand'
  BY <1>17 DEF Restart
<1>18. CASE DatabaseFails
  BY <1>18 DEF DatabaseFails
<1>19. CASE UNCHANGED processVars
  BY <1>19 DEF processVars
<1>20. ASSUME NEW p \in Process, ClaimBegins(p)
      PROVE  WorkInHand'
  BY <1>20 DEF ClaimBegins
<1>21. ASSUME NEW p \in Process, ClaimEnds(p)
      PROVE  WorkInHand'
  BY <1>21, StartupConstants DEF ClaimEnds, Claiming
<1>22. ASSUME NEW p \in Process, ConnectionsReturned(p)
      PROVE  WorkInHand'
  BY <1>22 DEF ConnectionsReturned
<1>23. QED
  BY <1>1, <1>2, <1>3, <1>4, <1>5, <1>6, <1>7, <1>8, <1>9, <1>10, <1>11, <1>12, <1>13, <1>14,
     <1>15, <1>16, <1>17, <1>18, <1>19, <1>20, <1>21, <1>22, ZenonT(30)
     DEF StartupNext, StartStep, MigrationStep, ShutdownStep, DatabaseHangs, DatabaseReturns,
         startupVars

(***************************************************************************)
(* Every step keeps HoldersAlive: a lock and a listener go with their      *)
(* process, and an outage takes the lock from the session it breaks.       *)
(***************************************************************************)
LEMMA HoldersStep ==
  WorkInHand /\ HoldersAlive /\ [StartupNext]_startupVars => HoldersAlive'
<1> SUFFICES ASSUME WorkInHand, HoldersAlive, [StartupNext]_startupVars
             PROVE  HoldersAlive'
  OBVIOUS
<1> USE StartupConstants
    DEF WorkInHand, HoldersAlive, Goto, Exit, Release, AfterMigration, Migrating, Process,
        databaseVars
<1>1. ASSUME NEW p \in Process, Configure(p)
      PROVE  HoldersAlive'
  BY <1>1 DEF Configure
<1>2. ASSUME NEW p \in Process, ConnectLazy(p)
      PROVE  HoldersAlive'
  BY <1>2 DEF ConnectLazy
<1>3. ASSUME NEW p \in Process, Bind(p)
      PROVE  HoldersAlive'
  BY <1>3 DEF Bind
<1>4. ASSUME NEW p \in Process, MigrationLocks(p)
      PROVE  HoldersAlive'
  BY <1>4 DEF MigrationLocks
<1>5. ASSUME NEW p \in Process, MigrationLists(p)
      PROVE  HoldersAlive'
  BY <1>5 DEF MigrationLists
<1>6. ASSUME NEW p \in Process, MigrationApplies(p)
      PROVE  HoldersAlive'
  BY <1>6 DEF MigrationApplies
<1>7. ASSUME NEW p \in Process, MigrationUnlocks(p)
      PROVE  HoldersAlive'
  BY <1>7 DEF MigrationUnlocks
<1>8. ASSUME NEW p \in Process, MigrationLockFails(p)
      PROVE  HoldersAlive'
  BY <1>8 DEF MigrationLockFails
<1>9. ASSUME NEW p \in Process, MigrationFails(p)
      PROVE  HoldersAlive'
  BY <1>9 DEF MigrationFails
<1>10. ASSUME NEW p \in Process, Drained(p)
      PROVE  HoldersAlive'
  BY <1>10 DEF Drained
<1>11. ASSUME NEW p \in Process, DrainTimesOut(p)
      PROVE  HoldersAlive'
  BY <1>11 DEF DrainTimesOut
<1>12. ASSUME NEW p \in Process, Close(p)
      PROVE  HoldersAlive'
  BY <1>12 DEF Close
<1>13. ASSUME NEW p \in Process, TakeRequest(p)
      PROVE  HoldersAlive'
  BY <1>13 DEF TakeRequest
<1>14. ASSUME NEW p \in Process, FinishWork(p)
      PROVE  HoldersAlive'
  BY <1>14 DEF FinishWork
<1>15. ASSUME NEW p \in Process, Signal(p)
      PROVE  HoldersAlive'
  BY <1>15 DEF Signal
<1>16. ASSUME NEW p \in Process, Kill(p)
      PROVE  HoldersAlive'
  BY <1>16 DEF Kill
<1>17. ASSUME NEW p \in Process, Restart(p)
      PROVE  HoldersAlive'
  BY <1>17 DEF Restart
<1>18. CASE DatabaseFails
  BY <1>18 DEF DatabaseFails
<1>19. CASE DatabaseHangs \/ DatabaseReturns
  BY <1>19 DEF DatabaseHangs, DatabaseReturns, processVars
<1>20. CASE UNCHANGED startupVars
  BY <1>20 DEF startupVars, processVars
<1>21. ASSUME NEW p \in Process, ClaimBegins(p)
      PROVE  HoldersAlive'
  BY <1>21 DEF ClaimBegins
<1>22. ASSUME NEW p \in Process, ClaimEnds(p)
      PROVE  HoldersAlive'
  BY <1>22 DEF ClaimEnds, Claiming
<1>23. ASSUME NEW p \in Process, ConnectionsReturned(p)
      PROVE  HoldersAlive'
  BY <1>23 DEF ConnectionsReturned
<1>24. QED
  BY <1>1, <1>2, <1>3, <1>4, <1>5, <1>6, <1>7, <1>8, <1>9, <1>10, <1>11, <1>12, <1>13, <1>14,
     <1>15, <1>16, <1>17, <1>18, <1>19, <1>20, <1>21, <1>22, <1>23, ZenonT(30)
     DEF StartupNext, StartStep, MigrationStep, ShutdownStep

(***************************************************************************)
(* No dead or stuck process keeps the migration lock or the bind address   *)
(* from the others, and no two APIs listen on one address: the lock is a   *)
(* session's, the listener a process's, and both end with it.              *)
(***************************************************************************)
THEOREM StartupHoldersAlive == StartupSpec => []HoldersAlive
<1>1. StartupInit => WorkInHand /\ HoldersAlive
  BY StartupConstants DEF StartupInit, WorkInHand, HoldersAlive, Process
<1>2. QED
  BY <1>1, WorkStep, HoldersStep, PTL DEF StartupSpec

(***************************************************************************)
(* Exit code 0 means a clean end: nothing in hand, nothing dropped by the  *)
(* shutdown timeout (timed_out in the worker's report).                    *)
(***************************************************************************)
THEOREM StartupSuccessIsClean ==
  StartupSpec =>
    [](\A p \in Process : code[p] = "success" => active[p] = 0 /\ dropped[p] = 0)
<1>1. StartupInit => WorkInHand
  BY DEF StartupInit, WorkInHand
<1>2. WorkInHand => \A p \in Process : code[p] = "success" => active[p] = 0 /\ dropped[p] = 0
  BY DEF WorkInHand
<1>3. QED
  BY <1>1, <1>2, WorkStep, PTL DEF StartupSpec

---------------------------------------------------------------------------
(* What a configuration parses to.                                         *)

(***************************************************************************)
(* The variables a process reads.                                          *)
(***************************************************************************)
VarsOf(p) == IF p \in Api THEN ApiVars ELSE WorkerVars

(***************************************************************************)
(* from_lookup finds a bad variable if there is one: 0 means that every    *)
(* variable of the list is good, anything else is the place of a bad one.  *)
(***************************************************************************)
LEMMA FirstBadFound ==
  ASSUME NEW e, NEW vars \in Seq(Variable)
  PROVE  /\ FirstBad(e, vars) = 0 => \A v \in Range(vars) : VariableError(e, v) = "none"
         /\ FirstBad(e, vars) # 0 => VariableError(e, vars[FirstBad(e, vars)]) # "none"
<1> DEFINE bad == {i \in 1 .. Len(vars) : VariableError(e, vars[i]) # "none"}
<1>1. CASE bad # {}
  <2>1. PICK x \in bad : \A y \in bad : ~(<<y, x>> \in OpToRel(<, Nat))
    <3>1. bad \subseteq Nat
      OBVIOUS
    <3>2. QED
      BY <1>1, <3>1, WFMin, NatLessThanWellFounded, ZenonT(30)
  <2>2. \A y \in bad : x <= y
    <3> SUFFICES ASSUME NEW y \in bad
                 PROVE  x <= y
      OBVIOUS
    <3>1. x \in Nat /\ y \in Nat
      OBVIOUS
    <3>2. ~(y < x)
      BY <2>1, <3>1, ZenonT(30) DEF OpToRel
    <3>3. QED
      BY <3>1, <3>2
  <2>3. Min(bad) \in bad
    BY <2>2, Zenon DEF Min
  <2>4. FirstBad(e, vars) = Min(bad)
    BY <1>1 DEF FirstBad, SelectInSeq
  <2>5. QED
    BY <2>3, <2>4
<1>2. CASE bad = {}
  <2>1. FirstBad(e, vars) = 0
    BY <1>2 DEF FirstBad, SelectInSeq
  <2>2. QED
    BY <1>2, <2>1 DEF Range
<1>3. QED
  BY <1>1, <1>2

(***************************************************************************)
(* bounded_integer: a number that raises no error is in its range, the     *)
(* default is too, and a number that is set is taken as it is.             *)
(***************************************************************************)
LEMMA IntegerInRange ==
  ASSUME NEW e, NEW v \in DOMAIN BoundedInteger, VariableError(e, v) = "none"
  PROVE  /\ Setting(e, v).n \in BoundedInteger[v].min .. BoundedInteger[v].max
         /\ e[v].form = "number" => Setting(e, v) = e[v]
<1>1. v \notin {"DATABASE_URL", "MIGRATE_ON_START", "API_BIND"}
  BY DEF BoundedInteger
<1>2. BoundedInteger[v].default \in BoundedInteger[v].min .. BoundedInteger[v].max
  BY DEF BoundedInteger
<1>3. Default(v) = Number(BoundedInteger[v].default)
  BY <1>1 DEF Default
<1>4. \/ Lookup(e, v) = Unset
      \/ Lookup(e, v).n \in BoundedInteger[v].min .. BoundedInteger[v].max
  BY <1>1 DEF VariableError, BoundedIntegerError
<1>5. e[v].form = "number" => Lookup(e, v) = e[v] /\ Lookup(e, v) # Unset
  BY DEF Lookup, NotUnicode, Unset
<1>6. QED
  BY <1>2, <1>3, <1>4, <1>5 DEF Setting, Number

(***************************************************************************)
(* Both kinds of process read the variables of DatabaseConfig.             *)
(***************************************************************************)
LEMMA DatabaseVarsRead ==
  /\ ApiVars \in Seq(Variable) /\ WorkerVars \in Seq(Variable)
  /\ Range(DatabaseVars) \subseteq Range(ApiVars)
  /\ Range(DatabaseVars) \subseteq Range(WorkerVars)
<1>1. /\ Len(DatabaseVars) = 4 /\ Len(ApiVars) = 5 /\ Len(WorkerVars) = 8
      /\ \A i \in 1 .. 4 : ApiVars[i + 1] = DatabaseVars[i] /\ WorkerVars[i] = DatabaseVars[i]
  BY SMTT(60) DEF DatabaseVars, ApiVars, WorkerVars
<1>2. QED
  BY <1>1 DEF DatabaseVars, ApiVars, WorkerVars, Range, Variable

(***************************************************************************)
(* The settings of a process are what from_lookup makes of the environment *)
(* when it finds no error.                                                 *)
(***************************************************************************)
SettingsRead ==
  /\ DOMAIN settings = Process
  /\ \A p \in Process : settings[p] # <<>> =>
       /\ FirstBad(env, VarsOf(p)) = 0
       /\ settings[p] = [v \in Range(VarsOf(p)) |-> Setting(env, v)]

(***************************************************************************)
(* Only Configure gives a process its settings, and only a restart takes   *)
(* them away; the environment stays.                                       *)
(***************************************************************************)
LEMMA SettingsStep ==
  SettingsRead /\ [StartupNext]_startupVars => SettingsRead'
<1> SUFFICES ASSUME SettingsRead, [StartupNext]_startupVars
             PROVE  SettingsRead'
  OBVIOUS
<1>1. CASE UNCHANGED <<env, settings>>
  BY <1>1 DEF SettingsRead
<1>2. ASSUME NEW p \in Process, Configure(p)
      PROVE  SettingsRead'
  <2>1. CASE FirstBad(env, VarsOf(p)) # 0
    <3>1. FromLookup(env, VarsOf(p)).error # "none"
      BY <2>1, FirstBadFound, DatabaseVarsRead DEF FromLookup, VarsOf
    <3>2. UNCHANGED <<env, settings>>
      BY <1>2, <3>1, ZenonT(30) DEF Configure, VarsOf
    <3>3. QED
      BY <1>1, <3>2
  <2>2. CASE FirstBad(env, VarsOf(p)) = 0
    <3>1. /\ FromLookup(env, VarsOf(p)).error = "none"
          /\ FromLookup(env, VarsOf(p)).settings = [v \in Range(VarsOf(p)) |-> Setting(env, v)]
      BY <2>2 DEF FromLookup
    <3>2. QED
      BY <1>2, <2>2, <3>1 DEF Configure, VarsOf, SettingsRead
  <2>3. QED
    BY <2>1, <2>2
<1>3. ASSUME NEW p \in Process, Restart(p)
      PROVE  SettingsRead'
  BY <1>3 DEF Restart, SettingsRead
<1>4. QED
  BY <1>1, <1>2, <1>3, ZenonT(30)
     DEF StartupNext, StartStep, MigrationStep, ShutdownStep, ConnectLazy, Bind, MigrationLocks,
         MigrationLists, MigrationApplies, MigrationUnlocks, MigrationLockFails,
         MigrationFails, Drained, DrainTimesOut, Close, TakeRequest, ClaimBegins, ClaimEnds,
         FinishWork, ConnectionsReturned, Signal, Kill, DatabaseFails, DatabaseHangs,
         DatabaseReturns, startupVars, processVars

(***************************************************************************)
(* No process gets past its configuration with a number outside its range, *)
(* and all processes of one environment agree on the database.             *)
(***************************************************************************)
THEOREM StartupConfiguredInRange == StartupSpec => []ConfiguredInRange
<1>1. StartupInit => SettingsRead
  BY DEF StartupInit, SettingsRead
<1>2. ASSUME SettingsRead
      PROVE  ConfiguredInRange
  <2> SUFFICES ASSUME NEW p \in Process, settings[p] # <<>>
               PROVE  /\ \A v \in DOMAIN settings[p] \cap DOMAIN BoundedInteger :
                           /\ settings[p][v].n \in BoundedInteger[v].min .. BoundedInteger[v].max
                           /\ env[v].form = "number" => settings[p][v] = env[v]
                      /\ \A q \in Process : settings[q] # <<>> =>
                           \A v \in Range(DatabaseVars) : settings[p][v] = settings[q][v]
    BY DEF ConfiguredInRange
  <2>1. \A q \in Process : settings[q] # <<>> =>
          \A v \in Range(VarsOf(q)) : settings[q][v] = Setting(env, v) /\ VariableError(env, v) = "none"
    BY <1>2, FirstBadFound, DatabaseVarsRead DEF SettingsRead, VarsOf
  <2>2. DOMAIN settings[p] = Range(VarsOf(p))
    BY <1>2 DEF SettingsRead
  <2>3. \A v \in DOMAIN settings[p] \cap DOMAIN BoundedInteger :
          /\ settings[p][v].n \in BoundedInteger[v].min .. BoundedInteger[v].max
          /\ env[v].form = "number" => settings[p][v] = env[v]
    BY <2>1, <2>2, IntegerInRange
  <2>4. \A q \in Process : Range(DatabaseVars) \subseteq Range(VarsOf(q))
    BY DatabaseVarsRead DEF VarsOf
  <2>5. QED
    BY <2>1, <2>3, <2>4, ZenonT(30)
<1>3. QED
  BY <1>1, <1>2, SettingsStep, PTL DEF StartupSpec
============================================================================
