----------------------------- MODULE ApiProofs -----------------------------
(***************************************************************************)
(* An API process: what its handler lets in, for any keys, labels and      *)
(* payloads, and the connection pool its tasks share, for any number of    *)
(* probes, queries, slots and outages.                                     *)
(***************************************************************************)
EXTENDS Ingest, ConnectionPool, TLAPS

---------------------------------------------------------------------------
(* What the API lets in.                                                   *)

(***************************************************************************)
(* The checks of the handler, one after the other, come to the documented  *)
(* rules for the request as a whole.                                       *)
(***************************************************************************)
LEMMA ChecksAreTheRules ==
  ASSUME NEW r \in Request
  PROVE  MeetsRequestRules(r) <=>
           KeyError(r.key) = "none" /\ BodyError(r) = "none" /\ EventNew(r)
<1>1. /\ r.key \in Key /\ r.body \in Body
      /\ r.source \in Source \cup Type /\ r.event_type \in Source \cup Type
  BY DEF Request
<1>2. KeyError(r.key) = "none" <=> r.key.header = "ascii" /\ r.key.chars \in 1 .. 128
  BY <1>1, IngestConstants, ZenonT(30) DEF KeyError, MAX_IDEMPOTENCY_KEY_CHARS
<1>3. BodyError(r) = "none" <=> r.content_type = "json" /\ r.body = "event"
  BY <1>1, IngestConstants DEF BodyError
<1>4. EventSourceParses(r.source) <=>
        r.source.chars \in 1 .. 100 /\ ~r.source.control /\ ~r.source.blank
  BY <1>1, IngestConstants DEF EventSourceParses, ValidLabel, MAX_SOURCE_CHARS
<1>5. EventTypeParses(r.event_type) <=>
        r.event_type.chars \in 1 .. 150 /\ ~r.event_type.control /\ ~r.event_type.blank
  BY <1>1, IngestConstants DEF EventTypeParses, ValidLabel, MAX_EVENT_TYPE_CHARS
<1>6. QED
  BY <1>2, <1>3, <1>4, <1>5, SMTT(30) DEF MeetsRequestRules, EventNew

(***************************************************************************)
(* What the documented rules let through, the CHECKs of the table accept.  *)
(***************************************************************************)
LEMMA RulesFitTheTable ==
  ASSUME NEW r \in Request, MeetsRequestRules(r)
  PROVE  TableAccepts(r)
BY DEF MeetsRequestRules, TableAccepts

(***************************************************************************)
(* A stage is reached by passing the checks before it; a stored row holds  *)
(* labels that parse.                                                      *)
(***************************************************************************)
ChecksPassed ==
  /\ request \in Request
  /\ stage \in {"body", "event", "admit"} => KeyError(request.key) = "none"
  /\ stage \in {"event", "admit"} => BodyError(request) = "none"
  /\ stage = "admit" => EventNew(request)
  /\ row # NoRow => EventSourceParses(row.source) /\ EventTypeParses(row.event_type)

IngestInv == ChecksPassed /\ AdmittedRowsDecode /\ RefusesByTheRules

(***************************************************************************)
(* IngestInv holds in every state.                                         *)
(***************************************************************************)
THEOREM IngestInvariant == IngestSpec => []IngestInv
<1> USE DEF ChecksPassed, AdmittedRowsDecode, RefusesByTheRules
<1>1. IngestInit => IngestInv
  BY DEF IngestInit, IngestInv
<1>2. IngestInv /\ [IngestNext]_ingestVars => IngestInv'
  <2> SUFFICES ASSUME IngestInv, [IngestNext]_ingestVars
               PROVE  IngestInv'
    OBVIOUS
  <2> USE DEF IngestInv, Proceed, Refuse
  <2>0. MeetsRequestRules(request) <=>
          KeyError(request.key) = "none" /\ BodyError(request) = "none" /\ EventNew(request)
    BY ChecksAreTheRules
  <2>1. CASE CheckKey
    BY <2>0, <2>1 DEF CheckKey, KeyError
  <2>2. CASE CheckBody
    BY <2>0, <2>2 DEF CheckBody, BodyError
  <2>3. CASE NewEvent
    BY <2>0, <2>3, RulesFitTheTable DEF NewEvent
  <2>4. CASE Admit
    BY <2>0, <2>4 DEF Admit, EventNew
  <2>5. CASE ClaimRow
    BY <2>5 DEF ClaimRow
  <2>6. CASE UNCHANGED ingestVars
    BY <2>6 DEF ingestVars
  <2>7. QED
    BY <2>1, <2>2, <2>3, <2>4, <2>5, <2>6 DEF IngestNext
<1>3. QED
  BY <1>1, <1>2, PTL DEF IngestSpec

(***************************************************************************)
(* No client input reaches a CHECK of the table, and no stored row makes   *)
(* the claim of its batch fail (Event::new, EventSource::parse and         *)
(* EventType::parse against the schema).                                   *)
(***************************************************************************)
THEOREM IngestRowsDecode == IngestSpec => []AdmittedRowsDecode
BY IngestInvariant, PTL DEF IngestInv

(***************************************************************************)
(* `ingest` blames the client for exactly the requests that break a        *)
(* documented rule, whatever the keys, labels and payloads are.            *)
(***************************************************************************)
THEOREM IngestRefusesByTheRules == IngestSpec => []RefusesByTheRules
BY IngestInvariant, PTL DEF IngestInv

---------------------------------------------------------------------------
(* The connection pool.  A connection left over from before an outage      *)
(* never reaches the statements of a task that began after it.             *)

Active == {"acquire", "test", "execute"}   \* a task that has begun and is not answered

PoolTypes ==
  /\ db \in {"up", "down", "hung"}
  /\ socket \in [Connection -> {"none", "alive", "broken"}]
  /\ holder \in [Connection -> Task \cup {Free, Pool}]
  /\ pc \in [Task -> {"idle", "answered"} \cup Active]
  /\ DOMAIN outcome = Task
  /\ disturbed \in [Task -> BOOLEAN]

(***************************************************************************)
(* A task has a connection only while it tests or uses it, one at most,    *)
(* and never an empty slot.                                                *)
(***************************************************************************)
HoldsOne ==
  \A t \in Task, c \in Connection : holder[c] = t =>
    /\ pc[t] \in {"test", "execute"}
    /\ socket[c] # "none"
    /\ \A d \in Connection : holder[d] = t => d = c

(***************************************************************************)
(* What disturbs a task is noticed: it runs while the database is away, or *)
(* it uses a connection that has broken since its test.                    *)
(***************************************************************************)
OutagesNoticed ==
  \A t \in Task :
    /\ pc[t] \in Active /\ db # "up" => disturbed[t]
    /\ \A c \in Connection :
         pc[t] = "execute" /\ holder[c] = t /\ socket[c] = "broken" => disturbed[t]

PoolInv == PoolTypes /\ HoldsOne /\ OutagesNoticed /\ StaleConnectionsHarmless

---------------------------------------------------------------------------
(***************************************************************************)
(* Every step of a task keeps the invariant.  A connection gets from the   *)
(* pool to the statements by being opened or by passing its test, and is   *)
(* alive at that moment.                                                   *)
(***************************************************************************)
LEMMA TaskKeepsInv ==
  ASSUME PoolInv, NEW t \in Task, Begin(t) \/ TaskStep(t)
  PROVE  PoolInv'
<1> USE PoolConstants DEF PoolInv, PoolTypes, HoldsOne, OutagesNoticed,
        StaleConnectionsHarmless, Active, Goto, Answer, Idle, Empty
<1>0. \A u \in Task : u \notin {Free, Pool}
  BY DEF Task
<1>1. CASE Begin(t)
  <2>1. pc' = [pc EXCEPT ![t] = "acquire"] /\ UNCHANGED <<db, socket, holder, outcome>>
    BY <1>1 DEF Begin
  <2>2. disturbed' \in [Task -> BOOLEAN]
    BY <1>1, Zenon DEF Begin
  <2>3. /\ disturbed'[t] <=> db # "up"
        /\ \A u \in Task \ {t} : disturbed'[u] = disturbed[u]
    BY <1>1, Zenon DEF Begin
  <2>4. \A c \in Connection : holder[c] # t
    BY <1>1 DEF Begin
  <2>5. PoolTypes'
    BY <2>1, <2>2, Zenon
  <2>6. HoldsOne'
    BY <2>1, <2>4
  <2>7. OutagesNoticed'
    BY <2>1, <2>3, <2>4
  <2>8. StaleConnectionsHarmless'
    BY <2>1, <2>3
  <2>9. QED
    BY <2>5, <2>6, <2>7, <2>8
<1>2. CASE OpenFails(t)
  BY <1>2 DEF OpenFails
<1>3. ASSUME NEW c \in Connection, TakeIdle(t, c)
      PROVE  PoolInv'
  BY <1>0, <1>3 DEF TakeIdle
<1>4. ASSUME NEW c \in Connection, Open(t, c)
      PROVE  PoolInv'
  BY <1>0, <1>4 DEF Open
<1>5. ASSUME NEW c \in Connection, TestPasses(t, c)
      PROVE  PoolInv'
  BY <1>5 DEF TestPasses
<1>6. ASSUME NEW c \in Connection, TestFails(t, c)
      PROVE  PoolInv'
  <2>1. PoolTypes'
    BY <1>0, <1>6 DEF TestFails
  <2>2. HoldsOne'
    BY <1>0, <1>6 DEF TestFails
  <2>3. OutagesNoticed'
    BY <1>0, <1>6 DEF TestFails
  <2>4. StaleConnectionsHarmless'
    BY <1>0, <1>6 DEF TestFails
  <2>5. QED
    BY <2>1, <2>2, <2>3, <2>4
<1>7. ASSUME NEW c \in Connection, ExecutePasses(t, c)
      PROVE  PoolInv'
  <2>1. PoolTypes'
    BY <1>0, <1>7 DEF ExecutePasses
  <2>2. HoldsOne'
    BY <1>0, <1>7 DEF ExecutePasses
  <2>3. OutagesNoticed'
    BY <1>0, <1>7 DEF ExecutePasses
  <2>4. StaleConnectionsHarmless'
    BY <1>0, <1>7 DEF ExecutePasses
  <2>5. QED
    BY <2>1, <2>2, <2>3, <2>4
<1>8. ASSUME NEW c \in Connection, ExecuteFails(t, c)
      PROVE  PoolInv'
  <2>1. PoolTypes'
    BY <1>0, <1>8 DEF ExecuteFails
  <2>2. HoldsOne'
    BY <1>0, <1>8 DEF ExecuteFails
  <2>3. OutagesNoticed'
    BY <1>0, <1>8 DEF ExecuteFails
  <2>4. StaleConnectionsHarmless'
    BY <1>0, <1>8 DEF ExecuteFails
  <2>5. QED
    BY <2>1, <2>2, <2>3, <2>4
<1>9. QED
  BY <1>1, <1>2, <1>3, <1>4, <1>5, <1>6, <1>7, <1>8, ZenonT(30) DEF TaskStep

(***************************************************************************)
(* So do the time limits, the pool and the database.  An outage breaks     *)
(* connections in use, and disturbs the tasks that use them in the same    *)
(* step.                                                                   *)
(***************************************************************************)
LEMMA SurroundingsKeepInv ==
  ASSUME PoolInv,
         \/ \E t \in Task : TimesOut(t)
         \/ \E c \in Connection : Returned(c)
         \/ \E how \in {"down", "hung"} : DatabaseLeaves(how)
         \/ DatabaseReturns
  PROVE  PoolInv'
<1> USE PoolConstants DEF PoolInv, PoolTypes, HoldsOne, OutagesNoticed,
        StaleConnectionsHarmless, Active
<1>0. \A t \in Task : t \notin {Free, Pool}
  BY DEF Task
<1>1. ASSUME NEW t \in Task, TimesOut(t)
      PROVE  PoolInv'
  BY <1>0, <1>1 DEF TimesOut, Answer, Goto
<1>2. ASSUME NEW c \in Connection, Returned(c)
      PROVE  PoolInv'
  BY <1>0, <1>2 DEF Returned
<1>3. ASSUME NEW how \in {"down", "hung"}, DatabaseLeaves(how)
      PROVE  PoolInv'
  <2>1. PoolTypes'
    BY <1>3 DEF DatabaseLeaves
  <2>2. HoldsOne'
    BY <1>3 DEF DatabaseLeaves
  <2>3. OutagesNoticed'
    BY <1>3, Zenon DEF DatabaseLeaves
  <2>4. StaleConnectionsHarmless'
    BY <1>3 DEF DatabaseLeaves
  <2>5. QED
    BY <2>1, <2>2, <2>3, <2>4
<1>4. CASE DatabaseReturns
  BY <1>4 DEF DatabaseReturns
<1>5. QED
  BY <1>1, <1>2, <1>3, <1>4

(***************************************************************************)
(* PoolInv holds in every state.                                           *)
(***************************************************************************)
THEOREM PoolInvariant == PoolSpec => []PoolInv
<1>1. PoolInit => PoolInv
  BY PoolConstants DEF PoolInit, PoolInv, PoolTypes, HoldsOne, OutagesNoticed,
     StaleConnectionsHarmless, Active, Task
<1>2. PoolInv /\ [PoolNext]_poolVars => PoolInv'
  <2> SUFFICES ASSUME PoolInv, [PoolNext]_poolVars
               PROVE  PoolInv'
    OBVIOUS
  <2>1. CASE UNCHANGED poolVars
    BY <2>1 DEF poolVars, PoolInv, PoolTypes, HoldsOne, OutagesNoticed,
       StaleConnectionsHarmless
  <2>2. CASE PoolNext
    BY <2>2, TaskKeepsInv, SurroundingsKeepInv, Zenon DEF PoolNext
  <2>3. QED
    BY <2>1, <2>2
<1>3. QED
  BY <1>1, <1>2, PTL DEF PoolSpec

(***************************************************************************)
(* connect_lazy's test_before_acquire does what its comment says: a task   *)
(* that sees no outage is never told that the database is unavailable.     *)
(***************************************************************************)
THEOREM PoolStaleConnectionsHarmless == PoolSpec => []StaleConnectionsHarmless
BY PoolInvariant, PTL DEF PoolInv

---------------------------------------------------------------------------
(* No task and no slot of the pool is ever stuck.                          *)

(***************************************************************************)
(* The guard of TaskStep: the task's next step can be taken.               *)
(***************************************************************************)
CanStep(t) ==
  \/ pc[t] = "acquire" /\ Idle # {}
  \/ pc[t] = "acquire" /\ Empty # {} /\ db # "hung"
  \/ /\ pc[t] \in {"test", "execute"}
     /\ \E c \in Connection :
          /\ holder[c] = t
          /\ socket[c] = "broken" \/ db = "up"

(***************************************************************************)
(* A task that has begun can go on, or waits for the database or a slot,   *)
(* and a waiting probe has READINESS_TIMEOUT to end it.  A slot is free,   *)
(* in use by such a task, or back at a pool that can clear it as soon as   *)
(* the database answers: none is lost.                                     *)
(***************************************************************************)
NothingStuck ==
  /\ \A t \in Task : pc[t] \in Active => CanStep(t) \/ Waits(t)
  /\ \A t \in Probe : pc[t] \in Active => CanStep(t) \/ (Waits(t) /\ Limited(t))
  /\ \A c \in Connection :
       \/ holder[c] = Free
       \/ holder[c] \in Task /\ pc[holder[c]] \in {"test", "execute"}
       \/ holder[c] = Pool /\ socket[c] = "broken"
       \/ holder[c] = Pool /\ socket[c] = "alive" /\ db # "down"

(***************************************************************************)
(* A task that tests or executes has a connection, a database that is down *)
(* has none open, and what a task gives back is a connection.              *)
(***************************************************************************)
SlotsInUse ==
  /\ \A t \in Task : pc[t] \in {"test", "execute"} => \E c \in Connection : holder[c] = t
  /\ db = "down" => \A c \in Connection : socket[c] # "alive"
  /\ \A c \in Connection : holder[c] = Pool => socket[c] # "none"

(***************************************************************************)
(* Every step keeps it: a task lets go of its connection and leaves "test" *)
(* or "execute" in one step, whether it succeeds, fails or times out.      *)
(***************************************************************************)
LEMMA SlotsStep ==
  PoolInv /\ SlotsInUse /\ [PoolNext]_poolVars => SlotsInUse'
<1> SUFFICES ASSUME PoolInv, SlotsInUse, [PoolNext]_poolVars
             PROVE  SlotsInUse'
  OBVIOUS
<1> USE PoolConstants DEF PoolInv, PoolTypes, HoldsOne, SlotsInUse, Active, Goto, Answer,
        Idle, Empty
<1>0. \A u \in Task : u \notin {Free, Pool}
  BY DEF Task
<1>1. ASSUME NEW t \in Task, Begin(t) \/ OpenFails(t)
      PROVE  SlotsInUse'
  BY <1>1 DEF Begin, OpenFails
<1>2. ASSUME NEW t \in Task, NEW c \in Connection, TakeIdle(t, c)
      PROVE  SlotsInUse'
  BY <1>0, <1>2 DEF TakeIdle
<1>3. ASSUME NEW t \in Task, NEW c \in Connection, Open(t, c)
      PROVE  SlotsInUse'
  BY <1>0, <1>3 DEF Open
<1>4. ASSUME NEW t \in Task, NEW c \in Connection, TestPasses(t, c)
      PROVE  SlotsInUse'
  BY <1>4 DEF TestPasses
<1>5. ASSUME NEW t \in Task, NEW c \in Connection,
             TestFails(t, c) \/ ExecutePasses(t, c) \/ ExecuteFails(t, c)
      PROVE  SlotsInUse'
  BY <1>0, <1>5 DEF TestFails, ExecutePasses, ExecuteFails
<1>6. ASSUME NEW t \in Task, TimesOut(t)
      PROVE  SlotsInUse'
  BY <1>0, <1>6 DEF TimesOut
<1>7. ASSUME NEW c \in Connection, Returned(c)
      PROVE  SlotsInUse'
  BY <1>0, <1>7 DEF Returned
<1>8. ASSUME NEW how \in {"down", "hung"}, DatabaseLeaves(how)
      PROVE  SlotsInUse'
  BY <1>8 DEF DatabaseLeaves
<1>9. CASE DatabaseReturns
  BY <1>9 DEF DatabaseReturns
<1>10. CASE UNCHANGED poolVars
  BY <1>10 DEF poolVars
<1>11. QED
  BY <1>1, <1>2, <1>3, <1>4, <1>5, <1>6, <1>7, <1>8, <1>9, <1>10, ZenonT(30)
     DEF PoolNext, TaskStep

(***************************************************************************)
(* Whatever the database does, and however many tasks share however few    *)
(* slots, no task is stuck without a time limit that ends a probe, and no  *)
(* slot is lost: what "so probes never hang" (health.rs) rests on.         *)
(***************************************************************************)
THEOREM PoolNothingStuck == PoolSpec => []NothingStuck
<1>1. PoolInit => SlotsInUse
  BY PoolConstants DEF PoolInit, SlotsInUse
<1>2. ASSUME PoolInv, SlotsInUse
      PROVE  NothingStuck
  <2> USE DEF PoolInv, PoolTypes, HoldsOne, Active
  <2>1. ASSUME NEW t \in Task, pc[t] = "acquire"
        PROVE  CanStep(t) \/ Waits(t)
    BY <2>1 DEF CanStep, Waits
  <2>2. ASSUME NEW t \in Task, pc[t] \in {"test", "execute"}
        PROVE  CanStep(t) \/ Waits(t)
    <3>1. PICK c \in Connection : holder[c] = t
      BY <1>2, <2>2 DEF SlotsInUse
    <3>2. socket[c] = "broken" \/ socket[c] = "alive"
      BY <1>2, <3>1
    <3>3. socket[c] = "alive" => db = "up" \/ db = "hung"
      BY <1>2 DEF SlotsInUse
    <3>4. QED
      BY <2>2, <3>1, <3>2, <3>3, Zenon DEF CanStep, Waits
  <2>3. \A c \in Connection :
          \/ holder[c] = Free
          \/ holder[c] \in Task /\ pc[holder[c]] \in {"test", "execute"}
          \/ holder[c] = Pool /\ socket[c] = "broken"
          \/ holder[c] = Pool /\ socket[c] = "alive" /\ db # "down"
    BY <1>2 DEF SlotsInUse
  <2>4. QED
    BY <2>1, <2>2, <2>3 DEF NothingStuck, Limited, Task
<1>3. QED
  BY <1>1, <1>2, SlotsStep, PoolInvariant, PTL DEF PoolSpec
============================================================================
