---------------------------- MODULE Admission ----------------------------
(***************************************************************************)
(* POST /v1/events: the `ingest` handler and the transaction of            *)
(* Store::admit, for clients that send the same idempotency key at the     *)
(* same time and send it again until they get a final answer.              *)
(*                                                                         *)
(* A scope is a (source, idempotency key) pair; a fingerprint is what      *)
(* RequestFingerprint::compute makes of the request.  Requests that fail   *)
(* validation never reach the store and are left out.                      *)
(***************************************************************************)
EXTENDS Faults, FiniteSets

CONSTANTS
  Client,          \* each sends one request, again and again if need be
  Scope,
  Fingerprint,
  MaxConnections   \* the size of the API's connection pool

ASSUME AdmissionAssumption == MaxConnections \in Nat \ {0}

VARIABLES
  request,   \* what each client wants admitted; never changes
  tries,     \* requests the client has sent
  step,      \* where the handler of the client's request is
  outcome,   \* the AdmitOutcome it has computed
  table,     \* the committed rows of table events
  limbo,     \* rows whose COMMIT was sent on a connection that then broke
  answers    \* every response a client has received

admissionVars == <<request, tries, step, outcome, table, limbo, answers, faults>>

Id == Client \X (1 .. MaxFaults + 1)   \* every request draws a fresh EventId
NoId == <<>>

Row == [id : Id, scope : Scope, fingerprint : Fingerprint]
Outcome == [kind : {"none", "created", "replayed", "conflict"}, id : Id \cup {NoId}]
Answer == [client : Client, code : {202, 409, 500, 503},
           id : Id \cup {NoId}, replayed : BOOLEAN]

NoOutcome == [kind |-> "none", id |-> NoId]

(***************************************************************************)
(* The type of the admission state.                                        *)
(***************************************************************************)
AdmissionTypeOK ==
  /\ request \in [Client -> [scope : Scope, fingerprint : Fingerprint]]
  /\ tries \in [Client -> 0 .. MaxFaults + 1]
  /\ step \in [Client -> {"idle", "begin", "insert", "lookup", "commit", "committed"}]
  /\ outcome \in [Client -> Outcome]
  /\ table \subseteq Row
  /\ limbo \subseteq Row
  /\ answers \subseteq Answer
  /\ faults \in 0 .. MaxFaults

AdmissionInit ==
  /\ request \in [Client -> [scope : Scope, fingerprint : Fingerprint]]
  /\ tries = [c \in Client |-> 0]
  /\ step = [c \in Client |-> "idle"]
  /\ outcome = [c \in Client |-> NoOutcome]
  /\ table = {}
  /\ limbo = {}
  /\ answers = {}
  /\ faults = 0

---------------------------------------------------------------------------
(* A request and its transaction.                                          *)

EventId(c) == <<c, tries[c]>>

(***************************************************************************)
(* The row a transaction has inserted and not yet committed.               *)
(***************************************************************************)
Inserted(c) == step[c] = "commit" /\ outcome[c].kind = "created"

NewRow(c) == [id |-> EventId(c), scope |-> request[c].scope,
              fingerprint |-> request[c].fingerprint]

(***************************************************************************)
(* Fault: a connection is not returned when its request is over.           *)
(***************************************************************************)
ConnectionsLeak == {c \in Client : tries[c] > 0}

(***************************************************************************)
(* The requests that hold a connection of the pool.                        *)
(***************************************************************************)
InTransaction == {c \in Client : step[c] \in {"insert", "lookup", "commit", "committed"}}

Settled(c) == \E a \in answers : a.client = c /\ a.code \in {202, 409}

StepTo(c, label) == step' = [step EXCEPT ![c] = label]

(***************************************************************************)
(* The request is over; the connection returns to the pool.                *)
(***************************************************************************)
End(c) ==
  /\ StepTo(c, "idle")
  /\ outcome' = [outcome EXCEPT ![c] = NoOutcome]

Respond(c, code, id, replayed) ==
  answers' = answers \cup {[client |-> c, code |-> code, id |-> id, replayed |-> replayed]}

(***************************************************************************)
(* The client sends its request, for the first time or because the last    *)
(* one ended in an error or in nothing.                                    *)
(***************************************************************************)
Send(c) ==
  /\ step[c] = "idle" /\ ~Settled(c)
  /\ tries' = [tries EXCEPT ![c] = @ + 1]
  /\ StepTo(c, "begin")
  /\ UNCHANGED <<request, outcome, table, limbo, answers, faults>>

(***************************************************************************)
(* pool.begin(): a connection is free, and the transaction starts.         *)
(***************************************************************************)
Begin(c) ==
  /\ step[c] = "begin"
  /\ Cardinality(InTransaction) < MaxConnections
  /\ StepTo(c, "insert")
  /\ UNCHANGED <<request, tries, outcome, table, limbo, answers, faults>>

(***************************************************************************)
(* Fault: no unique index, so nothing makes an insert wait.                *)
(***************************************************************************)
InsertNeverWaits(c) == FALSE

(***************************************************************************)
(* A row of this scope is inserted but not committed: the unique index     *)
(* makes the insert wait until that transaction has ended.                 *)
(***************************************************************************)
InsertWaits(c) ==
  \/ \E d \in Client \ {c} : Inserted(d) /\ request[d].scope = request[c].scope
  \/ \E r \in limbo : r.scope = request[c].scope

InScope(c) == {r \in table : r.scope = request[c].scope}

(***************************************************************************)
(* INSERT ... ON CONFLICT DO NOTHING RETURNING event_id                    *)
(***************************************************************************)
Insert(c) ==
  /\ step[c] = "insert"
  /\ ~InsertWaits(c)
  /\ IF InScope(c) = {}
     THEN /\ outcome' = [outcome EXCEPT ![c] = [kind |-> "created", id |-> EventId(c)]]
          /\ StepTo(c, "commit")
     ELSE /\ StepTo(c, "lookup")
          /\ UNCHANGED outcome
  /\ UNCHANGED <<request, tries, table, limbo, answers, faults>>

(***************************************************************************)
(* Fault: the lookup keeps the snapshot of the insert, without what a      *)
(* concurrent request has committed since.                                 *)
(***************************************************************************)
VisibleStale(c) == {r \in InScope(c) : step[r.id[1]] = "idle"}

(***************************************************************************)
(* The rows the lookup sees: a new snapshot of what is committed.          *)
(***************************************************************************)
Visible(c) == InScope(c)

(***************************************************************************)
(* Fault: a key that exists is a conflict, whatever was sent with it.      *)
(***************************************************************************)
LookupOutcomeConflict(c, r) == [kind |-> "conflict", id |-> NoId]

(***************************************************************************)
(* The existing row decides: same fingerprint, a replay; other             *)
(* fingerprint, a conflict.                                                *)
(***************************************************************************)
LookupOutcome(c, r) ==
  IF r.fingerprint = request[c].fingerprint
  THEN [kind |-> "replayed", id |-> r.id]
  ELSE [kind |-> "conflict", id |-> NoId]

(***************************************************************************)
(* The SELECT after a conflict.  To find no row is                         *)
(* StoreError::Inconsistent, which rolls back and is answered 500.         *)
(***************************************************************************)
Lookup(c) ==
  /\ step[c] = "lookup"
  /\ IF Visible(c) = {}
     THEN Respond(c, 500, NoId, FALSE) /\ End(c)
     ELSE /\ \E r \in Visible(c) : outcome' = [outcome EXCEPT ![c] = LookupOutcome(c, r)]
          /\ StepTo(c, "commit")
          /\ UNCHANGED answers
  /\ UNCHANGED <<request, tries, table, limbo, faults>>

(***************************************************************************)
(* Fault: the transaction is dropped without a commit.                     *)
(***************************************************************************)
CommitForgotten(c) ==
  /\ step[c] = "commit"
  /\ StepTo(c, "committed")
  /\ UNCHANGED <<request, tries, outcome, table, limbo, answers, faults>>

(***************************************************************************)
(* The database commits.                                                   *)
(***************************************************************************)
Commit(c) ==
  /\ step[c] = "commit"
  /\ table' = table \cup IF Inserted(c) THEN {NewRow(c)} ELSE {}
  /\ StepTo(c, "committed")
  /\ UNCHANGED <<request, tries, outcome, limbo, answers, faults>>

---------------------------------------------------------------------------
(* Answers and failures.                                                   *)

(***************************************************************************)
(* Fault: the Idempotency-Replayed header is always false.                 *)
(***************************************************************************)
ReplayedNever(o) == FALSE

(***************************************************************************)
(* The Idempotency-Replayed header.                                        *)
(***************************************************************************)
Replayed(o) == o.kind = "replayed"

(***************************************************************************)
(* `ingest` after a successful admit: 202 for a created or replayed event, *)
(* 409 for a key used with another request.                                *)
(***************************************************************************)
Reply(c) ==
  /\ step[c] = "committed"
  /\ IF outcome[c].kind = "conflict"
     THEN Respond(c, 409, NoId, FALSE)
     ELSE Respond(c, 202, outcome[c].id, Replayed(outcome[c]))
  /\ End(c)
  /\ UNCHANGED <<request, tries, table, limbo, faults>>

(***************************************************************************)
(* What becomes of the transaction when its connection breaks: nothing,    *)
(* unless the COMMIT had been sent.                                        *)
(***************************************************************************)
Break(c) ==
  /\ limbo' = limbo \cup IF Inserted(c) THEN {NewRow(c)} ELSE {}
  /\ End(c)

(***************************************************************************)
(* The connection breaks, or none is free within acquire_timeout: 503.     *)
(***************************************************************************)
Unavailable(c) ==
  /\ step[c] # "idle"
  /\ Fault
  /\ Respond(c, 503, NoId, FALSE)
  /\ Break(c)
  /\ UNCHANGED <<request, tries, table>>

(***************************************************************************)
(* statement_timeout cancels the insert or the lookup, and the transaction *)
(* is rolled back.  SQLSTATE 57014 is not among those From<sqlx::Error>    *)
(* takes for an outage: 500.                                               *)
(***************************************************************************)
StatementTimeout(c) ==
  /\ step[c] \in {"insert", "lookup"}
  /\ Fault
  /\ Respond(c, 500, NoId, FALSE)
  /\ End(c)
  /\ UNCHANGED <<request, tries, table, limbo>>

(***************************************************************************)
(* No answer reaches the client: it hangs up (which drops the handler), or *)
(* the API process dies.                                                   *)
(***************************************************************************)
NoAnswer(c) ==
  /\ step[c] # "idle"
  /\ Fault
  /\ Break(c)
  /\ UNCHANGED <<request, tries, table, answers>>

(***************************************************************************)
(* A COMMIT in limbo is executed, or rolled back with its connection.      *)
(***************************************************************************)
LimboCommits(r) ==
  /\ r \in limbo
  /\ limbo' = limbo \ {r}
  /\ table' = table \cup {r}
  /\ UNCHANGED <<request, tries, step, outcome, answers, faults>>

LimboRollsBack(r) ==
  /\ r \in limbo
  /\ limbo' = limbo \ {r}
  /\ UNCHANGED <<request, tries, step, outcome, table, answers, faults>>

Handler(c) ==
  \/ Begin(c)
  \/ Insert(c)
  \/ Lookup(c)
  \/ Commit(c)
  \/ Reply(c)

AdmissionNext ==
  \/ \E c \in Client :
       \/ Send(c)
       \/ Handler(c)
       \/ Unavailable(c)
       \/ StatementTimeout(c)
       \/ NoAnswer(c)
  \/ \E r \in limbo : LimboCommits(r) \/ LimboRollsBack(r)

AdmissionSpec == AdmissionInit /\ [][AdmissionNext]_admissionVars

(***************************************************************************)
(* Handlers run, a client without a final answer sends again, and a COMMIT *)
(* on a broken connection is executed or rolled back.                      *)
(***************************************************************************)
AdmissionFairness ==
  /\ \A c \in Client : WF_admissionVars(Send(c)) /\ WF_admissionVars(Handler(c))
  /\ WF_admissionVars(\E r \in limbo : LimboCommits(r) \/ LimboRollsBack(r))

FairAdmissionSpec == AdmissionSpec /\ AdmissionFairness

---------------------------------------------------------------------------
(***************************************************************************)
(* 202 means committed: whoever has been told 202 with an id finds, from   *)
(* then on, a committed row with that id and with the content it sent,     *)
(* also when the answer is a replay of somebody else's admission.          *)
(***************************************************************************)
AcceptedIsDurable ==
  \A a \in answers : a.code = 202 =>
    \E r \in table : /\ r.id = a.id
                     /\ r.scope = request[a.client].scope
                     /\ r.fingerprint = request[a.client].fingerprint

(***************************************************************************)
(* One event per key: concurrent requests and retries, also those whose    *)
(* first COMMIT was executed without anyone hearing of it, never put a     *)
(* second row into a scope.                                                *)
(***************************************************************************)
OneRowPerScope ==
  \A r, q \in table : r.scope = q.scope => r = q

(***************************************************************************)
(* 409 only on a real conflict: the key is taken by a committed event with *)
(* other content, so no retry of an honest client turns into a 409.        *)
(***************************************************************************)
ConflictIsReal ==
  \A a \in answers : a.code = 409 =>
    \E r \in table : /\ r.scope = request[a.client].scope
                     /\ r.fingerprint # request[a.client].fingerprint

(***************************************************************************)
(* "Rows are never deleted, so a conflict implies a visible row": the      *)
(* Inconsistent branch of admit is never taken.                            *)
(***************************************************************************)
LookupFindsRow ==
  \A c \in Client : step[c] = "lookup" => Visible(c) # {}

(***************************************************************************)
(* The guard of Handler.                                                   *)
(***************************************************************************)
HandlerReady(c) ==
  \/ step[c] = "begin" /\ Cardinality(InTransaction) < MaxConnections
  \/ step[c] = "insert" /\ ~InsertWaits(c)
  \/ step[c] \in {"lookup", "commit", "committed"}

(***************************************************************************)
(* No request waits in a circle: one that cannot go on waits for a COMMIT  *)
(* in limbo or for a transaction that can, also when the inserts that wait *)
(* for one key have taken every connection of the pool but one.            *)
(***************************************************************************)
NoRequestStuck ==
  \A c \in Client : step[c] # "idle" =>
    \/ HandlerReady(c)
    \/ limbo # {}
    \/ \E d \in InTransaction \ {c} : HandlerReady(d)

(***************************************************************************)
(* The handler and its transaction do nothing the intake does not promise: *)
(* seen without the transactions under way, every COMMIT, also one nobody  *)
(* hears of, is the atomic creation of an event, and every response is one *)
(* that the events admitted so far allow.                                  *)
(***************************************************************************)
Intake == INSTANCE IdempotentIntake WITH events <- table

ImplementsIntake == Intake!IntakeSpec

(***************************************************************************)
(* Every client that sends its request gets 202 or 409 in the end, once    *)
(* failures stop: no transaction waits for ever behind another one or for  *)
(* a connection of the pool.                                               *)
(***************************************************************************)
ClientsSettle ==
  \A c \in Client : step[c] # "idle" ~> Settled(c)
==========================================================================
