------------------------- MODULE IdempotentIntake -------------------------
(***************************************************************************)
(* What POST /v1/events promises its clients, with each effect one atomic  *)
(* step: a scope (source and idempotency key) holds at most one event,     *)
(* which appears once and never changes, and an answer speaks of an event  *)
(* that is there.  Admission implements this with a transaction of several *)
(* statements, a connection pool and every failure in between.             *)
(***************************************************************************)
CONSTANTS Client, Scope, Fingerprint, Id, NoId

VARIABLES
  request,   \* what each client wants admitted; never changes
  events,    \* the admitted events
  answers    \* every response a client has received

intakeVars == <<request, events, answers>>

IntakeInit ==
  /\ request \in [Client -> [scope : Scope, fingerprint : Fingerprint]]
  /\ events = {}
  /\ answers = {}

InScopeOf(c) == {e \in events : e.scope = request[c].scope}

Told(c, code, id, replayed) ==
  /\ answers' = answers \cup {[client |-> c, code |-> code, id |-> id, replayed |-> replayed]}
  /\ UNCHANGED <<request, events>>

(***************************************************************************)
(* The request of c becomes an event, whether or not c ever hears of it.   *)
(***************************************************************************)
CreateEvent(c, id) ==
  /\ InScopeOf(c) = {}
  /\ \A e \in events : e.id # id
  /\ events' = events \cup {[id |-> id, scope |-> request[c].scope,
                             fingerprint |-> request[c].fingerprint]}
  /\ UNCHANGED <<request, answers>>

(***************************************************************************)
(* 202, with the event of the scope.  Only one answer of each event says   *)
(* that it is new.                                                         *)
(***************************************************************************)
Accept(c, e, replayed) ==
  /\ e \in InScopeOf(c)
  /\ e.fingerprint = request[c].fingerprint
  /\ replayed \/ \A a \in answers : a.id = e.id => a.replayed
  /\ Told(c, 202, e.id, replayed)

(***************************************************************************)
(* 409: the key belongs to an event with other content.                    *)
(***************************************************************************)
Refuse(c) ==
  /\ \E e \in InScopeOf(c) : e.fingerprint # request[c].fingerprint
  /\ Told(c, 409, NoId, FALSE)

(***************************************************************************)
(* An error, which says nothing of whether there is an event.              *)
(***************************************************************************)
Fail(c) == \E code \in {500, 503} : Told(c, code, NoId, FALSE)

IntakeNext ==
  \E c \in Client :
    \/ \E id \in Id : CreateEvent(c, id)
    \/ \E e \in events, replayed \in BOOLEAN : Accept(c, e, replayed)
    \/ Refuse(c)
    \/ Fail(c)

IntakeSpec == IntakeInit /\ [][IntakeNext]_intakeVars
===========================================================================
