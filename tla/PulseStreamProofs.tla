------------------------- MODULE PulseStreamProofs -------------------------
(***************************************************************************)
(* The whole service, for any clients, events, workers and number of       *)
(* faults.  What is proved of the API and of the workers each by itself    *)
(* holds of the two on one table, and clients are told the truth about     *)
(* their events.                                                           *)
(***************************************************************************)
EXTENDS PulseStream, RunReportProofs, AdmissionProofs

(***************************************************************************)
(* The rows that admissions have committed are the events the workers see. *)
(***************************************************************************)
TableAgrees == \A e \in Event : status[e] # "ABSENT" <=> \E r \in table : r.id = e

(***************************************************************************)
(* How far an event has come, on the scale of what clients are told.       *)
(***************************************************************************)
Reached(s) == Progress[ApiStatus(s)]

(***************************************************************************)
(* A client knows one event at most.  What it was told last is behind what *)
(* its GET has read, and that is behind the row.                           *)
(***************************************************************************)
ReadsSound ==
  /\ read \in [Client -> {"none", "sent"} \cup (Status \ {"ABSENT"})]
  /\ seen \in [Client -> DOMAIN Progress]
  /\ \A c \in Client :
       /\ Known(c) = {} => read[c] = "none" /\ seen[c] = "none"
       /\ \A e \in Known(c) :
            /\ \A f \in Known(c) : f = e
            /\ Progress[seen[c]] <= Reached(status[e])
            /\ read[c] \in Status =>
                 /\ Progress[seen[c]] <= Reached(read[c])
                 /\ Reached(read[c]) <= Reached(status[e])

ServiceInv ==
  /\ AdmissionInv
  /\ RuntimeInv /\ ReportInv /\ CreditInv
  /\ TableAgrees
  /\ ReadsSound

---------------------------------------------------------------------------
(* What a step of the service is to each of its parts.                     *)

(***************************************************************************)
(* Only a COMMIT changes the committed rows, by one row, and it is no      *)
(* fault.                                                                  *)
(***************************************************************************)
LEMMA OneRowAtATime ==
  ASSUME AdmissionNext
  PROVE  \/ UNCHANGED table
         \/ UNCHANGED faults /\ \E r : table' = table \cup {r}
<1>1. ASSUME NEW c \in Client,
             Send(c) \/ Handler(c) \/ Unavailable(c) \/ StatementTimeout(c) \/ NoAnswer(c)
      PROVE  \/ UNCHANGED table
             \/ UNCHANGED faults /\ \E r : table' = table \cup {r}
  <2>1. CASE Commit(c)
    BY <2>1 DEF Commit
  <2>2. CASE ~Commit(c)
    BY <1>1, <2>2, Zenon DEF Send, Handler, Begin, Insert, Lookup, Reply, Unavailable,
                             StatementTimeout, NoAnswer
  <2>3. QED
    BY <2>1, <2>2, ZenonT(30)
<1>2. ASSUME NEW r \in limbo, LimboCommits(r) \/ LimboRollsBack(r)
      PROVE  \/ UNCHANGED table
             \/ UNCHANGED faults /\ \E q : table' = table \cup {q}
  BY <1>2, Zenon DEF LimboCommits, LimboRollsBack
<1>3. QED
  BY <1>1, <1>2, Zenon DEF AdmissionNext

(***************************************************************************)
(* An admission counts its faults one by one too.                          *)
(***************************************************************************)
LEMMA ApiSide ==
  ASSUME RuntimeTypes, [ServiceNext]_serviceVars
  PROVE  \/ AdmissionNext
         \/ UNCHANGED apiVars /\ (Fault \/ UNCHANGED faults)
<1>1. CASE AdmissionStep(AdmissionNext)
  BY <1>1, Zenon DEF AdmissionStep
<1>2. CASE WorkerStep(Next /\ \A e \in Event : status[e] = "ABSENT" => status'[e] = "ABSENT")
  BY <1>2, FaultsCounted, Zenon DEF WorkerStep
<1>3. ASSUME NEW c \in Client, GetStep(c)
      PROVE  UNCHANGED apiVars /\ (Fault \/ UNCHANGED faults)
  BY <1>3, Zenon DEF GetStep, GetSent, GetExecutes, GetReturns, GetFails, vars
<1>4. CASE UNCHANGED serviceVars
  BY <1>4, Zenon DEF serviceVars, vars
<1>5. QED
  BY <1>1, <1>2, <1>3, <1>4, Zenon DEF ServiceNext

(***************************************************************************)
(* Faults elsewhere do no harm to the API: they only leave its clients     *)
(* fewer.                                                                  *)
(***************************************************************************)
LEMMA AdmissionInvKept ==
  ASSUME AdmissionInv, UNCHANGED apiVars, Fault \/ UNCHANGED faults
  PROVE  AdmissionInv'
<1> USE DEF apiVars
<1>1. faults \in Nat /\ faults' \in 0 .. MaxFaults /\ faults' >= faults
  BY FaultsAssumption DEF Fault, AdmissionInv, AdmissionTypeOK
<1>2. AdmissionTypeOK'
  BY <1>1 DEF AdmissionInv, AdmissionTypeOK
<1>3. RowsSound' /\ OutcomesSound'
  BY DEF AdmissionInv, RowsSound, OutcomesSound, Inserted, EventId, NewRow, InScope
<1>4. TriesCounted'
  BY <1>1, FaultsAssumption DEF AdmissionInv, TriesCounted, AdmissionTypeOK, Settled
<1>5. AnswersSound' /\ AcceptedIsDurable' /\ ConflictIsReal'
  BY DEF AdmissionInv, AnswersSound, AcceptedIsDurable, ConflictIsReal
<1>6. QED
  BY <1>2, <1>3, <1>4, <1>5 DEF AdmissionInv

(***************************************************************************)
(* A service step keeps the invariant of the API.                          *)
(***************************************************************************)
LEMMA ApiSideKept ==
  ASSUME RuntimeTypes, AdmissionInv, [ServiceNext]_serviceVars
  PROVE  AdmissionInv'
BY ApiSide, AdmissionInvKept, AdmissionInvStep, Zenon

(***************************************************************************)
(* To the workers a COMMIT of the API is an event admitted, and its faults *)
(* are nothing they would notice.                                          *)
(***************************************************************************)
LEMMA WorkerSide ==
  ASSUME RuntimeTypes, AdmissionInv, [ServiceNext]_serviceVars
  PROVE  \/ [Next]_vars
         \/ UNCHANGED <<lifecycleVars, runtimeVars>>
<1>1. CASE AdmissionStep(AdmissionNext)
  <2>1. CASE UNCHANGED table
    BY <1>1, <2>1, Zenon DEF AdmissionStep
  <2>2. CASE table' # table
    <3>1. PICK r \in table' \ table : Admit(r.id)
      BY <1>1, <2>2, Zenon DEF AdmissionStep
    <3>2. r.id \in Event
      BY ApiSideKept, ServiceAssumption DEF AdmissionInv, AdmissionTypeOK, Row
    <3>3. UNCHANGED faults
      BY <1>1, <2>2, OneRowAtATime, Zenon DEF AdmissionStep
    <3>4. EventAdmitted(r.id)
      BY <1>1, <3>1, <3>3, Zenon DEF EventAdmitted, AdmissionStep, runtimeVars
    <3>5. QED
      BY <3>2, <3>4, Zenon DEF Next, DatabaseStep
  <2>3. QED
    BY <2>1, <2>2
<1>2. CASE WorkerStep(Next /\ \A e \in Event : status[e] = "ABSENT" => status'[e] = "ABSENT")
  BY <1>2, Zenon DEF WorkerStep
<1>3. ASSUME NEW c \in Client, GetStep(c)
      PROVE  UNCHANGED <<lifecycleVars, runtimeVars>>
  BY <1>3, Zenon DEF GetStep, GetSent, GetExecutes, GetReturns, GetFails, vars, runtimeVars
<1>4. CASE UNCHANGED serviceVars
  BY <1>4, Zenon DEF serviceVars
<1>5. QED
  BY <1>1, <1>2, <1>3, <1>4, Zenon DEF ServiceNext

(***************************************************************************)
(* A service step keeps what is proved of the workers.                     *)
(***************************************************************************)
LEMMA WorkerSideKept ==
  ASSUME RuntimeInv, ReportInv, CreditInv, AdmissionInv, [ServiceNext]_serviceVars
  PROVE  RuntimeInv' /\ ReportInv' /\ CreditInv'
<1>1. CASE [Next]_vars
  BY <1>1, RuntimeInvStep, ReportStep, CreditStep, Zenon DEF RuntimeInv
<1>2. CASE UNCHANGED <<lifecycleVars, runtimeVars>>
  <2> USE <1>2 DEF lifecycleVars, runtimeVars, counters, late
  <2>1. RuntimeTypes'
    BY DEF RuntimeInv, RuntimeTypes, LifecycleTypeOK
  <2>2. ClaimsExclusive'
    BY DEF RuntimeInv, ClaimsExclusive, Holds, ClaimOf
  <2>3. HandledFirst' /\ SlotsSuffice'
    BY DEF RuntimeInv, HandledFirst, SlotsSuffice, ProcessedWasHandled
  <2>4. ReportInv'
    BY ZenonT(30) DEF ReportInv, CounterTypes, Balanced, Counted, Uncounted
  <2>5. CreditInv'
    BY DEF CreditInv, CreditedTo, Done
  <2>6. QED
    BY <2>1, <2>2, <2>3, <2>4, <2>5 DEF RuntimeInv
<1>3. QED
  BY <1>1, <1>2, WorkerSide DEF RuntimeInv

(***************************************************************************)
(* To the table of EventLifecycle every service step is one of its         *)
(* operations or nothing at all.                                           *)
(***************************************************************************)
LEMMA LifecycleSide ==
  ASSUME RuntimeTypes, AdmissionInv, [ServiceNext]_serviceVars
  PROVE  [LifecycleNext]_lifecycleVars
BY WorkerSide, LifecycleStep, Zenon

(***************************************************************************)
(* A commit of the API puts its row into the table of the workers in the   *)
(* same step, and no row comes from elsewhere.                             *)
(***************************************************************************)
LEMMA TableStep ==
  ASSUME RuntimeTypes, AdmissionInv, TableAgrees, [ServiceNext]_serviceVars
  PROVE  TableAgrees'
<1>0. LifecycleTypeOK /\ status \in [Event -> Status]
  BY DEF RuntimeTypes, LifecycleTypeOK
<1>1. CASE UNCHANGED <<table, status>>
  BY <1>1 DEF TableAgrees
<1>2. CASE AdmissionStep(AdmissionNext) /\ table' # table
  <2>1. PICK r : table' = table \cup {r}
    BY <1>2, OneRowAtATime, Zenon DEF AdmissionStep
  <2>2. PICK q \in table' \ table : Admit(q.id)
    BY <1>2, Zenon DEF AdmissionStep
  <2>3. q.id \in Event /\ q = r
    BY <2>1, <2>2, ApiSideKept, ServiceAssumption DEF AdmissionInv, AdmissionTypeOK, Row
  <2>4. status' = [status EXCEPT ![r.id] = "PENDING"]
    BY <2>2, <2>3 DEF Admit
  <2>5. QED
    BY <1>0, <2>1, <2>3, <2>4 DEF TableAgrees
<1>3. CASE WorkerStep(Next /\ \A e \in Event : status[e] = "ABSENT" => status'[e] = "ABSENT")
  <2>1. UNCHANGED table /\ \A e \in Event : status[e] = "ABSENT" => status'[e] = "ABSENT"
    BY <1>3, Zenon DEF WorkerStep, apiVars
  <2>2. \A e \in Event : status[e] # "ABSENT" => status'[e] # "ABSENT"
    BY <1>0, LifecycleSide, StatusMovesOn DEF Status
  <2>3. QED
    BY <2>1, <2>2 DEF TableAgrees
<1>4. CASE AdmissionStep(AdmissionNext) /\ UNCHANGED table
  BY <1>1, <1>4, Zenon DEF AdmissionStep, lifecycleVars
<1>5. ASSUME NEW c \in Client, GetStep(c)
      PROVE  UNCHANGED <<table, status>>
  BY <1>5, Zenon DEF GetStep, GetSent, GetExecutes, GetReturns, GetFails, vars, lifecycleVars,
                     apiVars
<1>6. CASE UNCHANGED serviceVars
  BY <1>1, <1>6, Zenon DEF serviceVars, vars, lifecycleVars, apiVars
<1>7. QED
  BY <1>1, <1>2, <1>3, <1>4, <1>5, <1>6, Zenon DEF ServiceNext

---------------------------------------------------------------------------
(* What clients know and are told.                                         *)

(***************************************************************************)
(* The scale of progress, and the place of each status on it.              *)
(***************************************************************************)
LEMMA Scale ==
  /\ DOMAIN Progress = {"none", "pending", "processing", "processed"}
  /\ \A p \in DOMAIN Progress : Progress[p] \in Nat
  /\ Progress["none"] = 0
  /\ Reached("PENDING") = 1 /\ Reached("PROCESSING") = 2 /\ Reached("PROCESSED") = 3
  /\ \A s \in Status \ {"ABSENT"} : ApiStatus(s) \in DOMAIN Progress /\ ApiStatus(s) # "404"
<1>1. /\ ApiStatus("PENDING") = "pending" /\ ApiStatus("PROCESSING") = "processing"
      /\ ApiStatus("PROCESSED") = "processed"
  BY DEF ApiStatus
<1>2. QED
  BY <1>1 DEF Reached, Progress, Status

(***************************************************************************)
(* An event a client knows is in the table: the id in a 202 is that of a   *)
(* committed row.                                                          *)
(***************************************************************************)
KnownInTable == \A c \in Client : Known(c) \subseteq {e \in Event : status[e] # "ABSENT"}

LEMMA KnownRows == RuntimeTypes /\ AdmissionInv /\ TableAgrees => KnownInTable
<1> SUFFICES ASSUME RuntimeTypes, AdmissionInv, TableAgrees, NEW c \in Client, NEW e \in Known(c)
             PROVE  e \in Event /\ status[e] # "ABSENT"
  BY Zenon DEF KnownInTable
<1>1. PICK r \in table : r.id = e
  BY Zenon DEF Known, AdmissionInv, AcceptedIsDurable
<1>2. e \in Event
  BY <1>1, ServiceAssumption DEF AdmissionInv, AdmissionTypeOK, Row
<1>3. QED
  BY <1>1, <1>2, Zenon DEF TableAgrees

(***************************************************************************)
(* An event a client knows never goes back.                                *)
(***************************************************************************)
LEMMA KnownAdvances ==
  ASSUME RuntimeTypes, AdmissionInv, TableAgrees, [ServiceNext]_serviceVars,
         NEW c \in Client, NEW e \in Known(c)
  PROVE  /\ status[e] \in Status \ {"ABSENT"}
         /\ Reached(status[e]) \in Nat /\ Reached(status'[e]) \in Nat
         /\ Reached(status[e]) <= Reached(status'[e])
<1>2. e \in Event /\ status[e] # "ABSENT"
  BY KnownRows, Zenon DEF KnownInTable
<1>3. status[e] \in Status
  BY <1>2 DEF RuntimeTypes, LifecycleTypeOK
<1>4. /\ status[e] = "PENDING" => status'[e] \in {"PENDING", "PROCESSING"}
      /\ status[e] = "PROCESSING" => status'[e] \in {"PROCESSING", "PROCESSED"}
      /\ status[e] = "PROCESSED" => status'[e] = "PROCESSED"
  BY <1>2, LifecycleSide, StatusMovesOn, Zenon DEF RuntimeTypes
<1>5. QED
  BY <1>2, <1>3, <1>4, Scale DEF Status

(***************************************************************************)
(* A client that knows an event is settled and sends nothing any more, so  *)
(* that it gets to know one event at most.                                 *)
(***************************************************************************)
LEMMA KnownStep ==
  ASSUME AdmissionInv, AdmissionNext, NEW c \in Client
  PROVE  \/ Known(c)' = Known(c)
         \/ Known(c) = {} /\ \E e : Known(c)' = {e}
<1>0. /\ \A e : e \in Known(c) <=>
                  \E b \in answers : b.client = c /\ b.code = 202 /\ b.id = e
      /\ \A e : e \in Known(c)' <=>
                  \E b \in answers' : b.client = c /\ b.code = 202 /\ b.id = e
  BY Zenon DEF Known
<1>1. CASE UNCHANGED answers
  BY <1>1 DEF Known
<1>2. ASSUME NEW a, answers' = answers \cup {a}, a.code # 202 \/ a.client # c
      PROVE  Known(c)' = Known(c)
  <2>1. \A e : e \in Known(c)' <=> e \in Known(c)
    BY <1>0, <1>2
  <2>2. QED
    BY <2>1
<1>3. ASSUME NEW d \in Client, Reply(d)
      PROVE  \/ Known(c)' = Known(c)
             \/ Known(c) = {} /\ \E e : Known(c)' = {e}
  <2>1. PICK a : answers' = answers \cup {a} /\ a.client = d
    BY <1>3, ReplyTells, SMTT(30)
  <2>2. CASE a.code # 202 \/ d # c
    BY <1>2, <2>1, <2>2, Zenon
  <2>3. CASE d = c /\ a.code = 202
    <3>0. ~Settled(c)
      BY <1>3, <2>3, Zenon DEF AdmissionInv, TriesCounted, Reply
    <3>1. Known(c) = {}
      BY <1>0, <3>0, SMTT(30) DEF Settled
    <3>2. \A e : e \in Known(c)' <=> e = a.id
      BY <1>0, <2>1, <2>3, <3>1
    <3>3. Known(c)' = {a.id}
      BY <3>2
    <3>4. QED
      BY <3>1, <3>3, Zenon
  <2>4. QED
    BY <2>2, <2>3, Zenon
<1>4. ASSUME NEW d \in Client, Send(d) \/ Begin(d) \/ Insert(d) \/ Commit(d) \/ NoAnswer(d)
      PROVE  UNCHANGED answers
  BY <1>4, Zenon DEF Send, Begin, Insert, Commit, NoAnswer
<1>5. ASSUME NEW d \in Client, Lookup(d)
      PROVE  UNCHANGED answers
  BY <1>5, LookupSucceeds, Zenon
<1>6. ASSUME NEW d \in Client, Unavailable(d) \/ StatementTimeout(d)
      PROVE  \E a : answers' = answers \cup {a} /\ a.code # 202
  <2>1. CASE Unavailable(d)
    <3> DEFINE a == [client |-> d, code |-> 503, id |-> NoId, replayed |-> FALSE]
    <3>1. answers' = answers \cup {a}
      BY <2>1, Zenon DEF Unavailable, Respond
    <3>2. a.code # 202
      OBVIOUS
    <3> HIDE DEF a
    <3>3. QED
      BY <3>1, <3>2
  <2>2. CASE StatementTimeout(d)
    <3> DEFINE a == [client |-> d, code |-> 500, id |-> NoId, replayed |-> FALSE]
    <3>1. answers' = answers \cup {a}
      BY <2>2, Zenon DEF StatementTimeout, Respond
    <3>2. a.code # 202
      OBVIOUS
    <3> HIDE DEF a
    <3>3. QED
      BY <3>1, <3>2
  <2>3. QED
    BY <1>6, <2>1, <2>2
<1>7. ASSUME NEW r \in limbo, LimboCommits(r) \/ LimboRollsBack(r)
      PROVE  UNCHANGED answers
  BY <1>7, Zenon DEF LimboCommits, LimboRollsBack
<1>8. QED
  BY <1>1, <1>2, <1>3, <1>4, <1>5, <1>6, <1>7, Zenon DEF AdmissionNext, Handler

(***************************************************************************)
(* Along an advancing row, and when a client gets to know its event, what  *)
(* was read and told stays behind the row.                                 *)
(***************************************************************************)
LEMMA ReadsKept ==
  ASSUME RuntimeTypes, AdmissionInv, TableAgrees, ReadsSound, [ServiceNext]_serviceVars,
         RuntimeTypes', KnownInTable', UNCHANGED <<read, seen>>,
         \A c \in Client : \/ Known(c)' = Known(c)
                           \/ Known(c) = {} /\ \E e : Known(c)' = {e}
  PROVE  ReadsSound'
<1>1. SUFFICES ASSUME NEW c \in Client
      PROVE  /\ Known(c)' = {} => read[c] = "none" /\ seen[c] = "none"
             /\ \A e \in Known(c)' :
                  /\ \A f \in Known(c)' : f = e
                  /\ Progress[seen[c]] <= Reached(status'[e])
                  /\ read[c] \in Status =>
                       /\ Progress[seen[c]] <= Reached(read[c])
                       /\ Reached(read[c]) <= Reached(status'[e])
  BY Zenon DEF ReadsSound, Reached
<1>2. CASE Known(c)' = Known(c)
  <2>1. Known(c) = {} => read[c] = "none" /\ seen[c] = "none"
    BY Zenon DEF ReadsSound
  <2>2. ASSUME NEW e \in Known(c)
        PROVE  /\ \A f \in Known(c) : f = e
               /\ Progress[seen[c]] <= Reached(status'[e])
               /\ read[c] \in Status =>
                    /\ Progress[seen[c]] <= Reached(read[c])
                    /\ Reached(read[c]) <= Reached(status'[e])
    <3>1. /\ \A f \in Known(c) : f = e
          /\ Progress[seen[c]] <= Reached(status[e])
          /\ read[c] \in Status =>
               /\ Progress[seen[c]] <= Reached(read[c])
               /\ Reached(read[c]) <= Reached(status[e])
      BY Zenon DEF ReadsSound
    <3>2. Progress[seen[c]] \in Nat
      BY Scale DEF ReadsSound
    <3>3. read[c] \in Status => Reached(read[c]) \in Nat
      BY Scale DEF ReadsSound, Status
    <3>4. QED
      BY <3>1, <3>2, <3>3, KnownAdvances
  <2>3. QED
    BY <1>2, <2>1, <2>2, Zenon
<1>3. ASSUME Known(c) = {}, NEW k, Known(c)' = {k}
      PROVE  /\ Known(c)' # {} /\ \A e \in Known(c)' : e = k
             /\ read[c] \notin Status
             /\ Progress[seen[c]] <= Reached(status'[k])
  <2>1. read[c] = "none" /\ seen[c] = "none"
    BY <1>3, Zenon DEF ReadsSound
  <2>2. k \in Event /\ status'[k] # "ABSENT"
    BY <1>3, Zenon DEF KnownInTable
  <2>3. status'[k] \in Status \ {"ABSENT"}
    BY <2>2 DEF RuntimeTypes, LifecycleTypeOK
  <2>4. Progress[seen[c]] <= Reached(status'[k])
    BY <2>1, <2>3, Scale DEF Status
  <2>5. QED
    BY <1>3, <2>1, <2>4 DEF Status
<1>4. QED
  BY <1>2, <1>3, Zenon

(***************************************************************************)
(* What a GET does: it reads the row of the client's own event, tells what *)
(* it has read, and starts over.                                           *)
(***************************************************************************)
LEMMA GetKept ==
  ASSUME RuntimeTypes, AdmissionInv, TableAgrees, ReadsSound, NEW c \in Client, GetStep(c)
  PROVE  /\ ReadsSound'
         /\ seen'[c] # "404" /\ Progress[seen'[c]] >= Progress[seen[c]]
         /\ \A d \in Client \ {c} : seen'[d] = seen[d]
<1>1. UNCHANGED status /\ \A d \in Client : Known(d)' = Known(d)
  <2>1. UNCHANGED <<status, answers>>
    BY Zenon DEF GetStep, GetSent, GetExecutes, GetReturns, GetFails, vars, lifecycleVars, apiVars
  <2>2. QED
    BY <2>1, Zenon DEF Known
<1> DEFINE Fits(v, w) ==
             /\ v \in {"none", "sent"} \cup (Status \ {"ABSENT"})
             /\ w \in DOMAIN Progress
             /\ Known(c) # {}
             /\ \A e \in Known(c) : /\ Progress[w] <= Reached(status[e])
                                    /\ v \in Status => /\ Progress[w] <= Reached(v)
                                                       /\ Reached(v) <= Reached(status[e])
<1>2. ASSUME NEW v, NEW w, Fits(v, w),
             read' = [read EXCEPT ![c] = v], seen' = [seen EXCEPT ![c] = w]
      PROVE  ReadsSound' /\ seen'[c] = w /\ \A d \in Client \ {c} : seen'[d] = seen[d]
  <2>1. /\ read' \in [Client -> {"none", "sent"} \cup (Status \ {"ABSENT"})]
        /\ seen' \in [Client -> DOMAIN Progress]
        /\ read'[c] = v /\ seen'[c] = w
        /\ \A d \in Client \ {c} : read'[d] = read[d] /\ seen'[d] = seen[d]
    BY <1>2 DEF ReadsSound
  <2>2. ASSUME NEW d \in Client
        PROVE  /\ Known(d)' = {} => read'[d] = "none" /\ seen'[d] = "none"
               /\ \A e \in Known(d)' :
                    /\ \A f \in Known(d)' : f = e
                    /\ Progress[seen'[d]] <= Reached(status'[e])
                    /\ read'[d] \in Status =>
                         /\ Progress[seen'[d]] <= Reached(read'[d])
                         /\ Reached(read'[d]) <= Reached(status'[e])
    <3>1. CASE d = c
      <4>1. \A e \in Known(c) : \A f \in Known(c) : f = e
        BY Zenon DEF ReadsSound
      <4>2. QED
        BY <1>1, <1>2, <2>1, <3>1, <4>1, ZenonT(30)
    <3>2. CASE d # c
      <4>1. read'[d] = read[d] /\ seen'[d] = seen[d] /\ Known(d)' = Known(d)
        BY <1>1, <2>1, <3>2
      <4>2. /\ Known(d) = {} => read[d] = "none" /\ seen[d] = "none"
            /\ \A e \in Known(d) :
                 /\ \A f \in Known(d) : f = e
                 /\ Progress[seen[d]] <= Reached(status[e])
                 /\ read[d] \in Status =>
                      /\ Progress[seen[d]] <= Reached(read[d])
                      /\ Reached(read[d]) <= Reached(status[e])
        BY Zenon DEF ReadsSound
      <4>3. QED
        BY <1>1, <4>1, <4>2, ZenonT(30)
    <3>3. QED
      BY <3>1, <3>2
  <2>3. ReadsSound'
    BY <2>1, <2>2, Zenon DEF ReadsSound, Reached
  <2>4. QED
    BY <2>1, <2>3
<1>3. /\ read[c] \in {"none", "sent"} \cup (Status \ {"ABSENT"})
      /\ seen[c] \in DOMAIN Progress /\ seen[c] # "404"
      /\ Progress[seen[c]] >= Progress[seen[c]]
  BY Scale DEF ReadsSound
<1>4. \A e \in Known(c) : /\ status[e] \in Status \ {"ABSENT"}
                          /\ \A f \in Known(c) : f = e
                          /\ Progress[seen[c]] <= Reached(status[e])
                          /\ read[c] \in Status => /\ Progress[seen[c]] <= Reached(read[c])
                                                   /\ Reached(read[c]) <= Reached(status[e])
  <2>1. \A e \in Known(c) : status[e] \in Status \ {"ABSENT"}
    BY KnownRows DEF KnownInTable, RuntimeTypes, LifecycleTypeOK
  <2>2. QED
    BY <2>1, Zenon DEF ReadsSound
<1>5. read[c] # "none" => Known(c) # {}
  BY Zenon DEF ReadsSound
<1>6. "none" \notin Status /\ "sent" \notin Status
  BY DEF Status
<1>7. UNCHANGED seen => seen' = [seen EXCEPT ![c] = seen[c]]
  BY DEF ReadsSound
<1>8. CASE GetSent(c)
  <2>1. UNCHANGED seen /\ Known(c) # {} /\ read' = [read EXCEPT ![c] = "sent"]
    BY <1>8, Zenon DEF GetSent
  <2>2. Fits("sent", seen[c])
    BY <1>3, <1>4, <1>6, <2>1, Zenon
  <2> HIDE DEF Fits
  <2>3. QED
    BY <1>2, <1>3, <1>7, <2>1, <2>2, Zenon
<1>9. CASE GetExecutes(c)
  <2>1. PICK e \in Known(c) : read' = [read EXCEPT ![c] = status[e]]
    BY <1>9, Zenon DEF GetExecutes
  <2>2. UNCHANGED seen
    BY <1>9, Zenon DEF GetExecutes
  <2>3. Reached(status[e]) <= Reached(status[e])
    BY <1>4, Scale DEF Status
  <2>4. Fits(status[e], seen[c])
    BY <1>3, <1>4, <2>1, <2>3, Zenon
  <2> HIDE DEF Fits
  <2>5. QED
    BY <1>2, <1>3, <1>7, <2>1, <2>2, <2>4, Zenon
<1>10. CASE GetReturns(c)
  <2>1. /\ read[c] \in Status \ {"ABSENT"}
        /\ seen' = [seen EXCEPT ![c] = ApiStatus(read[c])]
        /\ read' = [read EXCEPT ![c] = "none"]
    BY <1>3, <1>6, <1>10, Zenon DEF GetReturns
  <2>2. ApiStatus(read[c]) \in DOMAIN Progress /\ ApiStatus(read[c]) # "404"
    BY <2>1, Scale
  <2>3. Known(c) # {}
    BY <1>5, <1>6, <2>1
  <2>4. Fits("none", ApiStatus(read[c]))
    BY <1>4, <1>6, <2>1, <2>2, <2>3, Zenon DEF Reached
  <2>5. Progress[ApiStatus(read[c])] >= Progress[seen[c]]
    <3>1. Progress[seen[c]] <= Progress[ApiStatus(read[c])]
      BY <1>4, <2>1, <2>3, Zenon DEF Reached
    <3>2. QED
      BY <2>2, <3>1, Scale DEF ReadsSound
  <2> HIDE DEF Fits
  <2>6. QED
    BY <1>2, <2>1, <2>2, <2>4, <2>5, Zenon
<1>11. CASE GetFails(c)
  <2>1. read[c] # "none" /\ UNCHANGED seen /\ read' = [read EXCEPT ![c] = "none"]
    BY <1>11, Zenon DEF GetFails
  <2>2. Fits("none", seen[c])
    BY <1>3, <1>4, <1>5, <1>6, <2>1, Zenon
  <2> HIDE DEF Fits
  <2>3. QED
    BY <1>2, <1>3, <1>7, <2>1, <2>2, Zenon
<1>12. QED
  BY <1>8, <1>9, <1>10, <1>11 DEF GetStep

---------------------------------------------------------------------------
(* The invariant.                                                          *)

(***************************************************************************)
(* Before the first request: no rows, nothing known and nothing told.      *)
(***************************************************************************)
LEMMA ServiceInvInit == ServiceInit => ServiceInv
<1> SUFFICES ASSUME ServiceInit
             PROVE  ServiceInv
  OBVIOUS
<1>1. AdmissionInv /\ RuntimeInv /\ ReportInv /\ CreditInv
  BY AdmissionInvInit, RuntimeInvInit, ReportInvInit, CreditInvInit, Zenon DEF ServiceInit
<1>2. TableAgrees
  BY DEF ServiceInit, Init, LifecycleInit, AdmissionInit, TableAgrees
<1>3. \A c \in Client : Known(c) = {}
  BY DEF ServiceInit, AdmissionInit, Known
<1>4. ReadsSound
  <2>1. read = [c \in Client |-> "none"] /\ seen = [c \in Client |-> "none"]
    BY Zenon DEF ServiceInit
  <2>2. QED
    BY <1>3, <2>1, Scale DEF ReadsSound
<1>5. QED
  BY <1>1, <1>2, <1>4, Zenon DEF ServiceInv

(***************************************************************************)
(* What a step does to a client's view of its event.                       *)
(***************************************************************************)
LEMMA ReadsStep ==
  ASSUME RuntimeTypes, RuntimeTypes', AdmissionInv, AdmissionInv', TableAgrees, TableAgrees',
         ReadsSound, [ServiceNext]_serviceVars
  PROVE  /\ ReadsSound'
         /\ \A c \in Client : seen'[c] # "404" /\ Progress[seen'[c]] >= Progress[seen[c]]
<1>1. KnownInTable'
  BY KnownRows, PTL
<1>2. \A c \in Client : seen[c] # "404" /\ Progress[seen[c]] >= Progress[seen[c]]
  BY Scale DEF ReadsSound
<1>3. ASSUME NEW c \in Client, GetStep(c)
      PROVE  /\ ReadsSound'
             /\ \A d \in Client : seen'[d] # "404" /\ Progress[seen'[d]] >= Progress[seen[d]]
  BY <1>2, <1>3, GetKept, Zenon
<1>4. CASE AdmissionStep(AdmissionNext)
  BY <1>1, <1>2, <1>4, KnownStep, ReadsKept, ZenonT(30) DEF AdmissionStep, readVars
<1>5. CASE UNCHANGED <<apiVars, readVars>>
  <2>1. \A c \in Client : Known(c)' = Known(c)
    BY <1>5, Zenon DEF apiVars, Known
  <2>2. QED
    BY <1>1, <1>2, <1>5, <2>1, ReadsKept, ZenonT(30) DEF readVars
<1>6. QED
  BY <1>3, <1>4, <1>5, Zenon DEF ServiceNext, WorkerStep, serviceVars

(***************************************************************************)
(* Every step of the service keeps the invariant.                          *)
(***************************************************************************)
LEMMA ServiceInvStep == ServiceInv /\ [ServiceNext]_serviceVars => ServiceInv'
<1> SUFFICES ASSUME ServiceInv, [ServiceNext]_serviceVars
             PROVE  ServiceInv'
  OBVIOUS
<1>1. RuntimeTypes /\ AdmissionInv /\ TableAgrees /\ ReadsSound
  BY Zenon DEF ServiceInv, RuntimeInv
<1>2. AdmissionInv' /\ RuntimeInv' /\ ReportInv' /\ CreditInv'
  BY <1>1, ApiSideKept, WorkerSideKept, Zenon DEF ServiceInv
<1>3. TableAgrees'
  BY <1>1, TableStep, Zenon
<1>4. ReadsSound'
  BY <1>1, <1>2, <1>3, ReadsStep, Zenon DEF RuntimeInv
<1>5. QED
  BY <1>2, <1>3, <1>4, Zenon DEF ServiceInv

(***************************************************************************)
(* Clients, API, table and workers stay in agreement in every state of the *)
(* service, for any number of each.                                        *)
(***************************************************************************)
THEOREM ServiceInvariant == ServiceSpec => []ServiceInv
BY ServiceInvInit, ServiceInvStep, PTL DEF ServiceSpec

---------------------------------------------------------------------------
(* What follows for the service.                                           *)

(***************************************************************************)
(* The API's transactions and the workers together do to the table only    *)
(* what EventLifecycle allows, so that the leases protect claims and       *)
(* PROCESSED is final in the running service too.                          *)
(***************************************************************************)
THEOREM ServiceRefinesLifecycle ==
  ServiceSpec => /\ ServiceImplementsLifecycle
                 /\ []ColumnsAgree /\ LeaseProtectsClaim /\ ProcessedIsFinal
<1>1. ServiceInit => LifecycleInit
  BY Zenon DEF ServiceInit, Init
<1>2. ServiceInv /\ [ServiceNext]_serviceVars => [LifecycleNext]_lifecycleVars
  BY LifecycleSide, Zenon DEF ServiceInv, RuntimeInv
<1>3. ServiceSpec => LifecycleSpec
  BY <1>1, <1>2, ServiceInvariant, PTL DEF ServiceSpec, LifecycleSpec
<1>4. QED
  BY <1>3, LifecycleColumnsAgree, LifecycleLeaseProtects, LifecycleProcessedFinal
     DEF ServiceImplementsLifecycle

(***************************************************************************)
(* The workers do not disturb the promise of POST /v1/events: with them on *)
(* the table it is still the idempotent intake.                            *)
(***************************************************************************)
THEOREM ServiceRefinesIntake == ServiceSpec => ImplementsIntake
<1>1. ServiceInit => Intake!IntakeInit
  BY Zenon DEF ServiceInit, AdmissionInit, Intake!IntakeInit
<1>2. ServiceInv /\ [ServiceNext]_serviceVars => [Intake!IntakeNext]_(Intake!intakeVars)
  <2> SUFFICES ASSUME ServiceInv, [ServiceNext]_serviceVars
               PROVE  [Intake!IntakeNext]_(Intake!intakeVars)
    OBVIOUS
  <2>1. RuntimeTypes /\ AdmissionInv
    BY Zenon DEF ServiceInv, RuntimeInv
  <2>2. CASE AdmissionNext
    BY <2>1, <2>2, IntakeStep, Zenon
  <2>3. CASE UNCHANGED apiVars
    BY <2>3, Zenon DEF apiVars, Intake!intakeVars
  <2>4. QED
    BY <2>1, <2>2, <2>3, ApiSide, Zenon
<1>3. QED
  BY <1>1, <1>2, ServiceInvariant, PTL DEF ServiceSpec, ImplementsIntake, Intake!IntakeSpec

(***************************************************************************)
(* What GET /v1/events/{event_id} tells a client never goes back, and an   *)
(* id that came with a 202 is never answered 404, whatever the workers and *)
(* the database do between the answers.                                    *)
(***************************************************************************)
THEOREM ServiceSeenAdvances == ServiceSpec => SeenAdvances
<1> DEFINE Advance ==
      \A c \in Client : /\ seen'[c] # "404"
                        /\ Progress[seen'[c]] >= Progress[seen[c]]
<1>1. ServiceInv /\ ServiceInv' /\ [ServiceNext]_serviceVars => [Advance]_seen
  <2> SUFFICES ASSUME ServiceInv, ServiceInv', [ServiceNext]_serviceVars
               PROVE  Advance
    OBVIOUS
  <2>1. /\ RuntimeTypes /\ AdmissionInv /\ TableAgrees /\ ReadsSound
        /\ RuntimeTypes' /\ AdmissionInv' /\ TableAgrees'
    BY Zenon DEF ServiceInv, RuntimeInv
  <2>2. QED
    BY <2>1, ReadsStep, Zenon
<1>2. QED
  BY <1>1, ServiceInvariant, PTL DEF ServiceSpec, SeenAdvances

(***************************************************************************)
(* A client told that its event is processed was told the truth: the       *)
(* processor has returned Ok for it.                                       *)
(***************************************************************************)
ProcessedIsTrue ==
  \A c \in Client : seen[c] = "processed" => Known(c) # {} /\ Known(c) \subseteq handled

THEOREM ServiceTellsTheTruth == ServiceSpec => []ProcessedIsTrue
<1>1. ServiceInv => ProcessedIsTrue
  <2> SUFFICES ASSUME ServiceInv, NEW c \in Client, seen[c] = "processed"
               PROVE  Known(c) # {} /\ \A e \in Known(c) : e \in handled
    BY Zenon DEF ProcessedIsTrue
  <2>1. Known(c) # {}
    BY DEF ServiceInv, ReadsSound
  <2>2. ASSUME NEW e \in Known(c)
        PROVE  e \in handled
    <3>1. e \in Event /\ status[e] # "ABSENT"
      BY KnownRows, Zenon DEF KnownInTable, ServiceInv, RuntimeInv
    <3>2. status[e] \in Status \ {"ABSENT"}
      BY <3>1 DEF ServiceInv, RuntimeInv, RuntimeTypes, LifecycleTypeOK
    <3>3. Progress["processed"] <= Reached(status[e])
      BY Zenon DEF ServiceInv, ReadsSound
    <3>4. status[e] = "PROCESSED"
      BY <3>2, <3>3, Scale DEF Progress, Status
    <3>5. QED
      BY <3>1, <3>4, Zenon DEF ServiceInv, RuntimeInv, HandledFirst, ProcessedWasHandled
  <2>3. QED
    BY <2>1, <2>2
<1>2. QED
  BY <1>1, ServiceInvariant, PTL

(***************************************************************************)
(* No COMMIT of an insert waits for the workers: the event it adds is not  *)
(* in their table, not even when the answer to an earlier try was lost and *)
(* its transaction is still in flight.                                     *)
(***************************************************************************)
CommitsAreNew ==
  /\ \A c \in Client : Inserted(c) => status[EventId(c)] = "ABSENT"
  /\ \A r \in limbo : status[r.id] = "ABSENT"

THEOREM ServiceCommitsAreNew == ServiceSpec => []CommitsAreNew
<1>1. ServiceInv => CommitsAreNew
  <2> SUFFICES ASSUME ServiceInv
               PROVE  CommitsAreNew
    OBVIOUS
  <2>1. AdmissionTypeOK /\ RowsSound /\ TriesCounted /\ TableAgrees
    BY Zenon DEF ServiceInv, AdmissionInv
  <2>2. ASSUME NEW c \in Client, Inserted(c)
        PROVE  status[EventId(c)] = "ABSENT"
    <3>1. EventId(c) \in Event /\ EventId(c)[1] = c
      <4>1. tries[c] \in 1 .. MaxFaults + 1
        BY <2>1, <2>2, FaultsAssumption DEF AdmissionTypeOK, TriesCounted, Inserted
      <4>2. QED
        BY <4>1, ServiceAssumption DEF EventId, Id
    <3>2. \A r \in table : r.id # EventId(c)
      BY <2>1, <2>2, <3>1 DEF RowsSound
    <3>3. QED
      BY <2>1, <3>1, <3>2, Zenon DEF TableAgrees
  <2>3. ASSUME NEW r \in limbo
        PROVE  status[r.id] = "ABSENT"
    <3>1. r.id \in Event
      BY <2>1, ServiceAssumption DEF AdmissionTypeOK, Row
    <3>2. \A q \in table : q.id # r.id
      BY <2>1 DEF RowsSound
    <3>3. QED
      BY <2>1, <3>1, <3>2, Zenon DEF TableAgrees
  <2>4. QED
    BY <2>2, <2>3, Zenon DEF CommitsAreNew
<1>2. QED
  BY <1>1, ServiceInvariant, PTL

(***************************************************************************)
(* What the API and the workers guarantee each by itself they guarantee    *)
(* together.                                                               *)
(***************************************************************************)
THEOREM ServiceKeepsParts ==
  ServiceSpec => /\ [](OneRowPerScope /\ AcceptedIsDurable /\ ConflictIsReal /\ LookupFindsRow)
                 /\ [](CapacityBound /\ AttemptsExclusive /\ LatestAttemptOwns)
                 /\ [](ProcessedWasHandled /\ CountedOnce /\ ReportAccounts)
<1>1. ServiceInv => OneRowPerScope /\ AcceptedIsDurable /\ ConflictIsReal /\ LookupFindsRow
  BY AdmissionInvOneRow, AdmissionInvLookup, Zenon DEF ServiceInv, AdmissionInv
<1>2. ServiceInv => CapacityBound /\ AttemptsExclusive /\ LatestAttemptOwns
  BY RuntimeInvCapacity, RuntimeInvExclusive, RuntimeInvOwns, Zenon DEF ServiceInv
<1>3. ServiceInv => ProcessedWasHandled /\ CountedOnce /\ ReportAccounts
  BY CreditInvCounts, ReportInvAccounts, Zenon DEF ServiceInv, RuntimeInv, HandledFirst
<1>4. QED
  BY <1>1, <1>2, <1>3, ServiceInvariant, PTL
============================================================================
