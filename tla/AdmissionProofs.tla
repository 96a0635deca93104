-------------------------- MODULE AdmissionProofs --------------------------
(***************************************************************************)
(* Proofs about admission, for any clients, scopes, fingerprints, pool     *)
(* size and number of failures.                                            *)
(***************************************************************************)
EXTENDS Admission, FiniteSetTheorems, TLAPS

(***************************************************************************)
(* A scope has one row at most, counting committed rows, rows in limbo and *)
(* rows that are inserted and not committed; a row holds what the client   *)
(* that drew its id asked for.                                             *)
(***************************************************************************)
RowsSound ==
  /\ \A r \in table \cup limbo : /\ r.scope = request[r.id[1]].scope
                                 /\ r.fingerprint = request[r.id[1]].fingerprint
  /\ \A r, q \in table \cup limbo : r.scope = q.scope => r = q
  /\ \A r \in limbo : r \notin table
  /\ \A c \in Client : Inserted(c) =>
       /\ \A r \in table \cup limbo : r.scope # request[c].scope
       /\ \A d \in Client : Inserted(d) /\ request[d].scope = request[c].scope => d = c

(***************************************************************************)
(* What a handler has computed stays true until it answers.                *)
(***************************************************************************)
OutcomesSound ==
  \A c \in Client :
    /\ step[c] \in {"commit", "committed"} <=> outcome[c].kind # "none"
    /\ step[c] = "lookup" => InScope(c) # {}
    /\ outcome[c].kind = "created" => outcome[c].id = EventId(c)
    /\ outcome[c].kind = "created" /\ step[c] = "committed" => NewRow(c) \in table
    /\ outcome[c].kind = "replayed" =>
         \E r \in table : /\ r.id = outcome[c].id
                          /\ r.scope = request[c].scope
                          /\ r.fingerprint = request[c].fingerprint
    /\ outcome[c].kind = "conflict" =>
         \E r \in table : /\ r.scope = request[c].scope
                          /\ r.fingerprint # request[c].fingerprint

(***************************************************************************)
(* A client sends again only after a fault, so it never runs out of ids.   *)
(***************************************************************************)
TriesCounted ==
  \A c \in Client :
    /\ step[c] # "idle" => tries[c] >= 1 /\ ~Settled(c)
    /\ tries[c] <= faults + 1
    /\ step[c] = "idle" /\ ~Settled(c) => tries[c] <= faults

(***************************************************************************)
(* An answer names an event only with 202, and calls it new only to the    *)
(* client that drew its id.                                                *)
(***************************************************************************)
AnswersSound ==
  \A a \in answers :
    /\ a.code # 202 => a.id = NoId
    /\ a.code = 202 /\ ~a.replayed => a.id[1] = a.client

AdmissionInv ==
  /\ AdmissionTypeOK
  /\ RowsSound
  /\ OutcomesSound
  /\ TriesCounted
  /\ AnswersSound
  /\ AcceptedIsDurable
  /\ ConflictIsReal

---------------------------------------------------------------------------
(* What the handler's steps come to in a state that satisfies the          *)
(* invariant.                                                              *)

(***************************************************************************)
(* The id of a request under way is one of those its client may draw.      *)
(***************************************************************************)
LEMMA IdDrawn ==
  ASSUME AdmissionInv, NEW c \in Client, step[c] # "idle"
  PROVE  EventId(c) \in Id /\ NewRow(c) \in Row
<1>1. tries[c] \in 1 .. MaxFaults + 1
  BY FaultsAssumption DEF AdmissionInv, AdmissionTypeOK, TriesCounted
<1>2. EventId(c) \in Id
  BY <1>1 DEF EventId, Id
<1>3. QED
  BY <1>2 DEF NewRow, Row, AdmissionInv, AdmissionTypeOK

(***************************************************************************)
(* Every outcome a handler computes has its type.                          *)
(***************************************************************************)
LEMMA ResultTypes ==
  ASSUME NEW c \in Client
  PROVE  /\ NoOutcome \in Outcome
         /\ \A id \in Id : [kind |-> "created", id |-> id] \in Outcome
         /\ \A r \in Row : LookupOutcome(c, r) \in Outcome
BY DEF NoOutcome, Outcome, LookupOutcome, Row

(***************************************************************************)
(* The lookup finds the row of the scope, and its outcome says how the     *)
(* request compares with it.                                               *)
(***************************************************************************)
LEMMA LookupSucceeds ==
  ASSUME AdmissionInv, NEW c \in Client, Lookup(c)
  PROVE  /\ \E r \in table : /\ r.scope = request[c].scope
                             /\ outcome' = [outcome EXCEPT ![c] = LookupOutcome(c, r)]
         /\ step[c] = "lookup" /\ step' = [step EXCEPT ![c] = "commit"]
         /\ UNCHANGED <<request, tries, table, limbo, answers, faults>>
BY ZenonT(30) DEF AdmissionInv, OutcomesSound, Lookup, Visible, InScope, StepTo

(***************************************************************************)
(* A client is answered 202 with the event of its scope, which is new to   *)
(* it only if it drew the id, or 409.                                      *)
(***************************************************************************)
LEMMA ReplyTells ==
  ASSUME AdmissionInv, NEW c \in Client, Reply(c)
  PROVE  \E a \in Answer :
           /\ answers' = answers \cup {a}
           /\ step' = [step EXCEPT ![c] = "idle"]
           /\ outcome' = [outcome EXCEPT ![c] = NoOutcome]
           /\ UNCHANGED <<request, tries, table, limbo, faults>>
           /\ a.client = c
           /\ \/ /\ a.code = 409 /\ a.id = NoId /\ ~a.replayed
                 /\ \E r \in table : /\ r.scope = request[c].scope
                                     /\ r.fingerprint # request[c].fingerprint
              \/ /\ a.code = 202
                 /\ ~a.replayed => a.id[1] = c
                 /\ \E r \in table : /\ r.id = a.id
                                     /\ r.scope = request[c].scope
                                     /\ r.fingerprint = request[c].fingerprint
<1>1. outcome[c] \in Outcome /\ outcome[c].kind # "none" /\ step[c] = "committed"
  BY DEF Reply, AdmissionInv, OutcomesSound, AdmissionTypeOK
<1> DEFINE Ends == /\ step' = [step EXCEPT ![c] = "idle"]
                   /\ outcome' = [outcome EXCEPT ![c] = NoOutcome]
                   /\ UNCHANGED <<request, tries, table, limbo, faults>>
<1>0. Ends
  BY DEF Reply, End, StepTo
<1> HIDE DEF Ends
<1>2. CASE outcome[c].kind = "conflict"
  <2> DEFINE a == [client |-> c, code |-> 409, id |-> NoId, replayed |-> FALSE]
  <2>1. answers' = answers \cup {a} /\ a \in Answer
    BY <1>2 DEF Reply, Respond, Answer
  <2>2. \E r \in table : r.scope = request[c].scope /\ r.fingerprint # request[c].fingerprint
    BY <1>2 DEF AdmissionInv, OutcomesSound
  <2>3. QED
    BY <1>0, <2>1, <2>2, ZenonT(30) DEF Ends
<1>3. CASE outcome[c].kind # "conflict"
  <2> DEFINE a == [client |-> c, code |-> 202, id |-> outcome[c].id,
                   replayed |-> Replayed(outcome[c])]
  <2>1. answers' = answers \cup {a}
    BY <1>3 DEF Reply, Respond
  <2>2. CASE outcome[c].kind = "created"
    <3>1. outcome[c].id = EventId(c) /\ NewRow(c) \in table
      BY <1>1, <2>2 DEF AdmissionInv, OutcomesSound
    <3>2. Replayed(outcome[c]) = FALSE
      BY <2>2 DEF Replayed
    <3>3. a \in Answer
      BY <3>1, <3>2, <1>1, IdDrawn, ZenonT(30) DEF Answer
    <3>4. a.id[1] = c /\ NewRow(c).id = a.id
      BY <3>1 DEF EventId, NewRow
    <3>5. QED
      BY <1>0, <2>1, <3>1, <3>3, <3>4 DEF NewRow, Ends
  <2>3. CASE outcome[c].kind = "replayed"
    <3>1. Replayed(outcome[c]) = TRUE
      BY <2>3 DEF Replayed
    <3>2. PICK r \in table : /\ r.id = outcome[c].id
                             /\ r.scope = request[c].scope
                             /\ r.fingerprint = request[c].fingerprint
      BY <2>3 DEF AdmissionInv, OutcomesSound
    <3>3. a \in Answer
      BY <3>1, <1>1, ZenonT(30) DEF Answer, Outcome
    <3>4. QED
      BY <1>0, <2>1, <3>1, <3>2, <3>3 DEF Ends
  <2>4. QED
    BY <1>1, <1>3, <2>2, <2>3 DEF Outcome
<1>4. QED
  BY <1>2, <1>3

---------------------------------------------------------------------------
(* The invariant is kept by every step, one conjunct at a time.            *)

(***************************************************************************)
(* The handler's steps keep the types; an id is drawn only as often as the *)
(* faults allow, so the ids suffice.                                       *)
(***************************************************************************)
LEMMA TypeStep == AdmissionInv /\ [AdmissionNext]_admissionVars => AdmissionTypeOK'
<1> SUFFICES ASSUME AdmissionInv, [AdmissionNext]_admissionVars
             PROVE  AdmissionTypeOK'
  OBVIOUS
<1> AdmissionTypeOK
  BY DEF AdmissionInv
<1> USE FaultsAssumption DEF AdmissionTypeOK
<1>1. ASSUME NEW c \in Client, Send(c)
      PROVE  AdmissionTypeOK'
  BY <1>1 DEF Send, StepTo, AdmissionInv, TriesCounted
<1>2. ASSUME NEW c \in Client, Begin(c)
      PROVE  AdmissionTypeOK'
  BY <1>2 DEF Begin, StepTo
<1>3. ASSUME NEW c \in Client, Insert(c)
      PROVE  AdmissionTypeOK'
  <2>1. EventId(c) \in Id
    BY <1>3, IdDrawn DEF Insert
  <2> DEFINE created == [kind |-> "created", id |-> EventId(c)]
  <2>2. created \in Outcome
    BY <2>1, ResultTypes
  <2>3. outcome' \in {outcome, [outcome EXCEPT ![c] = created]}
    BY <1>3 DEF Insert
  <2> HIDE DEF created
  <2>4. outcome' \in [Client -> Outcome]
    BY <2>2, <2>3
  <2>5. QED
    BY <1>3, <2>4 DEF Insert, StepTo
<1>4. ASSUME NEW c \in Client, Lookup(c)
      PROVE  AdmissionTypeOK'
  <2>1. PICK r \in table : outcome' = [outcome EXCEPT ![c] = LookupOutcome(c, r)]
    BY <1>4, LookupSucceeds
  <2>2. LookupOutcome(c, r) \in Outcome
    BY ResultTypes
  <2>3. /\ step' = [step EXCEPT ![c] = "commit"]
        /\ UNCHANGED <<request, tries, table, limbo, answers, faults>>
    BY <1>4, LookupSucceeds
  <2>4. QED
    BY <2>1, <2>2, <2>3
<1>5. ASSUME NEW c \in Client, Commit(c)
      PROVE  AdmissionTypeOK'
  BY <1>5, IdDrawn DEF Commit, StepTo
<1>6. ASSUME NEW c \in Client, Reply(c)
      PROVE  AdmissionTypeOK'
  <2>1. /\ \E a \in Answer : answers' = answers \cup {a}
        /\ step' = [step EXCEPT ![c] = "idle"]
        /\ outcome' = [outcome EXCEPT ![c] = NoOutcome]
        /\ UNCHANGED <<request, tries, table, limbo, faults>>
    BY <1>6, ReplyTells
  <2>2. answers' \subseteq Answer /\ outcome' \in [Client -> Outcome]
    BY <2>1, ResultTypes
  <2>3. QED
    BY <2>1, <2>2
<1>7. ASSUME NEW c \in Client, Unavailable(c)
      PROVE  AdmissionTypeOK'
  <2> DEFINE a == [client |-> c, code |-> 503, id |-> NoId, replayed |-> FALSE]
  <2>1. a \in Answer /\ NoOutcome \in Outcome
    BY DEF Answer, NoOutcome, Outcome
  <2>2. /\ answers' = answers \cup {a}
        /\ outcome' = [outcome EXCEPT ![c] = NoOutcome]
    BY <1>7 DEF Unavailable, Break, End, Respond
  <2> HIDE DEF a
  <2>3. answers' \subseteq Answer /\ outcome' \in [Client -> Outcome]
    BY <2>1, <2>2
  <2>4. limbo' \subseteq Row
    BY <1>7, IdDrawn DEF Unavailable, Break
  <2>5. QED
    BY <1>7, <2>3, <2>4 DEF Unavailable, Fault, Break, End, StepTo
<1>8. ASSUME NEW c \in Client, StatementTimeout(c)
      PROVE  AdmissionTypeOK'
  <2> DEFINE a == [client |-> c, code |-> 500, id |-> NoId, replayed |-> FALSE]
  <2>1. a \in Answer /\ NoOutcome \in Outcome
    BY DEF Answer, NoOutcome, Outcome
  <2>2. /\ answers' = answers \cup {a}
        /\ outcome' = [outcome EXCEPT ![c] = NoOutcome]
    BY <1>8 DEF StatementTimeout, End, Respond
  <2> HIDE DEF a
  <2>3. answers' \subseteq Answer /\ outcome' \in [Client -> Outcome]
    BY <2>1, <2>2
  <2>4. QED
    BY <1>8, <2>3 DEF StatementTimeout, Fault, End, StepTo
<1>9. ASSUME NEW c \in Client, NoAnswer(c)
      PROVE  AdmissionTypeOK'
  <2>1. outcome' \in [Client -> Outcome]
    BY <1>9, ResultTypes DEF NoAnswer, Break, End
  <2>2. limbo' \subseteq Row
    BY <1>9, IdDrawn DEF NoAnswer, Break
  <2>3. QED
    BY <1>9, <2>1, <2>2 DEF NoAnswer, Fault, Break, End, StepTo
<1>10. ASSUME NEW r \in limbo, LimboCommits(r)
       PROVE  AdmissionTypeOK'
  BY <1>10 DEF LimboCommits
<1>11. ASSUME NEW r \in limbo, LimboRollsBack(r)
       PROVE  AdmissionTypeOK'
  BY <1>11 DEF LimboRollsBack
<1>12. CASE UNCHANGED admissionVars
  BY <1>12 DEF admissionVars
<1> HIDE DEF AdmissionTypeOK
<1>13. QED
  BY <1>1, <1>2, <1>3, <1>4, <1>5, <1>6, <1>7, <1>8, <1>9, <1>10, <1>11, <1>12
     DEF AdmissionNext, Handler

(***************************************************************************)
(* The unique index at work: a scope gains no second row, whether inserted,*)
(* committed or left in limbo by a broken connection.                      *)
(***************************************************************************)
LEMMA RowsStep == AdmissionInv /\ [AdmissionNext]_admissionVars => RowsSound'
<1> SUFFICES ASSUME AdmissionInv, [AdmissionNext]_admissionVars
             PROVE  RowsSound'
  OBVIOUS
<1> USE FaultsAssumption DEF AdmissionInv, AdmissionTypeOK, RowsSound, Inserted
<1>1. ASSUME NEW c \in Client, Send(c)
      PROVE  RowsSound'
  BY <1>1 DEF Send, StepTo, OutcomesSound
<1>2. ASSUME NEW c \in Client, Begin(c)
      PROVE  RowsSound'
  BY <1>2 DEF Begin, StepTo, OutcomesSound
<1>3. ASSUME NEW c \in Client, Insert(c)
      PROVE  RowsSound'
  <2>1. \A d \in Client \ {c} : Inserted(d)' <=> Inserted(d)
    BY <1>3 DEF Insert, StepTo
  <2>2. UNCHANGED <<request, table, limbo>>
    BY <1>3 DEF Insert
  <2>3. Inserted(c)' =>
          /\ \A r \in table \cup limbo : r.scope # request[c].scope
          /\ \A d \in Client \ {c} : Inserted(d) => request[d].scope # request[c].scope
    BY <1>3 DEF Insert, StepTo, InsertWaits, InScope, OutcomesSound
  <2>4. QED
    <3> HIDE DEF Inserted
    <3>1. QED
      BY <2>1, <2>2, <2>3
<1>4. ASSUME NEW c \in Client, Lookup(c)
      PROVE  RowsSound'
  <2>1. /\ \A d \in Client : Inserted(d)' => Inserted(d)
        /\ UNCHANGED <<request, table, limbo>>
    BY <1>4, LookupSucceeds DEF LookupOutcome
  <2>2. QED
    BY <2>1
<1>5. ASSUME NEW c \in Client, Commit(c)
      PROVE  RowsSound'
  BY <1>5 DEF Commit, StepTo, NewRow, EventId
<1>6. ASSUME NEW c \in Client, Reply(c)
      PROVE  RowsSound'
  <2>1. /\ step' = [step EXCEPT ![c] = "idle"]
        /\ outcome' = [outcome EXCEPT ![c] = NoOutcome]
        /\ UNCHANGED <<request, table, limbo>>
    BY <1>6, ReplyTells
  <2>2. \A d \in Client : Inserted(d)' => Inserted(d)
    BY <2>1
  <2>3. QED
    BY <2>1, <2>2
<1>7. ASSUME NEW c \in Client, Unavailable(c)
      PROVE  RowsSound'
  BY <1>7 DEF Unavailable, Fault, Break, End, StepTo, NewRow, EventId
<1>8. ASSUME NEW c \in Client, StatementTimeout(c)
      PROVE  RowsSound'
  BY <1>8 DEF StatementTimeout, Fault, End, StepTo, Respond
<1>9. ASSUME NEW c \in Client, NoAnswer(c)
      PROVE  RowsSound'
  BY <1>9 DEF NoAnswer, Fault, Break, End, StepTo, NewRow, EventId
<1>10. ASSUME NEW r \in limbo, LimboCommits(r)
       PROVE  RowsSound'
  BY <1>10 DEF LimboCommits
<1>11. ASSUME NEW r \in limbo, LimboRollsBack(r)
       PROVE  RowsSound'
  BY <1>11 DEF LimboRollsBack
<1>12. CASE UNCHANGED admissionVars
  BY <1>12 DEF admissionVars
<1> HIDE DEF AdmissionInv, AdmissionTypeOK, RowsSound, Inserted
<1>13. QED
  BY <1>1, <1>2, <1>3, <1>4, <1>5, <1>6, <1>7, <1>8, <1>9, <1>10, <1>11, <1>12
     DEF AdmissionNext, Handler

(***************************************************************************)
(* What admit has computed for a handler is not made false by any other    *)
(* request, because committed rows stay.                                   *)
(***************************************************************************)
LEMMA OutcomesStep == AdmissionInv /\ [AdmissionNext]_admissionVars => OutcomesSound'
<1> SUFFICES ASSUME AdmissionInv, [AdmissionNext]_admissionVars
             PROVE  OutcomesSound'
  OBVIOUS
<1> USE FaultsAssumption DEF AdmissionInv, AdmissionTypeOK, Outcome, NoOutcome,
        OutcomesSound, Inserted, NewRow, EventId, InScope
<1>1. ASSUME NEW c \in Client, Send(c)
      PROVE  OutcomesSound'
  <2>1. /\ step[c] = "idle" /\ step' = [step EXCEPT ![c] = "begin"]
        /\ \A d \in Client \ {c} : EventId(d)' = EventId(d)
        /\ UNCHANGED <<request, outcome, table>>
    BY <1>1 DEF Send, StepTo
  <2>2. outcome[c].kind = "none"
    BY <2>1, ZenonT(30)
  <2>3. QED
    BY <2>1, <2>2
<1>2. ASSUME NEW c \in Client, Begin(c)
      PROVE  OutcomesSound'
  BY <1>2 DEF Begin, StepTo
<1>3. ASSUME NEW c \in Client, Insert(c)
      PROVE  OutcomesSound'
  BY <1>3 DEF Insert, StepTo
<1>4. ASSUME NEW c \in Client, Lookup(c)
      PROVE  OutcomesSound'
  <2>1. PICK r \in table : /\ r.scope = request[c].scope
                           /\ outcome' = [outcome EXCEPT ![c] = LookupOutcome(c, r)]
    BY <1>4, LookupSucceeds
  <2>2. /\ step' = [step EXCEPT ![c] = "commit"]
        /\ UNCHANGED <<request, tries, table>>
    BY <1>4, LookupSucceeds
  <2>3. QED
    BY <2>1, <2>2 DEF LookupOutcome
<1>5. ASSUME NEW c \in Client, Commit(c)
      PROVE  OutcomesSound'
  BY <1>5 DEF Commit, StepTo
<1>6. ASSUME NEW c \in Client, Reply(c)
      PROVE  OutcomesSound'
  <2>1. /\ step' = [step EXCEPT ![c] = "idle"]
        /\ outcome' = [outcome EXCEPT ![c] = NoOutcome]
        /\ UNCHANGED <<request, tries, table>>
    BY <1>6, ReplyTells
  <2>2. QED
    BY <2>1
<1>7. ASSUME NEW c \in Client, Unavailable(c)
      PROVE  OutcomesSound'
  BY <1>7 DEF Unavailable, Fault, Break, End, StepTo, Respond
<1>8. ASSUME NEW c \in Client, StatementTimeout(c)
      PROVE  OutcomesSound'
  BY <1>8 DEF StatementTimeout, Fault, End, StepTo, Respond
<1>9. ASSUME NEW c \in Client, NoAnswer(c)
      PROVE  OutcomesSound'
  BY <1>9 DEF NoAnswer, Fault, Break, End, StepTo
<1>10. ASSUME NEW r \in limbo, LimboCommits(r)
       PROVE  OutcomesSound'
  BY <1>10 DEF LimboCommits
<1>11. ASSUME NEW r \in limbo, LimboRollsBack(r)
       PROVE  OutcomesSound'
  BY <1>11 DEF LimboRollsBack
<1>12. CASE UNCHANGED admissionVars
  BY <1>12 DEF admissionVars
<1> HIDE DEF AdmissionInv, AdmissionTypeOK, Outcome, NoOutcome,
        OutcomesSound, Inserted, NewRow, EventId, InScope
<1>13. QED
  BY <1>1, <1>2, <1>3, <1>4, <1>5, <1>6, <1>7, <1>8, <1>9, <1>10, <1>11, <1>12
     DEF AdmissionNext, Handler

(***************************************************************************)
(* A client sends again only when its last request ended in a fault.       *)
(***************************************************************************)
LEMMA TriesStep == AdmissionInv /\ [AdmissionNext]_admissionVars => TriesCounted'
<1> SUFFICES ASSUME AdmissionInv, [AdmissionNext]_admissionVars
             PROVE  TriesCounted'
  OBVIOUS
<1> USE FaultsAssumption DEF AdmissionInv, AdmissionTypeOK, TriesCounted, Settled
<1>1. ASSUME NEW c \in Client, Send(c)
      PROVE  TriesCounted'
  BY <1>1 DEF Send, StepTo
<1>2. ASSUME NEW c \in Client, Begin(c)
      PROVE  TriesCounted'
  BY <1>2 DEF Begin, StepTo
<1>3. ASSUME NEW c \in Client, Insert(c)
      PROVE  TriesCounted'
  BY <1>3 DEF Insert, StepTo
<1>4. ASSUME NEW c \in Client, Lookup(c)
      PROVE  TriesCounted'
  <2>1. /\ step[c] = "lookup" /\ step' = [step EXCEPT ![c] = "commit"]
        /\ UNCHANGED <<tries, answers, faults>>
    <3> HIDE DEF AdmissionInv, AdmissionTypeOK, TriesCounted, Settled
    <3>1. QED
      BY <1>4, LookupSucceeds
  <2>2. QED
    BY <2>1
<1>5. ASSUME NEW c \in Client, Commit(c)
      PROVE  TriesCounted'
  BY <1>5 DEF Commit, StepTo
<1>6. ASSUME NEW c \in Client, Reply(c)
      PROVE  TriesCounted'
  <2>1. PICK a \in Answer : /\ answers' = answers \cup {a}
                            /\ a.client = c /\ a.code \in {202, 409}
    BY <1>6, ReplyTells
  <2>2. /\ step' = [step EXCEPT ![c] = "idle"]
        /\ UNCHANGED <<tries, faults>>
    BY <1>6, ReplyTells
  <2>3. QED
    BY <2>1, <2>2
<1>7. ASSUME NEW c \in Client, Unavailable(c)
      PROVE  TriesCounted'
  BY <1>7 DEF Unavailable, Fault, Break, End, StepTo, Respond
<1>8. ASSUME NEW c \in Client, StatementTimeout(c)
      PROVE  TriesCounted'
  BY <1>8 DEF StatementTimeout, Fault, End, StepTo, Respond
<1>9. ASSUME NEW c \in Client, NoAnswer(c)
      PROVE  TriesCounted'
  BY <1>9 DEF NoAnswer, Fault, Break, End, StepTo
<1>10. ASSUME NEW r \in limbo, LimboCommits(r)
       PROVE  TriesCounted'
  BY <1>10 DEF LimboCommits
<1>11. ASSUME NEW r \in limbo, LimboRollsBack(r)
       PROVE  TriesCounted'
  BY <1>11 DEF LimboRollsBack
<1>12. CASE UNCHANGED admissionVars
  BY <1>12 DEF admissionVars
<1> HIDE DEF AdmissionInv, AdmissionTypeOK, TriesCounted, Settled
<1>13. QED
  BY <1>1, <1>2, <1>3, <1>4, <1>5, <1>6, <1>7, <1>8, <1>9, <1>10, <1>11, <1>12
     DEF AdmissionNext, Handler

(***************************************************************************)
(* No answer but a 202 names an event, and Idempotency-Replayed is false   *)
(* only for the client that drew the id.                                   *)
(***************************************************************************)
LEMMA AnswersStep == AdmissionInv /\ [AdmissionNext]_admissionVars => AnswersSound'
<1> SUFFICES ASSUME AdmissionInv, [AdmissionNext]_admissionVars
             PROVE  AnswersSound'
  OBVIOUS
<1> USE FaultsAssumption DEF AdmissionInv, AnswersSound
<1>1. ASSUME NEW c \in Client, Send(c)
      PROVE  AnswersSound'
  BY <1>1 DEF Send, StepTo
<1>2. ASSUME NEW c \in Client, Begin(c)
      PROVE  AnswersSound'
  BY <1>2 DEF Begin, StepTo
<1>3. ASSUME NEW c \in Client, Insert(c)
      PROVE  AnswersSound'
  BY <1>3 DEF Insert, StepTo
<1>4. ASSUME NEW c \in Client, Lookup(c)
      PROVE  AnswersSound'
  BY <1>4, LookupSucceeds DEF LookupOutcome
<1>5. ASSUME NEW c \in Client, Commit(c)
      PROVE  AnswersSound'
  BY <1>5 DEF Commit, StepTo
<1>6. ASSUME NEW c \in Client, Reply(c)
      PROVE  AnswersSound'
  BY <1>6, ReplyTells
<1>7. ASSUME NEW c \in Client, Unavailable(c)
      PROVE  AnswersSound'
  BY <1>7 DEF Unavailable, Fault, Break, End, StepTo, Respond
<1>8. ASSUME NEW c \in Client, StatementTimeout(c)
      PROVE  AnswersSound'
  BY <1>8 DEF StatementTimeout, Fault, End, StepTo, Respond
<1>9. ASSUME NEW c \in Client, NoAnswer(c)
      PROVE  AnswersSound'
  BY <1>9 DEF NoAnswer, Fault, Break, End, StepTo
<1>10. ASSUME NEW r \in limbo, LimboCommits(r)
       PROVE  AnswersSound'
  BY <1>10 DEF LimboCommits
<1>11. ASSUME NEW r \in limbo, LimboRollsBack(r)
       PROVE  AnswersSound'
  BY <1>11 DEF LimboRollsBack
<1>12. CASE UNCHANGED admissionVars
  BY <1>12 DEF admissionVars
<1> HIDE DEF AdmissionInv, AnswersSound
<1>13. QED
  BY <1>1, <1>2, <1>3, <1>4, <1>5, <1>6, <1>7, <1>8, <1>9, <1>10, <1>11, <1>12
     DEF AdmissionNext, Handler

(***************************************************************************)
(* A 202 that was given stays true, and a new one is true when given.      *)
(***************************************************************************)
LEMMA AcceptedStep == AdmissionInv /\ [AdmissionNext]_admissionVars => AcceptedIsDurable'
<1> SUFFICES ASSUME AdmissionInv, [AdmissionNext]_admissionVars
             PROVE  AcceptedIsDurable'
  OBVIOUS
<1> USE FaultsAssumption DEF AdmissionInv, AdmissionTypeOK, AcceptedIsDurable
<1>1. ASSUME NEW c \in Client, Send(c)
      PROVE  AcceptedIsDurable'
  BY <1>1 DEF Send, StepTo
<1>2. ASSUME NEW c \in Client, Begin(c)
      PROVE  AcceptedIsDurable'
  BY <1>2 DEF Begin, StepTo
<1>3. ASSUME NEW c \in Client, Insert(c)
      PROVE  AcceptedIsDurable'
  BY <1>3 DEF Insert, StepTo
<1>4. ASSUME NEW c \in Client, Lookup(c)
      PROVE  AcceptedIsDurable'
  BY <1>4, LookupSucceeds DEF LookupOutcome
<1>5. ASSUME NEW c \in Client, Commit(c)
      PROVE  AcceptedIsDurable'
  BY <1>5 DEF Commit, StepTo
<1>6. ASSUME NEW c \in Client, Reply(c)
      PROVE  AcceptedIsDurable'
  BY <1>6, ReplyTells
<1>7. ASSUME NEW c \in Client, Unavailable(c)
      PROVE  AcceptedIsDurable'
  BY <1>7 DEF Unavailable, Fault, Break, End, StepTo, Respond
<1>8. ASSUME NEW c \in Client, StatementTimeout(c)
      PROVE  AcceptedIsDurable'
  BY <1>8 DEF StatementTimeout, Fault, End, StepTo, Respond
<1>9. ASSUME NEW c \in Client, NoAnswer(c)
      PROVE  AcceptedIsDurable'
  BY <1>9 DEF NoAnswer, Fault, Break, End, StepTo
<1>10. ASSUME NEW r \in limbo, LimboCommits(r)
       PROVE  AcceptedIsDurable'
  BY <1>10 DEF LimboCommits
<1>11. ASSUME NEW r \in limbo, LimboRollsBack(r)
       PROVE  AcceptedIsDurable'
  BY <1>11 DEF LimboRollsBack
<1>12. CASE UNCHANGED admissionVars
  BY <1>12 DEF admissionVars
<1> HIDE DEF AdmissionInv, AdmissionTypeOK, AcceptedIsDurable
<1>13. QED
  BY <1>1, <1>2, <1>3, <1>4, <1>5, <1>6, <1>7, <1>8, <1>9, <1>10, <1>11, <1>12
     DEF AdmissionNext, Handler

(***************************************************************************)
(* A 409 that was given stays true, and a new one is true when given.      *)
(***************************************************************************)
LEMMA ConflictStep == AdmissionInv /\ [AdmissionNext]_admissionVars => ConflictIsReal'
<1> SUFFICES ASSUME AdmissionInv, [AdmissionNext]_admissionVars
             PROVE  ConflictIsReal'
  OBVIOUS
<1> USE FaultsAssumption DEF AdmissionInv, AdmissionTypeOK, ConflictIsReal
<1>1. ASSUME NEW c \in Client, Send(c)
      PROVE  ConflictIsReal'
  BY <1>1 DEF Send, StepTo
<1>2. ASSUME NEW c \in Client, Begin(c)
      PROVE  ConflictIsReal'
  BY <1>2 DEF Begin, StepTo
<1>3. ASSUME NEW c \in Client, Insert(c)
      PROVE  ConflictIsReal'
  BY <1>3 DEF Insert, StepTo
<1>4. ASSUME NEW c \in Client, Lookup(c)
      PROVE  ConflictIsReal'
  BY <1>4, LookupSucceeds DEF LookupOutcome
<1>5. ASSUME NEW c \in Client, Commit(c)
      PROVE  ConflictIsReal'
  BY <1>5 DEF Commit, StepTo
<1>6. ASSUME NEW c \in Client, Reply(c)
      PROVE  ConflictIsReal'
  BY <1>6, ReplyTells, SMTT(30)
<1>7. ASSUME NEW c \in Client, Unavailable(c)
      PROVE  ConflictIsReal'
  BY <1>7 DEF Unavailable, Fault, Break, End, StepTo, Respond
<1>8. ASSUME NEW c \in Client, StatementTimeout(c)
      PROVE  ConflictIsReal'
  BY <1>8 DEF StatementTimeout, Fault, End, StepTo, Respond
<1>9. ASSUME NEW c \in Client, NoAnswer(c)
      PROVE  ConflictIsReal'
  BY <1>9 DEF NoAnswer, Fault, Break, End, StepTo
<1>10. ASSUME NEW r \in limbo, LimboCommits(r)
       PROVE  ConflictIsReal'
  BY <1>10 DEF LimboCommits
<1>11. ASSUME NEW r \in limbo, LimboRollsBack(r)
       PROVE  ConflictIsReal'
  BY <1>11 DEF LimboRollsBack
<1>12. CASE UNCHANGED admissionVars
  BY <1>12 DEF admissionVars
<1> HIDE DEF AdmissionInv, AdmissionTypeOK, ConflictIsReal
<1>13. QED
  BY <1>1, <1>2, <1>3, <1>4, <1>5, <1>6, <1>7, <1>8, <1>9, <1>10, <1>11, <1>12
     DEF AdmissionNext, Handler

---------------------------------------------------------------------------
(***************************************************************************)
(* Nothing has been sent yet.                                              *)
(***************************************************************************)
LEMMA AdmissionInvInit == AdmissionInit => AdmissionInv
<1> SUFFICES ASSUME AdmissionInit
             PROVE  AdmissionInv
  OBVIOUS
<1>1. NoOutcome \in Outcome
  BY DEF NoOutcome, Outcome
<1>2. AdmissionTypeOK
  BY <1>1, FaultsAssumption DEF AdmissionInit, AdmissionTypeOK
<1>3. RowsSound /\ OutcomesSound
  BY DEF AdmissionInit, RowsSound, OutcomesSound, Inserted, NoOutcome
<1>4. TriesCounted
  BY DEF AdmissionInit, TriesCounted
<1>5. QED
  BY <1>2, <1>3, <1>4
     DEF AdmissionInit, AdmissionInv, AnswersSound, AcceptedIsDurable, ConflictIsReal

(***************************************************************************)
(* Every step of a client, its handler and the database keeps the          *)
(* invariant.                                                              *)
(***************************************************************************)
LEMMA AdmissionInvStep == AdmissionInv /\ [AdmissionNext]_admissionVars => AdmissionInv'
BY TypeStep, RowsStep, OutcomesStep, TriesStep, AnswersStep, AcceptedStep,
   ConflictStep
   DEF AdmissionInv

(***************************************************************************)
(* AdmissionInv holds in every state: the inductive invariant the theorems *)
(* below rest on.                                                          *)
(***************************************************************************)
THEOREM AdmissionInvariant == AdmissionSpec => []AdmissionInv
BY AdmissionInvInit, AdmissionInvStep, PTL DEF AdmissionSpec

(***************************************************************************)
(* Every id a handler draws, row, outcome and answer has its type.         *)
(***************************************************************************)
THEOREM AdmissionTypeCorrect == AdmissionSpec => []AdmissionTypeOK
BY AdmissionInvariant, PTL DEF AdmissionInv

(***************************************************************************)
(* What AdmissionInv says of a single state: a scope has one row at most.  *)
(***************************************************************************)
LEMMA AdmissionInvOneRow == AdmissionInv => OneRowPerScope
BY DEF AdmissionInv, RowsSound, OneRowPerScope

(***************************************************************************)
(* The row that made the insert conflict is committed and stays.           *)
(***************************************************************************)
LEMMA AdmissionInvLookup == AdmissionInv => LookupFindsRow
BY DEF AdmissionInv, OutcomesSound, LookupFindsRow, Visible

(***************************************************************************)
(* The transaction of Store::admit never puts a second row into a scope,   *)
(* whatever the clients do and however often COMMITs go unheard.           *)
(***************************************************************************)
THEOREM AdmissionOneRowPerScope == AdmissionSpec => []OneRowPerScope
BY AdmissionInvOneRow, AdmissionInvariant, PTL

(***************************************************************************)
(* A client that is told 202 finds its event committed, from then on.      *)
(***************************************************************************)
THEOREM AdmissionAcceptedIsDurable == AdmissionSpec => []AcceptedIsDurable
BY AdmissionInvariant, PTL DEF AdmissionInv

(***************************************************************************)
(* A client that is told 409 has sent other content than the committed     *)
(* event of its key.                                                       *)
(***************************************************************************)
THEOREM AdmissionConflictIsReal == AdmissionSpec => []ConflictIsReal
BY AdmissionInvariant, PTL DEF AdmissionInv

(***************************************************************************)
(* The lookup after a conflict always finds a row: admit never returns     *)
(* StoreError::Inconsistent.                                               *)
(***************************************************************************)
THEOREM AdmissionLookupFindsRow == AdmissionSpec => []LookupFindsRow
BY AdmissionInvLookup, AdmissionInvariant, PTL

---------------------------------------------------------------------------
(* Nobody waits in a circle.                                               *)

(***************************************************************************)
(* No request waits in a circle, whatever the size of the pool.  Inserts   *)
(* wait for a transaction that has inserted, which holds a connection of   *)
(* its own and has only its COMMIT left to do; so even a pool of one       *)
(* connection is never taken up by requests that wait.                     *)
(***************************************************************************)
THEOREM AdmissionNoRequestStuck == AdmissionSpec => []NoRequestStuck
<1>1. ASSUME AdmissionTypeOK
      PROVE  NoRequestStuck
  <2>1. ASSUME NEW d \in InTransaction, limbo = {}
        PROVE  \/ HandlerReady(d)
               \/ \E e \in InTransaction \ {d} : HandlerReady(e)
    <3>1. CASE InsertWaits(d)
      <4>1. PICK e \in Client \ {d} : Inserted(e)
        BY <2>1, <3>1 DEF InsertWaits
      <4>2. e \in InTransaction /\ HandlerReady(e)
        BY <4>1 DEF Inserted, InTransaction, HandlerReady
      <4>3. QED
        BY <4>1, <4>2
    <3>2. CASE ~InsertWaits(d)
      BY <3>2 DEF HandlerReady, InTransaction
    <3>3. QED
      BY <3>1, <3>2
  <2>2. ASSUME NEW c \in Client, step[c] = "begin", limbo = {}, ~HandlerReady(c)
        PROVE  \E d \in InTransaction \ {c} : HandlerReady(d)
    <3>1. ~(Cardinality(InTransaction) < MaxConnections) /\ c \notin InTransaction
      BY <2>2 DEF HandlerReady, InTransaction
    <3>2. InTransaction # {}
      <4>1. Cardinality({}) = 0
        BY FS_EmptySet
      <4>2. QED
        BY <3>1, <4>1, AdmissionAssumption
    <3>3. QED
      BY <2>1, <2>2, <3>1, <3>2
  <2>3. QED
    BY <1>1, <2>1, <2>2, ZenonT(30) DEF NoRequestStuck, InTransaction, AdmissionTypeOK
<1>2. QED
  BY <1>1, AdmissionTypeCorrect, PTL

---------------------------------------------------------------------------
(* Admission implements the intake.                                        *)

(***************************************************************************)
(* A row that is inserted and not committed, or in limbo, is the event its *)
(* client would create: its scope is free and its id is new.               *)
(***************************************************************************)
LEMMA CommitCreates ==
  ASSUME AdmissionInv, NEW c \in Client, NEW id \in Id, id[1] = c,
         \A r \in table : r.scope # request[c].scope,
         table' = table \cup {[id |-> id, scope |-> request[c].scope,
                               fingerprint |-> request[c].fingerprint]},
         UNCHANGED <<request, answers>>
  PROVE  Intake!IntakeNext
<1>1. \A e \in table : e.id # id
  BY DEF AdmissionInv, RowsSound
<1>2. Intake!CreateEvent(c, id)
  BY <1>1 DEF Intake!CreateEvent, Intake!InScopeOf
<1>3. QED
  BY <1>2 DEF Intake!IntakeNext

(***************************************************************************)
(* An answer of `ingest` is one the intake allows; a client calls an event *)
(* new at most once, since it sends nothing more once it has been told.    *)
(***************************************************************************)
LEMMA ReplyAllowed ==
  ASSUME AdmissionInv, NEW c \in Client, Reply(c)
  PROVE  Intake!IntakeNext
<1>1. PICK a \in Answer :
        /\ answers' = answers \cup {a}
        /\ UNCHANGED <<request, table>>
        /\ a.client = c
        /\ \/ /\ a.code = 409 /\ a.id = NoId /\ ~a.replayed
              /\ \E r \in table : /\ r.scope = request[c].scope
                                  /\ r.fingerprint # request[c].fingerprint
           \/ /\ a.code = 202
              /\ ~a.replayed => a.id[1] = c
              /\ \E r \in table : /\ r.id = a.id
                                  /\ r.scope = request[c].scope
                                  /\ r.fingerprint = request[c].fingerprint
  BY ReplyTells
<1>2. a = [client |-> c, code |-> a.code, id |-> a.id, replayed |-> a.replayed]
  BY <1>1 DEF Answer
<1>3. CASE a.code = 409
  <2>1. a = [client |-> c, code |-> 409, id |-> NoId, replayed |-> FALSE]
    BY <1>1, <1>3 DEF Answer
  <2>2. Intake!Refuse(c)
    BY <1>1, <1>3, <2>1 DEF Intake!Refuse, Intake!Told, Intake!InScopeOf
  <2>3. QED
    BY <2>2 DEF Intake!IntakeNext
<1>4. CASE a.code = 202
  <2>1. PICK r \in table : /\ r.id = a.id
                           /\ r.scope = request[c].scope
                           /\ r.fingerprint = request[c].fingerprint
    BY <1>1, <1>4
  <2>2. a.replayed \/ \A b \in answers : b.id = r.id => b.replayed
    <3> SUFFICES ASSUME ~a.replayed, NEW b \in answers, b.id = r.id, ~b.replayed
                 PROVE  FALSE
      OBVIOUS
    <3>1. r.id # NoId
      <4>1. PICK d \in Client, n \in 1 .. MaxFaults + 1 : r.id = <<d, n>>
        BY DEF AdmissionInv, AdmissionTypeOK, Row, Id
      <4>2. QED
        BY <4>1, <<d, n>> # <<>> DEF NoId
    <3>2. b.code = 202 /\ b.client = c
      BY <1>1, <1>4, <2>1, <3>1, SMTT(30) DEF AdmissionInv, AnswersSound
    <3>3. ~Settled(c)
      BY DEF AdmissionInv, TriesCounted, Reply
    <3>4. QED
      BY <3>2, <3>3 DEF Settled
  <2>3. Intake!Accept(c, r, a.replayed) /\ a.replayed \in BOOLEAN
    BY <1>1, <1>2, <1>4, <2>1, <2>2
       DEF Answer, Intake!Accept, Intake!Told, Intake!InScopeOf
  <2>4. QED
    BY <2>1, <2>3 DEF Intake!IntakeNext
<1>5. QED
  BY <1>1, <1>3, <1>4

(***************************************************************************)
(* Every step of admission is a step of the intake or leaves it alone.     *)
(***************************************************************************)
LEMMA IntakeStep ==
  AdmissionInv /\ [AdmissionNext]_admissionVars => [Intake!IntakeNext]_(Intake!intakeVars)
<1> SUFFICES ASSUME AdmissionInv, [AdmissionNext]_admissionVars
             PROVE  \/ Intake!IntakeNext
                    \/ UNCHANGED <<request, table, answers>>
  BY DEF Intake!intakeVars
<1>1. ASSUME NEW c \in Client, Send(c) \/ Begin(c) \/ Insert(c) \/ NoAnswer(c)
      PROVE  UNCHANGED <<request, table, answers>>
  BY <1>1 DEF Send, Begin, Insert, NoAnswer
<1>2. ASSUME NEW c \in Client, Lookup(c)
      PROVE  UNCHANGED <<request, table, answers>>
  BY <1>2, LookupSucceeds
<1>3. ASSUME NEW c \in Client, Commit(c)
      PROVE  Intake!IntakeNext \/ UNCHANGED <<request, table, answers>>
  <2>1. CASE ~Inserted(c)
    BY <1>3, <2>1, ZenonT(30) DEF Commit
  <2>2. CASE Inserted(c)
    <3>1. EventId(c) \in Id /\ EventId(c)[1] = c
      BY <2>2, IdDrawn, ZenonT(30) DEF Inserted, EventId
    <3>2. /\ table' = table \cup {NewRow(c)}
          /\ UNCHANGED <<request, answers>>
          /\ \A r \in table : r.scope # request[c].scope
      BY <1>3, <2>2 DEF Commit, AdmissionInv, RowsSound
    <3>3. QED
      BY <3>1, <3>2, CommitCreates DEF NewRow
  <2>3. QED
    BY <2>1, <2>2
<1>4. ASSUME NEW c \in Client, Unavailable(c) \/ StatementTimeout(c)
      PROVE  Intake!IntakeNext
  <2>1. Intake!Fail(c)
    BY <1>4 DEF Unavailable, StatementTimeout, Respond, Intake!Fail, Intake!Told
  <2>2. QED
    BY <2>1 DEF Intake!IntakeNext
<1>5. ASSUME NEW r \in limbo, LimboCommits(r)
      PROVE  Intake!IntakeNext
  <2>1. /\ r \in Row /\ r.id[1] \in Client
        /\ r.scope = request[r.id[1]].scope
        /\ r.fingerprint = request[r.id[1]].fingerprint
    BY DEF AdmissionInv, AdmissionTypeOK, RowsSound, Row, Id
  <2>2. r = [id |-> r.id, scope |-> request[r.id[1]].scope,
             fingerprint |-> request[r.id[1]].fingerprint]
    BY <2>1 DEF Row
  <2>3. \A q \in table : q.scope # r.scope
    BY DEF AdmissionInv, RowsSound
  <2>4. table' = table \cup {r} /\ UNCHANGED <<request, answers>>
    BY <1>5 DEF LimboCommits
  <2>5. r.id \in Id
    BY <2>1 DEF Row
  <2>6. QED
    BY <2>1, <2>2, <2>3, <2>4, <2>5, CommitCreates
<1>6. ASSUME NEW r \in limbo, LimboRollsBack(r)
      PROVE  UNCHANGED <<request, table, answers>>
  BY <1>6 DEF LimboRollsBack
<1>7. CASE UNCHANGED admissionVars
  BY <1>7 DEF admissionVars
<1>8. QED
  BY <1>1, <1>2, <1>3, <1>4, <1>5, <1>6, <1>7, ReplyAllowed DEF AdmissionNext, Handler

(***************************************************************************)
(* The handler with its transaction, its pool and every failure in between *)
(* implements IdempotentIntake: each COMMIT is the one creation of its     *)
(* scope's event, and each response is allowed by what is committed.       *)
(***************************************************************************)
THEOREM AdmissionImplementsIntake == AdmissionSpec => ImplementsIntake
<1>1. AdmissionInit => Intake!IntakeInit
  BY DEF AdmissionInit, Intake!IntakeInit
<1>2. QED
  BY <1>1, IntakeStep, AdmissionInvariant, PTL
     DEF AdmissionSpec, ImplementsIntake, Intake!IntakeSpec
============================================================================
