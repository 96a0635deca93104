------------------------------- MODULE Ingest -------------------------------
(***************************************************************************)
(* What becomes of one POST /v1/events: the extractors and the handler     *)
(* `ingest` in order, the domain validation of Event::new, the CHECKs of   *)
(* the table, and the worker's claim, which parses the stored row again.   *)
(* Replay and conflict are the matter of Admission: the key is fresh here. *)
(*                                                                         *)
(* A request is told apart as far as the checks do: a label by its length  *)
(* in characters and bytes and by what it contains, the body by how far it *)
(* parses, the payload by what validation or JSONB objects to.             *)
(***************************************************************************)
EXTENDS Integers

CONSTANTS
  Key,           \* Idempotency-Key headers
  ContentType,   \* "json", "other", "absent"
  Body,          \* "too_large", "unreadable", "syntax", "shape", "event"
  Source, Type,  \* labels
  Payload        \* "null", "value", "nul_escape": a string with the escape of U+0000

(***************************************************************************)
(* What the classes mean: an empty label has nothing left once its blanks  *)
(* are trimmed.                                                            *)
(***************************************************************************)
ASSUME IngestConstants ==
  /\ \A key \in Key : /\ key.header \in {"absent", "not_ascii", "blank_inside", "ascii"}
                     /\ key.chars \in Nat
  /\ Body \subseteq {"too_large", "unreadable", "syntax", "shape", "event"}
  /\ \A label \in Source \cup Type : /\ label.chars \in Nat
                                     /\ {label.blank, label.control} \subseteq BOOLEAN
                                     /\ label.chars = 0 => label.blank

VARIABLES request, stage, answer, row, claimed
ingestVars == <<request, stage, answer, row, claimed>>

MAX_SOURCE_CHARS == 100
MAX_EVENT_TYPE_CHARS == 150
MAX_IDEMPOTENCY_KEY_CHARS == 128

Request ==
  [key : Key, content_type : ContentType, body : Body,
   source : Source, event_type : Type, payload : Payload]

NoRow == [source |-> [chars |-> 0]]

IngestInit ==
  /\ request \in Request
  /\ stage = "key"
  /\ answer = "none"
  /\ row = NoRow
  /\ claimed = "none"

Refuse(code) == stage' = "answered" /\ answer' = code /\ UNCHANGED <<request, row, claimed>>
Proceed(next) == stage' = next /\ UNCHANGED <<request, answer, row, claimed>>

(***************************************************************************)
(* idempotency_key and IdempotencyKey::parse.                              *)
(***************************************************************************)
KeyError(key) ==
  CASE key.header = "absent" -> "IDEMPOTENCY_KEY_REQUIRED"
    [] key.header = "not_ascii" \/ key.header = "blank_inside" -> "IDEMPOTENCY_KEY_INVALID"
    [] key.chars \notin 1 .. MAX_IDEMPOTENCY_KEY_CHARS -> "IDEMPOTENCY_KEY_INVALID"
    [] OTHER -> "none"

(***************************************************************************)
(* axum's Json extractor and from_json_rejection: content type, size, a    *)
(* body that breaks off, syntax, shape.                                    *)
(***************************************************************************)
BodyError(r) ==
  CASE r.content_type # "json" -> "UNSUPPORTED_MEDIA_TYPE"
    [] r.body = "too_large" -> "PAYLOAD_TOO_LARGE"
    [] r.body \in {"unreadable", "syntax", "shape"} -> "INVALID_EVENT"
    [] OTHER -> "none"

(***************************************************************************)
(* Fault: the length is counted in bytes.                                  *)
(***************************************************************************)
ValidLabelBytes(label, max) ==
  ~label.blank /\ label.bytes <= max /\ ~label.control

ValidLabel(label, max) ==
  ~label.blank /\ label.chars <= max /\ ~label.control

EventSourceParses(label) == ValidLabel(label, MAX_SOURCE_CHARS)
EventTypeParses(label) == ValidLabel(label, MAX_EVENT_TYPE_CHARS)

(***************************************************************************)
(* Fault: only the source is validated, the type is passed through.        *)
(***************************************************************************)
EventNewSkipsType(r) == EventSourceParses(r.source) /\ r.payload # "null"

EventNew(r) ==
  EventSourceParses(r.source) /\ EventTypeParses(r.event_type) /\ r.payload # "null"

(***************************************************************************)
(* The CHECKs of the events table, and JSONB, which has no U+0000.         *)
(***************************************************************************)
TableAccepts(r) ==
  /\ r.source.chars \in 1 .. 100
  /\ r.event_type.chars \in 1 .. 150
  /\ r.payload # "null"
  /\ r.key.chars \in 1 .. 128

JsonbAccepts(payload) == payload # "nul_escape"

---------------------------------------------------------------------------
CheckKey ==
  /\ stage = "key"
  /\ IF KeyError(request.key) # "none" THEN Refuse(KeyError(request.key)) ELSE Proceed("body")

CheckBody ==
  /\ stage = "body"
  /\ IF BodyError(request) # "none" THEN Refuse(BodyError(request)) ELSE Proceed("event")

NewEvent ==
  /\ stage = "event"
  /\ IF EventNew(request) THEN Proceed("admit") ELSE Refuse("INVALID_EVENT")

(***************************************************************************)
(* Store::admit; an error that does not mean an outage is answered with    *)
(* INTERNAL_ERROR.                                                         *)
(***************************************************************************)
Admit ==
  /\ stage = "admit"
  /\ IF TableAccepts(request) /\ JsonbAccepts(request.payload)
     THEN /\ row' = [source |-> request.source, event_type |-> request.event_type]
          /\ stage' = "answered"
          /\ answer' = "ACCEPTED"
          /\ UNCHANGED <<request, claimed>>
     ELSE Refuse("INTERNAL_ERROR")

(***************************************************************************)
(* Store::claim decodes the rows after its UPDATE is committed: one that   *)
(* does not decode fails the claim of the whole batch.                     *)
(***************************************************************************)
ClaimRow ==
  /\ row # NoRow /\ claimed = "none"
  /\ claimed' = IF EventSourceParses(row.source) /\ EventTypeParses(row.event_type)
                THEN "decoded" ELSE "Inconsistent"
  /\ UNCHANGED <<request, stage, answer, row>>

IngestNext == CheckKey \/ CheckBody \/ NewEvent \/ Admit \/ ClaimRow

IngestSpec == IngestInit /\ [][IngestNext]_ingestVars

---------------------------------------------------------------------------
(***************************************************************************)
(* Validation is at least as strict as the schema and as the parse on the  *)
(* way out: no client input reaches a CHECK of the table (500), and no     *)
(* stored row makes the claim of its whole batch fail, for the row would   *)
(* be claimed again and again, oldest first, with the leases of the others *)
(* in its batch.                                                           *)
(***************************************************************************)
AdmittedRowsDecode ==
  /\ claimed # "Inconsistent"
  /\ stage = "admit" => TableAccepts(request)

(***************************************************************************)
(* The request rules of the README, read on the whole request at once; a   *)
(* label of blanks counts as empty (the tests of event.rs).                *)
(***************************************************************************)
MeetsRequestRules(r) ==
  /\ r.key.header = "ascii" /\ r.key.chars \in 1 .. 128
  /\ r.content_type = "json" /\ r.body = "event"
  /\ r.source.chars \in 1 .. 100 /\ r.event_type.chars \in 1 .. 150
  /\ \A label \in {r.source, r.event_type} : ~label.control /\ ~label.blank
  /\ r.payload # "null"

(***************************************************************************)
(* The handler's checks, in their order, blame the client for exactly the  *)
(* requests that break a documented rule: a label's limit counts           *)
(* characters, not bytes, and what one check lets through no later one     *)
(* refuses for another reason.                                             *)
(***************************************************************************)
RefusesByTheRules ==
  stage = "answered" =>
    (answer \notin {"ACCEPTED", "INTERNAL_ERROR"} <=> ~MeetsRequestRules(request))

(***************************************************************************)
(* The README's request rules as a promise: a request that meets them is   *)
(* accepted (while the database is up), its payload being "any non-null    *)
(* JSON value".  Does not hold: a string with the escape of U+0000 passes  *)
(* Event::new and fails in JSONB.                                          *)
(***************************************************************************)
AcceptsByTheRules ==
  stage = "answered" /\ MeetsRequestRules(request) => answer = "ACCEPTED"
=============================================================================
