---------------------------- MODULE Fingerprint ----------------------------
(***************************************************************************)
(* RequestFingerprint::compute (idempotency.rs): the canonical encoding of *)
(* a request, against a reference definition of when two requests are the  *)
(* same.  A producer's request is stored with its fingerprint; a later one *)
(* with the same key is compared with it, perhaps by another build of the  *)
(* API.                                                                    *)
(*                                                                         *)
(* A payload is a JSON text: a literal, a sequence of texts, or a sequence *)
(* of (key, text) pairs in which a key may be repeated.  Object keys are   *)
(* numbers, in the order of their Unicode code points.  The canonical      *)
(* encoding is a sequence of tokens: punctuation, scalars, keys.  SHA-256  *)
(* is taken to be injective: the fingerprint is the sequence that is       *)
(* hashed.                                                                 *)
(***************************************************************************)
EXTENDS Integers, Sequences, FiniteSetsExt

CONSTANTS
  Text,     \* the JSON texts, each with all its parts
  Depth,    \* how deeply each is nested
  Byte,     \* what sources and event types consist of
  Sent      \* the requests: source, event_type (sequences of bytes), payload (a text)

(***************************************************************************)
(* A text is written out in finitely many characters, so every part of it  *)
(* is nested less deeply than the whole.                                   *)
(***************************************************************************)
ASSUME TextAssumption ==
  /\ Depth \in [Text -> Nat]
  /\ \A t \in Text :
       \/ t.kind = "literal"
       \/ /\ t.kind = "array"
          /\ t.items \in Seq(Text)
          /\ \A i \in DOMAIN t.items : Depth[t.items[i]] < Depth[t]
       \/ /\ t.kind = "object"
          /\ t.entries \in Seq(Nat \X Text)
          /\ \A i \in DOMAIN t.entries : Depth[t.entries[i][2]] < Depth[t]

ASSUME SentAssumption ==
  \A r \in Sent : r.source \in Seq(Byte) /\ r.event_type \in Seq(Byte) /\ r.payload \in Text

VARIABLES stored, order, later, laterOrder
fingerprintVars == <<stored, order, later, laterOrder>>

Literal(l) == [kind |-> "literal", literal |-> l]
Array(items) == [kind |-> "array", items |-> items]
Object(entries) == [kind |-> "object", entries |-> entries]

(***************************************************************************)
(* How serde_json reads a literal and writes it again: escapes are         *)
(* resolved, and a number is an integer or a float.                        *)
(***************************************************************************)
Scalar(l) ==
  CASE l = "\\u0041" -> "A"
    [] l = "1e2" -> "100.0"
    [] OTHER -> l

(***************************************************************************)
(* The members of a finite set in the order of their ranks.                *)
(***************************************************************************)
InOrder(S, rank) ==
  CHOOSE s \in [1..Cardinality(S) -> S] :
    /\ Range(s) = S
    /\ \A i, j \in DOMAIN s : i < j => rank[s[i]] < rank[s[j]]

Keys(entries) == {entries[i][1] : i \in DOMAIN entries}

PlacesOf(entries, k) == {i \in DOMAIN entries : entries[i][1] = k}

LastOf(entries, k) == entries[Max(PlacesOf(entries, k))][2]

(***************************************************************************)
(* serde_json::Map iterates in the order of the keys or, built with        *)
(* preserve_order, in the order in which they first came; the last value   *)
(* of a repeated key wins.  Parse reads one level of a text; the parts of  *)
(* an array or object are read where they are written.                     *)
(***************************************************************************)
IterationOrder(entries, o) ==
  InOrder(Keys(entries), [k \in Keys(entries) |->
    IF o = "sorted" THEN k ELSE Min(PlacesOf(entries, k))])

MapEntries(entries, o) ==
  LET keys == IterationOrder(entries, o) IN
  [i \in DOMAIN keys |-> <<keys[i], LastOf(entries, keys[i])>>]

Parse(text, o) ==
  CASE text.kind = "literal" -> Literal(Scalar(text.literal))
    [] text.kind = "array" -> text
    [] text.kind = "object" -> Object(MapEntries(text.entries, o))

---------------------------------------------------------------------------
(***************************************************************************)
(* Fault: the encoding follows the map's own order.                        *)
(***************************************************************************)
EntriesUnsorted(entries) == entries

EntriesSorted(entries) ==
  InOrder(Range(entries), [e \in Range(entries) |-> e[1]])

Mark(c) == <<"mark", c>>
ScalarToken(l) == <<"scalar", l>>
KeyToken(k) == <<"key", k>>
LengthToken(n) == <<"length", n>>

Separated(parts) ==
  LET out[i \in 0..Len(parts)] ==
        CASE i = 0 -> <<>>
          [] i = 1 -> parts[1]
          [] OTHER -> out[i - 1] \o <<Mark("comma")>> \o parts[i]
  IN  out[Len(parts)]

(***************************************************************************)
(* write_canonical: one level, and its recursive calls.                    *)
(***************************************************************************)
WriteLevel(value, write) ==
  CASE value.kind = "literal" -> <<ScalarToken(value.literal)>>
    [] value.kind = "array" ->
         <<Mark("begin_array")>> \o Separated([i \in DOMAIN value.items |-> write[value.items[i]]]) \o <<Mark("end_array")>>
    [] value.kind = "object" ->
         LET entries == EntriesSorted(value.entries) IN
         <<Mark("begin_object")>> \o Separated([i \in DOMAIN entries |->
                           <<KeyToken(entries[i][1]), Mark("colon")>> \o write[entries[i][2]]])
                      \o <<Mark("end_object")>>

WriteCanonical(o) ==
  LET write[text \in Text] == WriteLevel(Parse(text, o), write) IN write

Part(bytes) == <<LengthToken(Len(bytes))>> \o bytes

Compute(request, o) ==
  Part(<<Mark("v1")>>) \o Part(request.source) \o Part(request.event_type)
    \o Part(WriteCanonical(o)[request.payload])

---------------------------------------------------------------------------
(***************************************************************************)
(* The reference: the texts that mean the same as a text, with no order of *)
(* keys at all.                                                            *)
(***************************************************************************)
SameLevel(t, u, same) ==
  /\ t.kind = u.kind
  /\ t.kind = "literal" => Scalar(t.literal) = Scalar(u.literal)
  /\ t.kind = "array" =>
       /\ Len(t.items) = Len(u.items)
       /\ \A i \in DOMAIN t.items : u.items[i] \in same[t.items[i]]
  /\ t.kind = "object" =>
       /\ Keys(t.entries) = Keys(u.entries)
       /\ \A k \in Keys(t.entries) : LastOf(u.entries, k) \in same[LastOf(t.entries, k)]

SameAs[t \in Text] == {u \in Text : SameLevel(t, u, SameAs)}

Same(r, s) ==
  /\ r.source = s.source
  /\ r.event_type = s.event_type
  /\ s.payload \in SameAs[r.payload]

(***************************************************************************)
(* A request is admitted, and a later one arrives.                         *)
(***************************************************************************)
FingerprintInit ==
  /\ stored \in Sent /\ order \in {"sorted", "inserted"}
  /\ later = stored /\ laterOrder = order

LaterRequest ==
  /\ later' \in Sent /\ laterOrder' \in {"sorted", "inserted"}
  /\ later = stored /\ laterOrder = order
  /\ UNCHANGED <<stored, order>>

FingerprintSpec == FingerprintInit /\ [][LaterRequest]_fingerprintVars

(***************************************************************************)
(* compute's documentation: object keys in any order and a repeated key's  *)
(* earlier values do not matter, array order, number form and every field  *)
(* boundary do; and write_canonical "does not depend on serde_json's map   *)
(* ordering".  Two fingerprints are equal exactly if the requests are the  *)
(* same, whichever map order each was computed with.                       *)
(***************************************************************************)
EqualIffSame ==
  (Compute(stored, order) = Compute(later, laterOrder)) <=> Same(stored, later)
============================================================================
