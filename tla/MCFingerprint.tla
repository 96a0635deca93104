--------------------------- MODULE MCFingerprint ---------------------------
(* Requests for Fingerprint: every payload of at most two entries or       *)
(* elements over a few literals, objects nested in objects and arrays, and *)
(* labels whose concatenations coincide.                                   *)
EXTENDS Fingerprint

MCLiteral == {"A", "\\u0041", "1", "1e2", "100.0"}
FlatObject(literals, keys) ==
  LET pair == keys \X {Literal(l) : l \in literals} IN
  {Object(<<>>)} \cup {Object(<<p>>) : p \in pair} \cup {Object(<<p, q>>) : p, q \in pair}
FlatArray(literals) ==
  {Array(<<>>)} \cup {Array(<<Literal(l)>>) : l \in literals}
    \cup {Array(<<Literal(l), Literal(m)>>) : l, m \in literals}

MCPayload ==
  {Literal(l) : l \in MCLiteral}
    \cup FlatArray({"1", "1e2", "100.0"}) \cup FlatObject({"1", "1e2"}, {1, 2})
    \cup {Array(<<o>>) : o \in FlatObject({"1"}, {1, 2})}
    \cup {Object(<<<<2, o>>, <<1, Literal("1")>>>>) : o \in FlatObject({"1"}, {1, 2})}

MCDepth[t \in MCPayload] ==
  CASE t.kind = "literal" -> 0
    [] t.kind = "array" -> 1 + Max({0} \cup {MCDepth[t.items[i]] : i \in DOMAIN t.items})
    [] t.kind = "object" -> 1 + Max({0} \cup {MCDepth[t.entries[i][2]] : i \in DOMAIN t.entries})

(* Bytes that could be taken for a length. *)
MCByte == {<<"byte", "a">>, <<"length", 1>>}
MCSent ==
  LET a == <<"byte", "a">>
      one == <<"length", 1>>
  IN  [source : {<<a>>}, event_type : {<<a>>}, payload : MCPayload]
        \cup [source : {<<a>>, <<a, a>>, <<a, one, a>>}, event_type : {<<a>>, <<a, a>>, <<a, one, a>>},
              payload : {Literal("1"), Object(<<>>)}]
============================================================================
