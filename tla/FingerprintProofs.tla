-------------------------- MODULE FingerprintProofs --------------------------
(***************************************************************************)
(* The fingerprint of a request decides exactly whether two requests are   *)
(* the same, for every set of JSON texts, nested to any depth, and for     *)
(* every order in which serde_json's map may hand over the entries of an   *)
(* object.                                                                 *)
(***************************************************************************)
EXTENDS Fingerprint, FiniteSetTheorems, WellFoundedInduction, TLAPS

---------------------------------------------------------------------------
(* Sequences of tokens, and the fields that compute hashes.                *)

(***************************************************************************)
(* What is hashed is a sequence of these.                                  *)
(***************************************************************************)
Punctuation == {"comma", "colon", "begin_array", "end_array", "begin_object", "end_object", "v1"}
Token ==
  Byte \cup {Mark(c) : c \in Punctuation} \cup {ScalarToken(Scalar(t.literal)) : t \in Text}
       \cup {KeyToken(k) : k \in Nat} \cup {LengthToken(n) : n \in Nat}

(***************************************************************************)
(* Every kind of token that the encoding writes is one of them.            *)
(***************************************************************************)
LEMMA TokenMembers ==
  /\ Byte \in SUBSET Token
  /\ Mark("comma") \in Token /\ Mark("colon") \in Token
  /\ Mark("begin_array") \in Token /\ Mark("end_array") \in Token
  /\ Mark("begin_object") \in Token /\ Mark("end_object") \in Token
  /\ Mark("v1") \in Token
  /\ \A t \in Text : ScalarToken(Scalar(t.literal)) \in Token
  /\ \A k \in Nat : KeyToken(k) \in Token /\ LengthToken(k) \in Token
BY Zenon DEF Token, Punctuation

(***************************************************************************)
(* Appending to the output buffer: what two calls of write_canonical       *)
(* append, one after the other, is a sequence of tokens.                   *)
(***************************************************************************)
LEMMA Join == \A a, b \in Seq(Token) : a \o b \in Seq(Token)
OBVIOUS

(***************************************************************************)
(* Appending in one piece or in two is the same.                           *)
(***************************************************************************)
LEMMA Assoc == \A a, b, c \in Seq(Token) : a \o b \o c = a \o (b \o c)
<1> SUFFICES ASSUME NEW a \in Seq(Token), NEW b \in Seq(Token), NEW c \in Seq(Token)
             PROVE  a \o b \o c = a \o (b \o c)
  BY Zenon
<1>1. QED
  OBVIOUS

(***************************************************************************)
(* What follows a common beginning can be compared without it.             *)
(***************************************************************************)
LEMMA Cancel == \A a, b, c \in Seq(Token) : a \o b = a \o c => b = c
<1> SUFFICES ASSUME NEW a \in Seq(Token), NEW b \in Seq(Token), NEW c \in Seq(Token), a \o b = a \o c
             PROVE  b = c
  BY Zenon
<1>1. Len(b) = Len(c)
  <2>1. Len(a \o b) = Len(a) + Len(b) /\ Len(a \o c) = Len(a) + Len(c)
    OBVIOUS
  <2>2. Len(a) \in Nat /\ Len(b) \in Nat /\ Len(c) \in Nat
    OBVIOUS
  <2>3. QED
    BY <2>1, <2>2
<1>2. ASSUME NEW i \in 1..Len(b) PROVE b[i] = c[i]
  <2>1. (a \o b)[Len(a) + i] = b[i]
    OBVIOUS
  <2>2. \A j \in 1..Len(c) : (a \o c)[Len(a) + j] = c[j]
    OBVIOUS
  <2>3. (a \o c)[Len(a) + i] = c[i]
    BY <1>1, <2>2, Zenon
  <2>4. QED
    BY <2>1, <2>3, Zenon
<1>3. \A x, y \in Seq(Token) : Len(x) = Len(y) /\ (\A i \in 1..Len(x) : x[i] = y[i]) => x = y
  OBVIOUS
<1>4. QED
  BY <1>1, <1>2, <1>3, Zenon

(***************************************************************************)
(* An empty array or object appends nothing between its brackets.          *)
(***************************************************************************)
LEMMA Empty == <<>> \in Seq(Token) /\ \A a \in Seq(Token) : <<>> \o a = a /\ a \o <<>> = a
OBVIOUS

(***************************************************************************)
(* What is appended later does not change the first token.                 *)
(***************************************************************************)
LEMMA FirstToken == \A a, b \in Seq(Token) : a # <<>> => (a \o b)[1] = a[1]
<1> TAKE a \in Seq(Token), b \in Seq(Token)
<1>1. QED
  OBVIOUS

(***************************************************************************)
(* A single token that is appended.                                        *)
(***************************************************************************)
LEMMA OneToken == \A x \in Token : <<x>> \in Seq(Token) /\ <<x>> # <<>> /\ <<x>>[1] = x
OBVIOUS

(***************************************************************************)
(* Two byte strings of one length, each followed by others, that give the  *)
(* same whole are the same.                                                *)
(***************************************************************************)
LEMMA SameLength ==
  \A a, b, x, y \in Seq(Token) : Len(a) = Len(b) /\ a \o x = b \o y => a = b
<1> SUFFICES ASSUME NEW a \in Seq(Token), NEW b \in Seq(Token), NEW x \in Seq(Token), NEW y \in Seq(Token),
                    Len(a) = Len(b), a \o x = b \o y
             PROVE  a = b
  BY Zenon
<1>1. \A i \in 1..Len(a) : (a \o x)[i] = a[i] /\ (b \o y)[i] = b[i]
  OBVIOUS
<1>2. \A i \in 1..Len(a) : a[i] = b[i]
  BY <1>1
<1>3. QED
  BY <1>2

(***************************************************************************)
(* A field followed by other bytes, and four fields in a row.              *)
(***************************************************************************)
Field(a, x) == Part(a) \o x
Framed(a, b, c, d) == Part(a) \o Part(b) \o Part(c) \o Part(d)

(***************************************************************************)
(* "Length-prefixed fields prevent ambiguity between field boundaries":    *)
(* from what starts with a field, the field and what follows it can be     *)
(* told.                                                                   *)
(***************************************************************************)
LEMMA FieldBoundary ==
  \A a, b, x, y \in Seq(Token) : Field(a, x) = Field(b, y) => a = b /\ x = y
<1> SUFFICES ASSUME NEW a \in Seq(Token), NEW b \in Seq(Token), NEW x \in Seq(Token), NEW y \in Seq(Token),
                    Part(a) \o x = Part(b) \o y
             PROVE  a = b /\ x = y
  BY Zenon DEF Field
<1> DEFINE h == LengthToken(Len(a))
           k == LengthToken(Len(b))
<1>1. Len(a) \in Nat /\ Len(b) \in Nat
  OBVIOUS
<1>2. h \in Token /\ k \in Token
  BY <1>1, TokenMembers, Zenon
<1>3. h = k => Len(a) = Len(b)
  BY <1>1 DEF LengthToken
<1>4. Part(a) = <<h>> \o a /\ Part(b) = <<k>> \o b
  BY Zenon DEF Part
<1> HIDE DEF h, k
<1>5. <<h>> \in Seq(Token) /\ <<k>> \in Seq(Token) /\ <<h>> # <<>> /\ <<k>> # <<>>
      /\ <<h>>[1] = h /\ <<k>>[1] = k
  BY <1>2, OneToken, Zenon
<1>6. /\ a \o x \in Seq(Token) /\ b \o y \in Seq(Token)
  BY Join, Zenon
<1>7. Part(a) \o x = <<h>> \o (a \o x)
  <2>1. \A c, d \in Seq(Token) : <<h>> \o c \o d = <<h>> \o (c \o d)
    BY <1>5, Assoc, Zenon
  <2>2. \A d \in Seq(Token) : <<h>> \o a \o d = <<h>> \o (a \o d)
    BY <2>1, Zenon
  <2>3. QED
    BY <1>4, <2>2, Zenon
<1>8. Part(b) \o y = <<k>> \o (b \o y)
  <2>1. \A c, d \in Seq(Token) : <<k>> \o c \o d = <<k>> \o (c \o d)
    BY <1>5, Assoc, Zenon
  <2>2. \A d \in Seq(Token) : <<k>> \o b \o d = <<k>> \o (b \o d)
    BY <2>1, Zenon
  <2>3. QED
    BY <1>4, <2>2, Zenon
<1>9. h = k
  <2>1. (<<h>> \o (a \o x))[1] = h
    BY <1>5, <1>6, FirstToken, Zenon
  <2>2. (<<k>> \o (b \o y))[1] = k
    BY <1>5, <1>6, FirstToken, Zenon
  <2>3. QED
    BY <1>7, <1>8, <2>1, <2>2, Zenon
<1>10. a \o x = b \o y
  <2>1. \A c, d \in Seq(Token) : <<h>> \o c = <<h>> \o d => c = d
    BY <1>5, Cancel, Zenon
  <2>2. \A d \in Seq(Token) : <<h>> \o (a \o x) = <<h>> \o d => a \o x = d
    BY <1>6, <2>1, Zenon
  <2>3. QED
    BY <1>6, <1>7, <1>8, <1>9, <2>2, Zenon
<1>11. a = b
  <2>1. \A c, d \in Seq(Token) : Len(a) = Len(b) /\ a \o c = b \o d => a = b
    BY SameLength, Zenon
  <2>2. QED
    BY <1>3, <1>9, <1>10, <2>1, Zenon
<1>12. x = y
  <2>1. \A c, d \in Seq(Token) : a \o c = a \o d => c = d
    BY Cancel, Zenon
  <2>2. QED
    BY <1>10, <1>11, <2>1, Zenon
<1>13. QED
  BY <1>11, <1>12, Zenon

(***************************************************************************)
(* Four fields, each with its length in front, can be told apart: no byte  *)
(* moved from one field to its neighbour gives the same whole.             *)
(***************************************************************************)
LEMMA FieldsDecode ==
  \A a \in Seq(Token) : \A b, e \in Seq(Token) : \A c, f \in Seq(Token) : \A d, g \in Seq(Token) :
    Framed(a, b, c, d) = Framed(a, e, f, g) => b = e /\ c = f /\ d = g
<1> TAKE a \in Seq(Token)
<1> TAKE b \in Seq(Token), e \in Seq(Token)
<1> TAKE c \in Seq(Token), f \in Seq(Token)
<1> TAKE d \in Seq(Token), g \in Seq(Token)
<1> SUFFICES ASSUME Part(a) \o Part(b) \o Part(c) \o Part(d) = Part(a) \o Part(e) \o Part(f) \o Part(g)
             PROVE  b = e /\ c = f /\ d = g
  BY Zenon DEF Framed
<1>1. \A s \in Seq(Token) : Part(s) \in Seq(Token)
  <2> TAKE s \in Seq(Token)
  <2>1. Len(s) \in Nat
    OBVIOUS
  <2>2. LengthToken(Len(s)) \in Token
    BY <2>1, TokenMembers, Zenon
  <2>3. <<LengthToken(Len(s))>> \in Seq(Token)
    BY <2>2, OneToken, Zenon
  <2>4. QED
    BY <2>3, Join, Zenon DEF Part
<1> DEFINE A == Part(a)
<1>2. \A s, u \in Seq(Token) :
        s \o u \in Seq(Token)
  BY Join, Zenon
<1>3. A \in Seq(Token)
  BY <1>1, Zenon
<1> HIDE DEF A
<1>4. ASSUME NEW q \in Seq(Token), NEW r \in Seq(Token), NEW s \in Seq(Token)
      PROVE  A \o q \o r \o s = A \o (q \o (r \o s))
  <2>1. A \o q \in Seq(Token) /\ r \o s \in Seq(Token)
    BY <1>2, <1>3, Zenon
  <2>2. A \o q \o r \o s = (A \o q) \o (r \o s)
    <3>1. \A v, w \in Seq(Token) : (A \o q) \o v \o w = (A \o q) \o (v \o w)
      BY <2>1, Assoc, Zenon
    <3>2. \A w \in Seq(Token) : (A \o q) \o r \o w = (A \o q) \o (r \o w)
      BY <3>1, Zenon
    <3>3. QED
      BY <3>2, Zenon
  <2>3. (A \o q) \o (r \o s) = A \o (q \o (r \o s))
    <3>1. \A v, w \in Seq(Token) : A \o v \o w = A \o (v \o w)
      BY <1>3, Assoc, Zenon
    <3>2. \A w \in Seq(Token) : A \o q \o w = A \o (q \o w)
      BY <3>1, Zenon
    <3>3. QED
      BY <2>1, <3>2, Zenon
  <2>4. QED
    BY <2>2, <2>3, Zenon
<1>5. /\ Part(b) \in Seq(Token) /\ Part(c) \in Seq(Token) /\ Part(d) \in Seq(Token)
      /\ Part(e) \in Seq(Token) /\ Part(f) \in Seq(Token) /\ Part(g) \in Seq(Token)
  BY <1>1, Zenon
<1>6. /\ Part(c) \o Part(d) \in Seq(Token) /\ Part(f) \o Part(g) \in Seq(Token)
  BY <1>2, <1>5, Zenon
<1>7. /\ Part(b) \o (Part(c) \o Part(d)) \in Seq(Token)
      /\ Part(e) \o (Part(f) \o Part(g)) \in Seq(Token)
  BY <1>2, <1>5, <1>6, Zenon
<1>8. A \o Part(b) \o Part(c) \o Part(d) = A \o (Part(b) \o (Part(c) \o Part(d)))
  <2>1. \A r, s \in Seq(Token) : A \o Part(b) \o r \o s = A \o (Part(b) \o (r \o s))
    BY <1>4, <1>5, Zenon
  <2>2. QED
    BY <1>5, <2>1, Zenon
<1>9. A \o Part(e) \o Part(f) \o Part(g) = A \o (Part(e) \o (Part(f) \o Part(g)))
  <2>1. \A r, s \in Seq(Token) : A \o Part(e) \o r \o s = A \o (Part(e) \o (r \o s))
    BY <1>4, <1>5, Zenon
  <2>2. QED
    BY <1>5, <2>1, Zenon
<1>10. Part(b) \o (Part(c) \o Part(d)) = Part(e) \o (Part(f) \o Part(g))
  <2> DEFINE L == Part(b) \o (Part(c) \o Part(d))
             R == Part(e) \o (Part(f) \o Part(g))
  <2>1. A \o L = A \o R
    BY <1>8, <1>9, Zenon DEF A
  <2>2. L \in Seq(Token) /\ R \in Seq(Token)
    BY <1>7, Zenon
  <2> HIDE DEF L, R
  <2>3. \A v, w \in Seq(Token) : A \o v = A \o w => v = w
    BY <1>3, Cancel, Zenon
  <2>4. L = R
    BY <2>1, <2>2, <2>3, Zenon
  <2>5. QED
    BY <2>4, Zenon DEF L, R
<1>11. b = e /\ Part(c) \o Part(d) = Part(f) \o Part(g)
  <2> DEFINE x == Part(c) \o Part(d)
             y == Part(f) \o Part(g)
  <2>1. x \in Seq(Token) /\ y \in Seq(Token)
    BY <1>6, Zenon
  <2>2. Field(b, x) = Field(e, y)
    BY <1>10, Zenon DEF Field
  <2> HIDE DEF x, y
  <2>3. b = e /\ x = y
    BY <2>1, <2>2, FieldBoundary, SMT
  <2>4. QED
    BY <2>3, Zenon DEF x, y
<1>12. c = f /\ Part(d) = Part(g)
  <2>1. Field(c, Part(d)) = Field(f, Part(g))
    BY <1>11, Zenon DEF Field
  <2>2. QED
    BY <1>5, <2>1, FieldBoundary, SMTT(30)
<1>13. d = g
  <2> DEFINE none == <<>>
  <2>1. none \in Seq(Token)
    BY Empty, Zenon
  <2>2. Field(d, none) = Field(g, none)
    BY <1>5, <1>12, Empty, Zenon DEF Field
  <2> HIDE DEF none
  <2>3. QED
    BY <2>1, <2>2, FieldBoundary, SMT
<1>14. QED
  BY <1>11, <1>12, <1>13, Zenon

---------------------------------------------------------------------------
(* Lists with commas between their parts.                                  *)

(***************************************************************************)
(* A set of numbers with a member has a least one: every induction below   *)
(* looks at the least counterexample.                                      *)
(***************************************************************************)
LEMMA Least ==
  ASSUME NEW N \in SUBSET Nat, N # {}
  PROVE  \E n \in N : \A m \in N : n <= m
<1>1. PICK n \in N : \A m \in N : ~(<<m, n>> \in OpToRel(<, Nat))
  BY WFMin, NatLessThanWellFounded, ZenonT(30)
<1>2. \A m \in N : ~(m < n)
  BY <1>1, ZenonT(30) DEF OpToRel
<1>3. QED
  BY <1>2

(***************************************************************************)
(* The output buffer as the loop over the parts leaves it after each turn. *)
(***************************************************************************)
Buffer(out, parts) ==
  /\ out[0] = <<>>
  /\ Len(parts) >= 1 => out[1] = parts[1]
  /\ \A i \in 2..Len(parts) : out[i] = out[i - 1] \o <<Mark("comma")>> \o parts[i]

(***************************************************************************)
(* The loop that writes the elements of an array or the entries of an      *)
(* object with commas between them has such a buffer.                      *)
(***************************************************************************)
LEMMA BufferExists ==
  ASSUME NEW parts \in Seq(Seq(Token))
  PROVE  \E out \in [0..Len(parts) -> Seq(Token)] :
           /\ Buffer(out, parts)
           /\ Separated(parts) = out[Len(parts)]
<1> DEFINE n == Len(parts)
           comma == <<Mark("comma")>>
           next(out, i) == CASE i = 0 -> <<>>
                             [] i = 1 -> parts[1]
                             [] OTHER -> out[i - 1] \o comma \o parts[i]
           Solves(g, m) == \A i \in 0..m : g[i] = next(g, i)
           bad == {m \in Nat : m <= n /\ ~ \E g \in [0..m -> Seq(Token)] : Solves(g, m)}
<1>1. n \in Nat /\ \A i \in 1..n : parts[i] \in Seq(Token)
  OBVIOUS
<1>2. \A s, t \in Seq(Token) : s \o comma \o t \in Seq(Token)
  BY TokenMembers
<1>a. \A f : next(f, 0) = <<>> /\ next(f, 1) = parts[1]
  <2>1. 1 # 0
    OBVIOUS
  <2>2. QED
    BY <2>1, Zenon
<1>b. \A f, i : i # 0 /\ i # 1 => next(f, i) = f[i - 1] \o comma \o parts[i]
  BY Zenon
<1> HIDE DEF next, comma
<1>3. bad = {}
  <2> SUFFICES ASSUME bad # {} PROVE FALSE
    OBVIOUS
  <2>1. bad \in SUBSET Nat
    OBVIOUS
  <2>2. PICK m \in bad : \A k \in bad : m <= k
    BY <2>1, Least, Zenon
  <2>3. m \in Nat /\ m <= n /\ ~ \E g \in [0..m -> Seq(Token)] : Solves(g, m)
    BY Zenon
  <2>4. CASE m = 0
    <3> DEFINE g == [i \in 0..m |-> <<>>]
    <3>1. g \in [0..m -> Seq(Token)] /\ Solves(g, m)
      BY <2>4, <1>a
    <3>2. QED
      BY <2>3, <3>1, Zenon
  <2>5. CASE m # 0
    <3>1. m - 1 \in Nat /\ m - 1 <= n /\ m - 1 \notin bad
      <4> HIDE DEF bad
      <4>1. QED
        BY <1>1, <2>2, <2>3, <2>5
    <3>2. PICK g \in [0..(m - 1) -> Seq(Token)] : Solves(g, m - 1)
      BY <3>1, Zenon
    <3> DEFINE h == [i \in 0..m |-> IF i = m THEN next(g, i) ELSE g[i]]
    <3>3. next(g, m) \in Seq(Token)
      <4>1. CASE m = 1
        BY <4>1, <1>1, <1>a, <2>3
      <4>2. CASE m > 1
        <5>1. g[m - 1] \in Seq(Token) /\ parts[m] \in Seq(Token)
          BY <1>1, <2>3, <3>2, <4>2
        <5>2. next(g, m) = g[m - 1] \o comma \o parts[m]
          <6>1. m # 0 /\ m # 1
            BY <4>2, <2>3
          <6>2. QED
            BY <6>1, <1>b, Zenon
        <5>3. QED
          BY <1>2, <5>1, <5>2, Zenon
      <4>3. QED
        BY <2>3, <2>5, <4>1, <4>2
    <3>4. h \in [0..m -> Seq(Token)]
      BY <2>3, <3>2, <3>3
    <3>5. ASSUME NEW i \in 0..m PROVE h[i] = next(h, i)
      <4>1. i # 0 /\ i # 1 => h[i - 1] = g[i - 1]
        BY <2>3
      <4>2. next(h, i) = next(g, i)
        <5>1. CASE i = 0 \/ i = 1
          BY <5>1, <1>a
        <5>2. CASE i # 0 /\ i # 1
          BY <5>2, <4>1, <1>b, Zenon
        <5>3. QED
          BY <5>1, <5>2
      <4>3. h[i] = next(g, i)
        <5>1. CASE i = m
          BY <5>1
        <5>2. CASE i # m
          <6>1. i \in 0..(m - 1) /\ h[i] = g[i]
            BY <5>2, <2>3
          <6>2. QED
            BY <3>2, <6>1
        <5>3. QED
          BY <5>1, <5>2
      <4>4. QED
        BY <4>2, <4>3
    <3>6. QED
      <4> HIDE DEF h
      <4>1. QED
        BY <2>3, <3>4, <3>5, Zenon
  <2>6. QED
    BY <2>4, <2>5
<1>4. PICK g \in [0..n -> Seq(Token)] : Solves(g, n)
  <2>1. n \notin bad
    BY <1>3, Zenon
  <2>2. n <= n
    BY <1>1
  <2>3. QED
    BY <1>1, <2>1, <2>2, Zenon
<1> DEFINE out == CHOOSE f : f = [i \in 0..n |-> next(f, i)]
<1>5. g = [i \in 0..n |-> next(g, i)]
  BY <1>4
<1>6. out = [i \in 0..n |-> next(out, i)]
  BY <1>5, Zenon
<1>7. Separated(parts) = out[n]
  BY Zenon DEF Separated, next, comma
<1> HIDE DEF out
<1>8. DOMAIN out = 0..n /\ \A i \in 0..n : out[i] = next(out, i)
  BY <1>6, Zenon
<1>9. \A i \in 0..n : out[i] \in Seq(Token)
  <2> DEFINE odd == {i \in 0..n : out[i] \notin Seq(Token)}
  <2> SUFFICES ASSUME odd # {} PROVE FALSE
    OBVIOUS
  <2>1. odd \in SUBSET Nat
    OBVIOUS
  <2>2. PICK i \in odd : \A j \in odd : i <= j
    BY <2>1, Least, Zenon
  <2>3. i \in 0..n /\ out[i] \notin Seq(Token)
    BY Zenon
  <2>4. i # 0 /\ i # 1
    <3>1. 0 \in 0..n /\ out[0] = <<>> /\ <<>> \in Seq(Token)
      BY <1>1, <1>8, <1>a
    <3>2. n >= 1 => out[1] = parts[1] /\ parts[1] \in Seq(Token)
      BY <1>1, <1>8, <1>a
    <3>3. i # 0
      BY <2>3, <3>1, Zenon
    <3>4. i = 1 => n >= 1
      BY <1>1, <2>3
    <3>5. QED
      BY <2>3, <3>2, <3>3, <3>4, Zenon
  <2>5. i - 1 \in 0..n /\ i - 1 \notin odd
    <3> HIDE DEF odd
    <3>1. QED
      BY <1>1, <2>2, <2>3, <2>4
  <2>6. out[i - 1] \in Seq(Token)
    BY <2>5, Zenon
  <2>7. out[i] = out[i - 1] \o comma \o parts[i] /\ parts[i] \in Seq(Token)
    <3>1. parts[i] \in Seq(Token)
      BY <1>1, <2>3, <2>4
    <3>2. QED
      BY <1>8, <1>b, <2>3, <2>4, <3>1, Zenon
  <2>8. QED
    BY <1>2, <2>3, <2>6, <2>7, Zenon
<1>10. out \in [0..n -> Seq(Token)]
  <2>1. out = [i \in 0..n |-> out[i]]
    BY <1>6, <1>8
  <2>2. QED
    BY <1>9, <2>1
<1>11. Buffer(out, parts)
  <2>1. out[0] = <<>>
    BY <1>1, <1>8, <1>a
  <2>2. Len(parts) >= 1 => out[1] = parts[1]
    BY <1>1, <1>8, <1>a
  <2>3. ASSUME NEW i \in 2..Len(parts) PROVE out[i] = out[i - 1] \o <<Mark("comma")>> \o parts[i]
    <3>1. i \in 0..n /\ i # 0 /\ i # 1
      BY <1>1
    <3>2. QED
      BY <3>1, <1>8, <1>b, Zenon DEF comma
  <2>4. QED
    BY <2>1, <2>2, <2>3, Zenon DEF Buffer
<1>12. QED
  BY <1>7, <1>10, <1>11

(***************************************************************************)
(* What the buffer holds after some turns stays at its front.              *)
(***************************************************************************)
LEMMA BufferGrows ==
  ASSUME NEW parts \in Seq(Seq(Token)),
         NEW out \in [0..Len(parts) -> Seq(Token)], Buffer(out, parts),
         NEW i \in 0..Len(parts)
  PROVE  \A j \in i..Len(parts) : \E rest \in Seq(Token) : out[j] = out[i] \o rest
<1> DEFINE n == Len(parts)
           comma == <<Mark("comma")>>
           bad == {j \in i..n : ~ \E rest \in Seq(Token) : out[j] = out[i] \o rest}
<1>1. n \in Nat /\ i \in Nat /\ comma \in Seq(Token)
  BY TokenMembers
<1>2. \A j \in 1..n : parts[j] \in Seq(Token)
  OBVIOUS
<1> SUFFICES ASSUME bad # {} PROVE FALSE
  BY Zenon
<1>3. bad \in SUBSET Nat
  BY <1>1
<1>4. PICK j \in bad : \A k \in bad : j <= k
  BY <1>3, Least, Zenon
<1>5. j \in i..n /\ ~ \E rest \in Seq(Token) : out[j] = out[i] \o rest
  BY Zenon
<1>6. out[i] \in Seq(Token)
  OBVIOUS
<1>7. j # i
  <2>1. out[i] = out[i] \o <<>> /\ <<>> \in Seq(Token)
    BY <1>6
  <2>2. QED
    BY <1>5, <2>1, Zenon
<1>8. j - 1 \in i..n /\ j - 1 \notin bad /\ j \in 1..n
  <2> HIDE DEF bad
  <2>1. QED
    BY <1>1, <1>4, <1>5, <1>7
<1>9. PICK rest \in Seq(Token) : out[j - 1] = out[i] \o rest
  BY <1>8, Zenon
<1>10. CASE j = 1
  <2>1. i = 0 /\ out[j] = parts[1] /\ out[i] = <<>>
    BY <1>1, <1>5, <1>7, <1>8, <1>10 DEF Buffer
  <2>2. parts[1] \in Seq(Token) /\ out[j] = out[i] \o parts[1]
    BY <1>2, <1>8, <1>10, <2>1
  <2>3. QED
    BY <1>5, <2>2, Zenon
<1>11. CASE j # 1
  <2>1. out[j] = out[j - 1] \o comma \o parts[j]
    <3>1. j \in 2..n
      BY <1>1, <1>8, <1>11
    <3>2. QED
      BY <3>1, Zenon DEF Buffer
  <2> DEFINE more == rest \o comma \o parts[j]
  <2>2. parts[j] \in Seq(Token)
    BY <1>2, <1>8
  <2> HIDE DEF comma
  <2>3. more \in Seq(Token) /\ out[j] = out[i] \o more
    <3>1. more \in Seq(Token) /\ out[i] \o rest \o comma \o parts[j] = out[i] \o more
      <4>1. rest \o comma \in Seq(Token)
        BY <1>1, Join, Zenon
      <4>2. more \in Seq(Token)
        BY <2>2, <4>1, Join, Zenon
      <4>3. out[i] \o rest \o comma = out[i] \o (rest \o comma)
        BY <1>1, <1>6, Assoc, Zenon
      <4>4. (out[i] \o (rest \o comma)) \o parts[j] = out[i] \o ((rest \o comma) \o parts[j])
        <5>1. \A b, c \in Seq(Token) : out[i] \o b \o c = out[i] \o (b \o c)
          BY <1>6, Assoc, Zenon
        <5>2. \A c \in Seq(Token) : out[i] \o (rest \o comma) \o c = out[i] \o ((rest \o comma) \o c)
          BY <4>1, <5>1, Zenon
        <5>3. QED
          BY <2>2, <5>2, Zenon
      <4>5. QED
        BY <4>2, <4>3, <4>4, Zenon
    <3>2. QED
      BY <1>9, <2>1, <3>1, Zenon
  <2>4. QED
    BY <1>5, <2>3, Zenon
<1>12. QED
  BY <1>10, <1>11

(***************************************************************************)
(* What the loop puts before the next part when i of them are written.     *)
(***************************************************************************)
Separator(i) == IF i = 0 THEN <<>> ELSE <<Mark("comma")>>

(***************************************************************************)
(* The whole output seen from a turn of the loop: what is written so far,  *)
(* then the separator and the next part, or, after the last part, what     *)
(* follows the list.                                                       *)
(***************************************************************************)
LEMMA BufferSplits ==
  ASSUME NEW parts \in Seq(Seq(Token)),
         NEW out \in [0..Len(parts) -> Seq(Token)], Buffer(out, parts),
         NEW tail \in Seq(Token), NEW i \in 0..(Len(parts) - 1)
  PROVE  \E y \in Seq(Token) :
           out[Len(parts)] \o tail = out[i] \o (Separator(i) \o (parts[i + 1] \o y))
<1> DEFINE n == Len(parts)
           comma == <<Mark("comma")>>
           sep == Separator(i)
<1>1. n \in Nat /\ i \in 0..n /\ i + 1 \in 1..n /\ i + 1 \in 0..n /\ n \in (i + 1)..n
  OBVIOUS
<1>2. sep \in Seq(Token)
  BY TokenMembers DEF Separator
<1>3. parts[i + 1] \in Seq(Token) /\ out[i] \in Seq(Token)
  <2>1. parts[i + 1] \in Seq(Token)
    BY <1>1
  <2>2. out[i] \in Seq(Token)
    BY <1>1, Zenon
  <2>3. QED
    BY <2>1, <2>2
<1>4. PICK rest \in Seq(Token) : out[n] = out[i + 1] \o rest
  BY <1>1, BufferGrows, Zenon
<1>5. out[i + 1] = out[i] \o (sep \o parts[i + 1])
  <2>1. CASE i = 0
    <3>1. out[i] = <<>> /\ out[i + 1] = parts[i + 1] /\ sep = <<>>
      BY <1>1, <2>1 DEF Buffer, Separator
    <3>2. <<>> \o (<<>> \o parts[i + 1]) = parts[i + 1]
      BY <1>3, Empty, Zenon
    <3>3. QED
      BY <3>1, <3>2, Zenon
  <2>2. CASE i # 0
    <3>1. PICK k \in 2..n : k = i + 1 /\ k - 1 = i
      BY <1>1, <2>2
    <3>2. out[k] = out[k - 1] \o comma \o parts[k]
      BY Zenon DEF Buffer
    <3>3. sep = comma
      BY <2>2 DEF Separator
    <3> HIDE DEF sep, comma
    <3>4. out[i] \o sep \o parts[i + 1] = out[i] \o (sep \o parts[i + 1])
      <4>1. \A b, c \in Seq(Token) : out[i] \o b \o c = out[i] \o (b \o c)
        BY <1>3, Assoc, Zenon
      <4>2. \A c \in Seq(Token) : out[i] \o sep \o c = out[i] \o (sep \o c)
        BY <1>2, <4>1, Zenon
      <4>3. QED
        BY <1>3, <4>2, Zenon
    <3>5. QED
      BY <3>1, <3>2, <3>3, <3>4, Zenon
  <2>3. QED
    BY <2>1, <2>2, Zenon
<1> HIDE DEF sep
<1> DEFINE y == rest \o tail
<1>6. y \in Seq(Token)
  OBVIOUS
<1>7. out[n] \o tail = out[i] \o (sep \o (parts[i + 1] \o y))
  <2> DEFINE x == out[i]
             p == parts[i + 1]
  <2>1. x \in Seq(Token) /\ p \in Seq(Token) /\ sep \in Seq(Token)
    BY <1>2, <1>3, Zenon
  <2>2. out[n] = x \o (sep \o p) \o rest
    BY <1>4, <1>5, Zenon
  <2> HIDE DEF x, p
  <2>3. sep \o p \in Seq(Token) /\ p \o y \in Seq(Token)
    BY <1>6, <2>1, Join, Zenon
  <2>4. (x \o (sep \o p)) \in Seq(Token)
    BY <2>1, <2>3, Join, Zenon
  <2>5. (x \o (sep \o p)) \o rest \o tail = (x \o (sep \o p)) \o y
    BY <2>4, Assoc, Zenon
  <2>6. y \in Seq(Token)
    BY <1>6
  <2> HIDE DEF y
  <2>7. (x \o (sep \o p)) \o y = x \o ((sep \o p) \o y)
    <3>1. PICK w \in Seq(Token) : w = sep \o p
      BY <2>3, Zenon
    <3>2. (x \o w) \o y = x \o (w \o y)
      <4>1. \A b, c \in Seq(Token) : x \o b \o c = x \o (b \o c)
        BY <2>1, Assoc, Zenon
      <4>2. \A c \in Seq(Token) : x \o w \o c = x \o (w \o c)
        BY <4>1, Zenon
      <4>3. QED
        BY <2>6, <4>2, Zenon
    <3>3. QED
      BY <3>1, <3>2, Zenon
  <2>8. (sep \o p) \o y = sep \o (p \o y)
    <3>1. \A b, c \in Seq(Token) : sep \o b \o c = sep \o (b \o c)
      BY <2>1, Assoc, Zenon
    <3>2. \A c \in Seq(Token) : sep \o p \o c = sep \o (p \o c)
      BY <2>1, <3>1, Zenon
    <3>3. QED
      BY <2>6, <3>2, Zenon
  <2>9. QED
    BY <2>2, <2>5, <2>7, <2>8, Zenon DEF x, p
<1>8. QED
  BY <1>6, <1>7, Zenon DEF sep

(***************************************************************************)
(* A list with its closing bracket determines its parts, one after the     *)
(* other, whatever follows it, if its parts are recognisable: none starts  *)
(* with the closing bracket, and none is the beginning of a different one. *)
(***************************************************************************)
Recognisable(P, Q, close) ==
  /\ \A i \in DOMAIN P : P[i] # <<>> /\ P[i][1] # close
  /\ \A i \in DOMAIN P, j \in DOMAIN Q, x, y \in Seq(Token) : P[i] \o x = Q[j] \o y => P[i] = Q[j]

(***************************************************************************)
(* The parts of one list are the first parts of the other.                 *)
(***************************************************************************)
LEMMA ListPrefix ==
  ASSUME NEW P \in Seq(Seq(Token)), NEW Q \in Seq(Seq(Token)), NEW close \in Token,
         close # Mark("comma"), NEW a \in Seq(Token), NEW b \in Seq(Token),
         Recognisable(P, Q, close),
         Separated(P) \o (<<close>> \o a) = Separated(Q) \o (<<close>> \o b)
  PROVE  \A i \in 1..Len(P) : i <= Len(Q) /\ P[i] = Q[i]
<1> DEFINE m == Len(P)
           n == Len(Q)
           comma == <<Mark("comma")>>
<1>1. PICK p \in [0..m -> Seq(Token)] : Buffer(p, P) /\ Separated(P) = p[m]
  BY BufferExists
<1>2. PICK q \in [0..n -> Seq(Token)] : Buffer(q, Q) /\ Separated(Q) = q[n]
  BY BufferExists
<1> DEFINE Alike(i) == i <= n /\ p[i] = q[i] /\ (i # 0 => P[i] = Q[i])
           bad == {i \in 0..m : ~Alike(i)}
<1>3. m \in Nat /\ n \in Nat
  OBVIOUS
<1>4. bad = {}
  <2> SUFFICES ASSUME bad # {} PROVE FALSE
    OBVIOUS
  <2>1. bad \in SUBSET Nat
    BY <1>3
  <2>2. PICK k \in bad : \A j \in bad : k <= j
    BY <2>1, Least, Zenon
  <2>3. k \in 0..m /\ ~Alike(k)
    BY Zenon
  <2>4. k # 0
    <3>1. 0 <= n /\ p[0] = q[0]
      BY <1>1, <1>2, <1>3 DEF Buffer
    <3>2. QED
      BY <2>3, <3>1, Zenon
  <2>5. PICK i \in 0..(m - 1) : k = i + 1 /\ i \notin bad
    <3> HIDE DEF bad
    <3>1. QED
      BY <1>3, <2>2, <2>3, <2>4
  <2>6. i \in 0..m /\ k \in 1..m
    BY <1>3, <2>3, <2>4, <2>5
  <2>7. Alike(i)
    BY <2>5, <2>6, Zenon
  <2> HIDE DEF bad
  <2> DEFINE sep == Separator(i)
             ta == <<close>> \o a
             tb == <<close>> \o b
  <2>8. ta \in Seq(Token) /\ tb \in Seq(Token) /\ <<close>> \in Seq(Token) /\ <<close>> # <<>>
    BY OneToken, Join
  <2>9. sep \in Seq(Token)
    BY TokenMembers DEF Separator
  <2>10. PICK x \in Seq(Token) : p[m] \o ta = p[i] \o (sep \o (P[k] \o x))
    <3>1. \E y \in Seq(Token) : p[m] \o ta = p[i] \o (sep \o (P[i + 1] \o y))
      <4> HIDE DEF ta
      <4>1. QED
        BY <1>1, <2>8, BufferSplits, Zenon
    <3>2. QED
      BY <2>5, <3>1, Zenon
  <2>11. P[k] \in Seq(Token) /\ P[k] # <<>> /\ P[k][1] # close /\ k \in DOMAIN P
    <3>1. P[k] \in Seq(Token) /\ k \in DOMAIN P
      BY <2>6
    <3>2. QED
      BY <3>1, Zenon DEF Recognisable
  <2>12. p[i] \in Seq(Token) /\ p[i] = q[i]
    BY <1>1, <2>6, <2>7, Zenon
  <2>13. p[m] \o ta = q[n] \o tb
    BY <1>1, <1>2, Zenon
  <2> HIDE DEF sep, ta, tb
  <2>14. P[k] \o x \in Seq(Token) /\ sep \o (P[k] \o x) \in Seq(Token)
    BY <2>9, <2>11, Join, Zenon
  <2>15. CASE i = n
    <3>1. p[i] \o (sep \o (P[k] \o x)) = p[i] \o tb
      BY <2>10, <2>12, <2>13, <2>15, Zenon
    <3>2. sep \o (P[k] \o x) = tb
      BY <2>8, <2>12, <2>14, <3>1, Cancel, Zenon
    <3>3. tb[1] = close
      BY <2>8, FirstToken, OneToken, Zenon DEF tb
    <3>4. CASE i = 0
      <4>1. sep = <<>>
        BY <3>4 DEF sep, Separator
      <4>2. P[k] \o x = tb
        BY <2>14, <3>2, <4>1, Empty, Zenon
      <4>3. (P[k] \o x)[1] = P[k][1]
        BY <2>11, FirstToken, Zenon
      <4>4. QED
        BY <2>11, <3>3, <4>2, <4>3, Zenon
    <3>5. CASE i # 0
      <4>1. sep = comma
        BY <3>5 DEF sep, Separator
      <4>2. comma \in Seq(Token) /\ comma # <<>> /\ comma[1] = Mark("comma")
        BY OneToken, TokenMembers, Zenon
      <4> HIDE DEF comma
      <4>3. (comma \o (P[k] \o x))[1] = Mark("comma")
        BY <2>14, <4>2, FirstToken, Zenon
      <4>4. QED
        BY <3>2, <3>3, <4>1, <4>3, Zenon
    <3>6. QED
      BY <3>4, <3>5
  <2>16. CASE i # n
    <3>1. i \in 0..(n - 1) /\ i + 1 \in 1..n
      BY <1>3, <2>5, <2>7, <2>16
    <3>2. PICK y \in Seq(Token) : q[n] \o tb = q[i] \o (sep \o (Q[k] \o y))
      <4>1. \E y \in Seq(Token) : q[n] \o tb = q[i] \o (Separator(i) \o (Q[i + 1] \o y))
        BY <1>2, <2>8, <3>1, BufferSplits, ZenonT(40)
      <4>2. QED
        BY <2>5, <4>1, Zenon DEF sep
    <3>3. Q[k] \in Seq(Token) /\ k \in DOMAIN Q
      BY <2>5, <3>1
    <3>4. Q[k] \o y \in Seq(Token)
      BY <3>3, Join, Zenon
    <3>5. sep \o (Q[k] \o y) \in Seq(Token)
      BY <2>9, <3>4, Join, Zenon
    <3>6. sep \o (P[k] \o x) = sep \o (Q[k] \o y)
      <4>1. p[i] \o (sep \o (P[k] \o x)) = p[i] \o (sep \o (Q[k] \o y))
        BY <2>10, <2>12, <2>13, <3>2, Zenon
      <4>2. QED
        BY <2>12, <2>14, <3>5, <4>1, Cancel, Zenon
    <3>7. P[k] \o x = Q[k] \o y
      BY <2>9, <2>14, <3>4, <3>6, Cancel, Zenon
    <3>8. P[k] = Q[k]
      <4>1. \A u, v \in Seq(Token) : P[k] \o u = Q[k] \o v => P[k] = Q[k]
        BY <2>11, <3>3, Zenon DEF Recognisable
      <4>2. QED
        BY <3>7, <4>1, Zenon
    <3>9. p[k] = q[k]
      <4>1. CASE i = 0
        BY <1>1, <1>2, <1>3, <2>5, <2>6, <3>1, <3>8, <4>1 DEF Buffer
      <4>2. CASE i # 0
        <5>1. k \in 2..m /\ k \in 2..n /\ k - 1 = i
          BY <1>3, <2>5, <2>6, <3>1, <4>2
        <5>2. p[k] = p[k - 1] \o comma \o P[k] /\ q[k] = q[k - 1] \o comma \o Q[k]
          BY <1>1, <1>2, <5>1, Zenon DEF Buffer
        <5>3. QED
          BY <2>12, <3>8, <5>1, <5>2, Zenon
      <4>3. QED
        BY <4>1, <4>2
    <3>10. k <= n
      BY <1>3, <2>5, <3>1
    <3>11. QED
      BY <2>3, <3>8, <3>9, <3>10, Zenon
  <2>17. QED
    BY <2>15, <2>16
<1>5. ASSUME NEW i \in 1..m PROVE i <= n /\ P[i] = Q[i]
  <2>1. i \in 0..m /\ i # 0
    BY <1>3
  <2>2. Alike(i)
    BY <1>4, <2>1, Zenon
  <2>3. QED
    BY <2>1, <2>2, Zenon
<1>6. QED
  BY <1>5

(***************************************************************************)
(* Each list holds the other's parts: they are the same.                   *)
(***************************************************************************)
LEMMA ListDecodes ==
  ASSUME NEW P \in Seq(Seq(Token)), NEW Q \in Seq(Seq(Token)), NEW close \in Token,
         close # Mark("comma"), NEW a \in Seq(Token), NEW b \in Seq(Token),
         Recognisable(P, Q, close), Recognisable(Q, P, close),
         Separated(P) \o (<<close>> \o a) = Separated(Q) \o (<<close>> \o b)
  PROVE  Len(P) = Len(Q) /\ \A i \in 1..Len(P) : P[i] = Q[i]
<1>1. \A i \in 1..Len(P) : i <= Len(Q) /\ P[i] = Q[i]
  BY ListPrefix, Zenon
<1>2. \A i \in 1..Len(Q) : i <= Len(P) /\ Q[i] = P[i]
  <2>1. Separated(Q) \o (<<close>> \o b) = Separated(P) \o (<<close>> \o a)
    BY Zenon
  <2>2. QED
    BY <2>1, ListPrefix, Zenon
<1>3. Len(P) \in Nat /\ Len(Q) \in Nat
  OBVIOUS
<1>4. Len(P) = Len(Q)
  <2>1. Len(P) # 0 => Len(P) \in 1..Len(P)
    BY <1>3
  <2>2. Len(Q) # 0 => Len(Q) \in 1..Len(Q)
    BY <1>3
  <2>3. Len(P) # 0 => Len(P) <= Len(Q)
    BY <1>1, <2>1, Zenon
  <2>4. Len(Q) # 0 => Len(Q) <= Len(P)
    BY <1>2, <2>2, Zenon
  <2>5. QED
    BY <1>3, <2>3, <2>4
<1>5. QED
  BY <1>1, <1>4, Zenon

---------------------------------------------------------------------------
(* Well-founded definitions, and the entries of an object in key order.    *)

(***************************************************************************)
(* A definition that looks at nothing but more shallow texts has a         *)
(* solution: step takes an approximation to a better one, and what it says *)
(* of a text depends on the approximation at smaller depths only.  This is *)
(* what the recursive calls of write_canonical rest on.                    *)
(***************************************************************************)
LEMMA Recursion ==
  ASSUME NEW V, NEW v \in V, NEW step \in [[Text -> V] -> [Text -> V]],
         \A g, h \in [Text -> V], t \in Text :
           (\A p \in Text : Depth[p] < Depth[t] => g[p] = h[p]) => step[g][t] = step[h][t]
  PROVE  \E f \in [Text -> V] : f = step[f]
<1>0. \A t \in Text : Depth[t] \in Nat
  BY TextAssumption
<1> USE <1>0
<1> DEFINE Good(g, n) == \A t \in Text : Depth[t] < n => g[t] = step[g][t]
<1>1. \A n \in Nat : \E g \in [Text -> V] : Good(g, n)
  <2> DEFINE bad == {n \in Nat : ~ \E g \in [Text -> V] : Good(g, n)}
  <2> SUFFICES ASSUME bad # {} PROVE FALSE
    BY Zenon
  <2>1. PICK n \in bad : \A m \in bad : n <= m
    BY Least, Zenon
  <2>2. CASE n = 0
    <3> DEFINE g == [t \in Text |-> v]
    <3>1. g \in [Text -> V] /\ Good(g, n)
      BY <2>2
    <3> HIDE DEF g
    <3>2. QED
      BY <2>1, <3>1
  <2>3. CASE n # 0
    <3>1. n \in Nat /\ n - 1 \in Nat /\ n - 1 \notin bad
      <4>1. n \in Nat
        OBVIOUS
      <4> HIDE DEF bad
      <4>2. QED
        BY <2>1, <2>3, <4>1
    <3>2. PICK g \in [Text -> V] : Good(g, n - 1)
      BY <3>1
    <3> DEFINE h == step[g]
    <3>3. h \in [Text -> V]
      BY <3>2
    <3>4. \A p \in Text : Depth[p] < n - 1 => g[p] = h[p]
      BY <3>2
    <3> HIDE DEF h
    <3>5. ASSUME NEW t \in Text, Depth[t] < n PROVE h[t] = step[h][t]
      <4>1. \A p \in Text : Depth[p] < Depth[t] => g[p] = h[p]
        BY <3>1, <3>4, <3>5
      <4>2. step[g][t] = step[h][t]
        BY <4>1, <3>2, <3>3
      <4>3. QED
        BY <4>2 DEF h
    <3>6. QED
      BY <2>1, <3>3, <3>5
  <2>4. QED
    BY <2>2, <2>3
<1>2. ASSUME NEW g \in [Text -> V], NEW h \in [Text -> V], NEW m \in Nat, NEW n \in Nat,
             Good(g, m), Good(h, n)
      PROVE  \A t \in Text : Depth[t] < m /\ Depth[t] < n => g[t] = h[t]
  <2> DEFINE odd == {t \in Text : Depth[t] < m /\ Depth[t] < n /\ g[t] # h[t]}
             bad == {Depth[t] : t \in odd}
  <2> SUFFICES ASSUME odd # {} PROVE FALSE
    OBVIOUS
  <2>1. bad \in SUBSET Nat /\ bad # {}
    <3>1. PICK t \in odd : TRUE
      OBVIOUS
    <3>2. Depth[t] \in bad
      BY <3>1
    <3>3. \A d \in bad : d \in Nat
      OBVIOUS
    <3>4. QED
      BY <3>2, <3>3, Zenon
  <2>2. PICK d \in bad : \A c \in bad : d <= c
    BY <2>1, Least, Zenon
  <2>3. PICK t \in odd : d = Depth[t]
    BY <2>2
  <2>4. \A p \in Text : Depth[p] < Depth[t] => g[p] = h[p]
    <3> SUFFICES ASSUME NEW p \in Text, Depth[p] < Depth[t], g[p] # h[p] PROVE FALSE
      OBVIOUS
    <3>1. p \in odd
      BY <2>3
    <3>2. Depth[p] \in bad
      BY <3>1
    <3>3. d <= Depth[p]
      BY <2>2, <3>2
    <3>4. QED
      BY <2>3, <3>3
  <2>5. step[g][t] = step[h][t]
    BY <2>3, <2>4
  <2>6. QED
    BY <1>2, <2>3, <2>5
<1> DEFINE best == [n \in Nat |-> CHOOSE g \in [Text -> V] : Good(g, n)]
           f == [t \in Text |-> best[Depth[t] + 1][t]]
<1>3. \A n \in Nat : best[n] \in [Text -> V] /\ Good(best[n], n)
  BY <1>1
<1> HIDE DEF best
<1>4. f \in [Text -> V]
  BY <1>3
<1>5. ASSUME NEW t \in Text PROVE f[t] = step[f][t]
  <2> DEFINE g == best[Depth[t] + 1]
  <2>1. g \in [Text -> V] /\ Good(g, Depth[t] + 1)
    <3>1. Depth[t] + 1 \in Nat
      OBVIOUS
    <3> HIDE DEF Good
    <3>2. QED
      BY <1>3, <3>1
  <2>2. \A p \in Text : Depth[p] < Depth[t] => f[p] = g[p]
    <3> SUFFICES ASSUME NEW p \in Text, Depth[p] < Depth[t] PROVE f[p] = g[p]
      OBVIOUS
    <3> DEFINE h == best[Depth[p] + 1]
    <3>1. Depth[p] + 1 \in Nat /\ Depth[t] + 1 \in Nat
      OBVIOUS
    <3>2. h \in [Text -> V] /\ Good(h, Depth[p] + 1)
      <4> HIDE DEF Good
      <4>1. QED
        BY <1>3, <3>1
    <3>3. h[p] = g[p]
      <4>1. Depth[p] < Depth[p] + 1 /\ Depth[p] < Depth[t] + 1
        BY <3>1
      <4> HIDE DEF Good, g, h
      <4>2. QED
        BY <1>2, <2>1, <3>1, <3>2, <4>1
    <3>4. QED
      BY <3>3
  <2>3. step[f][t] = step[g][t]
    <3> HIDE DEF f, g
    <3>1. QED
      BY <1>4, <2>1, <2>2
  <2>4. g[t] = step[g][t]
    BY <2>1
  <2>5. QED
    BY <2>3, <2>4
<1> HIDE DEF f
<1>6. step[f] \in [Text -> V]
  BY <1>4
<1>7. f = step[f]
  BY <1>4, <1>5, <1>6
<1>8. QED
  BY <1>4, <1>7

(***************************************************************************)
(* A finite set whose members have different ranks can be put in order.    *)
(* The sort of the entries by key and both orders of the map are such      *)
(* orders.                                                                 *)
(***************************************************************************)
LEMMA OrderExists ==
  ASSUME NEW S, IsFiniteSet(S), NEW rank \in [S -> Nat],
         \A x, y \in S : rank[x] = rank[y] => x = y
  PROVE  \E s \in [1..Cardinality(S) -> S] :
           /\ Range(s) = S
           /\ \A i, j \in DOMAIN s : i < j => rank[s[i]] < rank[s[j]]
<1> DEFINE Orders(s, T, n) ==
             /\ s \in [1..n -> T]
             /\ \A x \in T : \E i \in 1..n : s[i] = x
             /\ \A i, j \in 1..n : i < j => rank[s[i]] < rank[s[j]]
           bad == {n \in Nat : \E T \in SUBSET S :
                     IsFiniteSet(T) /\ Cardinality(T) = n /\ ~ \E s : Orders(s, T, n)}
<1>1. bad = {}
  <2> SUFFICES ASSUME bad # {} PROVE FALSE
    BY Zenon
  <2>1. PICK n \in bad : \A m \in bad : n <= m
    BY Least, Zenon
  <2>2. n \in Nat
    OBVIOUS
  <2>3. PICK T \in SUBSET S : IsFiniteSet(T) /\ Cardinality(T) = n /\ ~ \E s : Orders(s, T, n)
    BY Zenon
  <2>4. CASE n = 0
    <3>1. T = {}
      BY <2>3, <2>4, FS_EmptySet
    <3>2. Orders([i \in 1..0 |-> 0], T, 0)
      BY <3>1
    <3>3. QED
      BY <2>3, <2>4, <3>2, Zenon
  <2>5. CASE n # 0
    <3> HIDE DEF bad
    <3>1. PICK x \in T : \A y \in T : rank[x] <= rank[y]
      <4> DEFINE ranks == {rank[y] : y \in T}
      <4>1. T # {}
        BY <2>3, <2>5, FS_EmptySet
      <4>2. PICK y \in T : TRUE
        BY <4>1
      <4>3. rank[y] \in ranks
        OBVIOUS
      <4>4. \A r \in ranks : r \in Nat
        OBVIOUS
      <4>5. PICK r \in ranks : \A q \in ranks : r <= q
        BY <4>3, <4>4, Least, Zenon
      <4>6. QED
        BY <4>5
    <3> DEFINE U == T \ {x}
    <3>2. IsFiniteSet(U) /\ Cardinality(U) = n - 1
      <4>1. IsFiniteSet(U) /\ Cardinality(U) = IF x \in T THEN Cardinality(T) - 1 ELSE Cardinality(T)
        BY <2>3, FS_RemoveElement, Zenon
      <4>2. QED
        BY <4>1, <2>3
    <3>3. n - 1 \in Nat /\ n - 1 \notin bad
      BY <2>1, <2>2, <2>5
    <3>4. PICK s : Orders(s, U, n - 1)
      BY <3>2, <3>3, Zenon DEF bad
    <3> DEFINE r == [i \in 1..n |-> IF i = 1 THEN x ELSE s[i - 1]]
    <3>5. Orders(r, T, n)
      <4>1. r \in [1..n -> T]
        BY <2>2, <3>4
      <4>2. ASSUME NEW y \in T PROVE \E i \in 1..n : r[i] = y
        <5>1. CASE y = x
          <6>1. 1 \in 1..n /\ r[1] = y
            BY <5>1, <2>2, <2>5
          <6>2. QED
            BY <6>1
        <5>2. CASE y # x
          <6>1. PICK i \in 1..(n - 1) : s[i] = y
            BY <5>2, <3>4
          <6>2. i + 1 \in 1..n /\ r[i + 1] = y
            BY <6>1, <2>2
          <6>3. QED
            BY <6>2
        <5>3. QED
          BY <5>1, <5>2
      <4>3. ASSUME NEW i \in 1..n, NEW j \in 1..n, i < j PROVE rank[r[i]] < rank[r[j]]
        <5>1. j # 1 /\ j - 1 \in 1..(n - 1) /\ r[j] = s[j - 1] /\ s[j - 1] \in U
          BY <4>3, <2>2, <3>4
        <5>2. CASE i = 1
          <6>1. r[i] = x /\ rank[x] <= rank[s[j - 1]] /\ rank[x] # rank[s[j - 1]]
            BY <5>1, <5>2, <3>1
          <6>2. QED
            BY <5>1, <6>1
        <5>3. CASE i # 1
          <6>1. i - 1 \in 1..(n - 1) /\ r[i] = s[i - 1] /\ i - 1 < j - 1
            BY <4>3, <5>3, <2>2
          <6>2. QED
            BY <5>1, <6>1, <3>4
        <5>4. QED
          BY <5>2, <5>3
      <4>4. QED
        BY <4>1, <4>2, <4>3
    <3>6. QED
      BY <2>3, <3>5, Zenon
  <2>6. QED
    BY <2>4, <2>5
<1>2. Cardinality(S) \in Nat
  BY FS_CardinalityType
<1>3. PICK s : Orders(s, S, Cardinality(S))
  BY <1>1, <1>2
<1>4. s \in [1..Cardinality(S) -> S] /\ DOMAIN s = 1..Cardinality(S)
  BY <1>3
<1>5. Range(s) = S
  BY <1>3, <1>4 DEF Range
<1>6. QED
  BY <1>3, <1>4, <1>5, Zenon

(***************************************************************************)
(* What InOrder returns, then, is such an order.                           *)
(***************************************************************************)
LEMMA InOrderOrders ==
  ASSUME NEW S, IsFiniteSet(S), NEW rank \in [S -> Nat],
         \A x, y \in S : rank[x] = rank[y] => x = y
  PROVE  /\ Cardinality(S) \in Nat
         /\ InOrder(S, rank) \in [1..Cardinality(S) -> S]
         /\ Range(InOrder(S, rank)) = S
         /\ \A i, j \in 1..Cardinality(S) :
              i < j => rank[InOrder(S, rank)[i]] < rank[InOrder(S, rank)[j]]
<1>1. Cardinality(S) \in Nat
  BY FS_CardinalityType
<1>2. \E s \in [1..Cardinality(S) -> S] :
        /\ Range(s) = S
        /\ \A i, j \in DOMAIN s : i < j => rank[s[i]] < rank[s[j]]
  BY OrderExists
<1>3. QED
  BY <1>1, <1>2, Zenon DEF InOrder

(***************************************************************************)
(* Of two increasing sequences of numbers with the same members, one is a  *)
(* prefix of the other.                                                    *)
(***************************************************************************)
LEMMA IncreasingPrefix ==
  ASSUME NEW m \in Nat, NEW n \in Nat, NEW s \in [1..m -> Nat], NEW r \in [1..n -> Nat],
         \A i, j \in 1..m : i < j => s[i] < s[j],
         \A i, j \in 1..n : i < j => r[i] < r[j],
         \A i \in 1..m : \E j \in 1..n : s[i] = r[j],
         \A j \in 1..n : \E i \in 1..m : s[i] = r[j]
  PROVE  \A i \in 1..m : i <= n /\ s[i] = r[i]
<1> DEFINE bad == {i \in 1..m : ~(i <= n /\ s[i] = r[i])}
<1> SUFFICES ASSUME bad # {} PROVE FALSE
  BY Zenon
<1>0. bad \in SUBSET Nat
  OBVIOUS
<1>1. PICK i \in bad : \A j \in bad : i <= j
  BY <1>0, Least, Zenon
<1>2. i \in 1..m /\ ~(i <= n /\ s[i] = r[i])
  BY Zenon
<1>3. ASSUME NEW j \in 1..m, j < i PROVE j <= n /\ s[j] = r[j]
  <2>1. j \notin bad
    <3> HIDE DEF bad
    <3>1. QED
      BY <1>1, <1>2, <1>3
  <2>2. QED
    BY <2>1, Zenon
<1> HIDE DEF bad
<1>4. PICK j \in 1..n : s[i] = r[j]
  BY <1>2
<1>5. ~(j < i)
  <2> SUFFICES ASSUME j < i PROVE FALSE
    OBVIOUS
  <2>1. j \in 1..m /\ s[j] < s[i] /\ s[j] \in Nat /\ s[i] \in Nat
    BY <1>2
  <2>2. s[j] = r[j]
    BY <1>3, <2>1
  <2>3. QED
    BY <1>4, <2>1, <2>2
<1>6. i \in 1..n
  BY <1>2, <1>5
<1>7. r[i] <= s[i]
  <2>1. CASE i = j
    BY <2>1, <1>4, <1>6
  <2>2. CASE i < j
    BY <2>2, <1>4, <1>6
  <2>3. QED
    BY <1>5, <1>6, <2>1, <2>2
<1>8. PICK k \in 1..m : s[k] = r[i]
  BY <1>6
<1>9. ~(k < i)
  <2> SUFFICES ASSUME k < i PROVE FALSE
    OBVIOUS
  <2>1. k \in 1..n /\ s[k] = r[k]
    BY <1>3, <1>6
  <2>2. r[k] < r[i] /\ r[k] \in Nat /\ r[i] \in Nat
    BY <2>1, <1>6
  <2>3. QED
    BY <1>8, <2>1, <2>2
<1>10. s[i] <= s[k]
  <2>1. CASE i = k
    BY <2>1, <1>2
  <2>2. CASE i < k
    BY <2>2, <1>2, SMTT(30)
  <2>3. QED
    BY <1>2, <1>9, <2>1, <2>2
<1>11. s[i] \in Nat /\ r[i] \in Nat
  BY <1>2, <1>6
<1>12. QED
  BY <1>2, <1>6, <1>7, <1>8, <1>10, <1>11

(***************************************************************************)
(* s is strictly increasing, and every value of s is one of r.             *)
(***************************************************************************)
Strictly(n, s) == \A i, j \in 1..n : i < j => s[i] < s[j]
Within(m, s, n, r) == \A i \in 1..m : \E j \in 1..n : s[i] = r[j]

(***************************************************************************)
(* Each is a prefix of the other: a set of keys has one sorted sequence,   *)
(* so what write_canonical writes does not depend on how the map stored    *)
(* it.                                                                     *)
(***************************************************************************)
LEMMA IncreasingUnique ==
  \A m \in Nat : \A s \in [1..m -> Nat] : \A n \in Nat : \A r \in [1..n -> Nat] :
    Strictly(m, s) /\ Strictly(n, r) /\ Within(m, s, n, r) /\ Within(n, r, m, s)
    => m = n /\ \A i \in 1..m : s[i] = r[i]
<1> TAKE m \in Nat
<1> TAKE s \in [1..m -> Nat]
<1> TAKE n \in Nat
<1> TAKE r \in [1..n -> Nat]
<1>1. HAVE Strictly(m, s) /\ Strictly(n, r) /\ Within(m, s, n, r) /\ Within(n, r, m, s)
<1>2. /\ \A i, j \in 1..m : i < j => s[i] < s[j]
      /\ \A i, j \in 1..n : i < j => r[i] < r[j]
      /\ \A i \in 1..m : \E j \in 1..n : s[i] = r[j]
      /\ \A j \in 1..n : \E i \in 1..m : s[i] = r[j]
  BY <1>1 DEF Strictly, Within
<1> SUFFICES ASSUME \A i, j \in 1..m : i < j => s[i] < s[j],
                    \A i, j \in 1..n : i < j => r[i] < r[j],
                    \A i \in 1..m : \E j \in 1..n : s[i] = r[j],
                    \A j \in 1..n : \E i \in 1..m : s[i] = r[j]
             PROVE  m = n /\ \A i \in 1..m : s[i] = r[i]
  BY <1>2, Zenon
<1>3. \A i \in 1..m : i <= n /\ s[i] = r[i]
  BY IncreasingPrefix, ZenonT(40)
<1>4. \A j \in 1..n : j <= m /\ r[j] = s[j]
  <2>1. \A j \in 1..n : \E i \in 1..m : r[j] = s[i]
    OBVIOUS
  <2>2. \A i \in 1..m : \E j \in 1..n : r[j] = s[i]
    OBVIOUS
  <2>3. QED
    BY <2>1, <2>2, IncreasingPrefix, ZenonT(40)
<1>5. m <= n
  BY <1>3
<1>6. n <= m
  BY <1>4
<1>7. QED
  BY <1>3, <1>5, <1>6

---------------------------------------------------------------------------
(***************************************************************************)
(* The keys of an object are finitely many numbers.                        *)
(***************************************************************************)
LEMMA KeysFinite ==
  ASSUME NEW entries \in Seq(Nat \X Text)
  PROVE  IsFiniteSet(Keys(entries)) /\ Keys(entries) \in SUBSET Nat
<1> DEFINE f == [i \in 1..Len(entries) |-> entries[i][1]]
<1>1. Len(entries) \in Nat /\ DOMAIN entries = 1..Len(entries)
  OBVIOUS
<1>2. f \in Surjection(1..Len(entries), Keys(entries))
  BY <1>1 DEF Surjection, Keys
<1>3. IsFiniteSet(1..Len(entries))
  BY <1>1, FS_Interval
<1>4. IsFiniteSet(Keys(entries))
  BY <1>2, <1>3, FS_Surjection, Zenon
<1>5. \A i \in DOMAIN entries : entries[i][1] \in Nat
  OBVIOUS
<1>6. QED
  BY <1>4, <1>5 DEF Keys

(***************************************************************************)
(* A key's first entry and its last one, which the map keeps, are entries  *)
(* of that key.                                                            *)
(***************************************************************************)
LEMMA FirstAndLast ==
  ASSUME NEW entries \in Seq(Nat \X Text), NEW k \in Keys(entries)
  PROVE  /\ Min(PlacesOf(entries, k)) \in DOMAIN entries
         /\ entries[Min(PlacesOf(entries, k))][1] = k
         /\ \E i \in DOMAIN entries : entries[i] = <<k, LastOf(entries, k)>>
<1> DEFINE n == Len(entries)
           I == {i \in 1..n : entries[i][1] = k}
<1>1. n \in Nat /\ DOMAIN entries = 1..n
  OBVIOUS
<1>2. I \in SUBSET Nat /\ I # {}
  BY <1>1 DEF Keys
<1>3. PICK i \in I : \A j \in I : i <= j
  BY <1>2, Least, Zenon
<1>4. Min(I) \in I
  BY <1>3, Zenon DEF Min
<1>5. PICK l \in I : \A j \in I : l >= j
  <2> DEFINE J == {n - j : j \in I}
  <2>1. J \in SUBSET Nat /\ J # {}
    BY <1>1, <1>2
  <2>2. PICK m \in J : \A j \in J : m <= j
    BY <2>1, Least, Zenon
  <2>3. PICK l \in I : m = n - l
    BY <2>2
  <2>4. ASSUME NEW j \in I PROVE l >= j
    <3>1. n - j \in J
      OBVIOUS
    <3>2. n - l <= n - j
      BY <2>2, <2>3, <3>1, Zenon
    <3>3. QED
      BY <1>1, <3>2
  <2>5. QED
    BY <2>4, Zenon
<1>6. Max(I) \in I
  BY <1>5, Zenon DEF Max
<1>7. PlacesOf(entries, k) = I
  BY <1>1 DEF PlacesOf
<1>8. LastOf(entries, k) = entries[Max(I)][2]
  BY <1>7, Zenon DEF LastOf
<1>9. entries[Max(I)] = <<k, LastOf(entries, k)>>
  <2>1. Max(I) \in 1..n /\ entries[Max(I)][1] = k
    BY <1>6
  <2>2. entries[Max(I)] \in Nat \X Text
    BY <1>1, <2>1
  <2>3. \A p \in Nat \X Text : p = <<p[1], p[2]>>
    OBVIOUS
  <2> HIDE DEF I
  <2>4. QED
    BY <1>8, <2>1, <2>2, <2>3, Zenon
<1>10. QED
  BY <1>1, <1>4, <1>6, <1>7, <1>9, Zenon

(***************************************************************************)
(* What the map of an object holds, in no order.                           *)
(***************************************************************************)
Fields(entries) == {<<k, LastOf(entries, k)>> : k \in Keys(entries)}

(***************************************************************************)
(* Whatever its order, iterating over the map visits every key.            *)
(***************************************************************************)
LEMMA MapComplete ==
  ASSUME NEW entries \in Seq(Nat \X Text), NEW o
  PROVE  Range(MapEntries(entries, o)) = Fields(entries)
<1> DEFINE first(k) == Min(PlacesOf(entries, k))
           rank == [k \in Keys(entries) |-> IF o = "sorted" THEN k ELSE first(k)]
           keys == IterationOrder(entries, o)
<1>1. IsFiniteSet(Keys(entries)) /\ Keys(entries) \in SUBSET Nat
  BY KeysFinite
<1>2. \A k \in Keys(entries) : first(k) \in DOMAIN entries /\ entries[first(k)][1] = k
  BY FirstAndLast
<1>3. DOMAIN entries \in SUBSET Nat
  OBVIOUS
<1> HIDE DEF first
<1>4. rank \in [Keys(entries) -> Nat]
  BY <1>1, <1>2, <1>3
<1>5. \A x, y \in Keys(entries) : rank[x] = rank[y] => x = y
  BY <1>2
<1>6. keys = InOrder(Keys(entries), rank)
  BY DEF IterationOrder, first
<1> HIDE DEF rank
<1>7. /\ InOrder(Keys(entries), rank) \in [1..Cardinality(Keys(entries)) -> Keys(entries)]
      /\ Range(InOrder(Keys(entries), rank)) = Keys(entries)
  BY <1>1, <1>4, <1>5, InOrderOrders
<1>8. Range(keys) = Keys(entries)
  BY <1>6, <1>7
<1> HIDE DEF keys
<1>9. MapEntries(entries, o) = [i \in DOMAIN keys |-> <<keys[i], LastOf(entries, keys[i])>>]
  BY DEF MapEntries, keys
<1>10. QED
  BY <1>8, <1>9 DEF Range, Fields

(***************************************************************************)
(* Every field of an object comes from an entry of its text.               *)
(***************************************************************************)
LEMMA FieldsAreEntries ==
  ASSUME NEW entries \in Seq(Nat \X Text)
  PROVE  /\ IsFiniteSet(Fields(entries))
         /\ \A e \in Fields(entries) : \E i \in DOMAIN entries : entries[i] = e
         /\ Fields(entries) \in SUBSET (Nat \X Text)
<1> DEFINE f == [k \in Keys(entries) |-> <<k, LastOf(entries, k)>>]
<1>1. f \in Surjection(Keys(entries), Fields(entries))
  BY Zenon DEF Surjection, Fields
<1>2. IsFiniteSet(Keys(entries))
  BY KeysFinite
<1>3. IsFiniteSet(Fields(entries))
  BY <1>1, <1>2, FS_Surjection, Zenon
<1>4. ASSUME NEW e \in Fields(entries) PROVE \E i \in DOMAIN entries : entries[i] = e
  <2>1. PICK k \in Keys(entries) : e = <<k, LastOf(entries, k)>>
    BY Zenon DEF Fields
  <2>2. QED
    BY <2>1, FirstAndLast, Zenon
<1>5. \A i \in DOMAIN entries : entries[i] \in Nat \X Text
  OBVIOUS
<1>6. QED
  BY <1>3, <1>4, <1>5

(***************************************************************************)
(* The entries in the order in which write_canonical writes them.          *)
(***************************************************************************)
Sorted(entries) == InOrder(Fields(entries), [e \in Fields(entries) |-> e[1]])

(***************************************************************************)
(* "This does not depend on serde_json's map ordering": the entries are    *)
(* written in the same order whatever the map's own is.                    *)
(***************************************************************************)
LEMMA SortForgetsMapOrder ==
  ASSUME NEW entries \in Seq(Nat \X Text), NEW o
  PROVE  EntriesSorted(MapEntries(entries, o)) = Sorted(entries)
BY MapComplete, Zenon DEF EntriesSorted, Sorted

(***************************************************************************)
(* It is every field once, by increasing key.                              *)
(***************************************************************************)
LEMMA SortedEntries ==
  ASSUME NEW entries \in Seq(Nat \X Text)
  PROVE  /\ Sorted(entries) \in Seq(Nat \X Text)
         /\ \A i \in DOMAIN Sorted(entries) : Sorted(entries)[i] \in Fields(entries)
         /\ \A e \in Fields(entries) : \E i \in DOMAIN Sorted(entries) : Sorted(entries)[i] = e
         /\ \A i, j \in DOMAIN Sorted(entries) : i < j => Sorted(entries)[i][1] < Sorted(entries)[j][1]
<1> DEFINE F == Fields(entries)
           rank == [e \in F |-> e[1]]
           n == Cardinality(F)
           s == InOrder(F, rank)
<1>1. IsFiniteSet(F) /\ F \in SUBSET (Nat \X Text)
  BY FieldsAreEntries
<1>2. rank \in [F -> Nat]
  BY <1>1
<1>3. \A x, y \in F : rank[x] = rank[y] => x = y
  BY DEF Fields
<1>4. n \in Nat /\ s \in [1..n -> F] /\ Range(s) = F
  <2> HIDE DEF rank, F
  <2>1. QED
    BY <1>1, <1>2, <1>3, InOrderOrders, Zenon
<1>5. \A i, j \in 1..n : i < j => rank[s[i]] < rank[s[j]]
  <2> HIDE DEF rank, F
  <2>1. QED
    BY <1>1, <1>2, <1>3, InOrderOrders, SMTT(30)
<1>6. s = Sorted(entries)
  BY DEF Sorted
<1> HIDE DEF s
<1>7. \A i \in 1..n : s[i] \in F /\ rank[s[i]] = s[i][1]
  BY <1>4, SMTT(30)
<1>8. DOMAIN s = 1..n
  BY <1>4
<1>9. s \in Seq(Nat \X Text)
  <2>1. s \in [1..n -> Nat \X Text]
    BY <1>1, <1>4, Zenon
  <2> HIDE DEF F, n
  <2>2. QED
    BY <1>4, <2>1
<1>10. \A e \in F : \E i \in 1..n : s[i] = e
  BY <1>4, <1>8 DEF Range
<1>11. \A i, j \in 1..n : i < j => s[i][1] < s[j][1]
  BY <1>5, <1>7, Zenon
<1>12. QED
  BY <1>6, <1>7, <1>8, <1>9, <1>10, <1>11, Zenon

---------------------------------------------------------------------------
(* What write_canonical writes, and what it tells apart.                   *)

(***************************************************************************)
(* What write_canonical writes of a text, given what its recursive calls   *)
(* write, and the parts of an array and of an object.                      *)
(***************************************************************************)
Level(t, write) == WriteLevel(Parse(t, "sorted"), write)
Items(t, write) == [i \in DOMAIN t.items |-> write[t.items[i]]]
KeyHead(k) == <<KeyToken(k), Mark("colon")>>
Entry(e, write) == KeyHead(e[1]) \o write[e[2]]
Entries(t, write) == [i \in DOMAIN Sorted(t.entries) |-> Entry(Sorted(t.entries)[i], write)]

(***************************************************************************)
(* One level of the output, for each kind of text.                         *)
(***************************************************************************)
LEMMA LevelCases ==
  ASSUME NEW t \in Text, NEW write, NEW o
  PROVE  /\ t.kind = "literal" =>
              WriteLevel(Parse(t, o), write) = <<ScalarToken(Scalar(t.literal))>>
         /\ t.kind = "array" =>
              WriteLevel(Parse(t, o), write) =
                <<Mark("begin_array")>> \o Separated(Items(t, write)) \o <<Mark("end_array")>>
         /\ t.kind = "object" =>
              WriteLevel(Parse(t, o), write) =
                <<Mark("begin_object")>> \o Separated(Entries(t, write)) \o <<Mark("end_object")>>
<1>0. "literal" # "array" /\ "literal" # "object" /\ "array" # "object"
  OBVIOUS
<1>1. ASSUME t.kind = "literal"
      PROVE  WriteLevel(Parse(t, o), write) = <<ScalarToken(Scalar(t.literal))>>
  <2> DEFINE v == Literal(Scalar(t.literal))
  <2>1. Parse(t, o) = v
    BY <1>1, <1>0, Zenon DEF Parse
  <2>2. v.kind = "literal" /\ v.literal = Scalar(t.literal)
    BY DEF Literal
  <2> HIDE DEF v
  <2>3. WriteLevel(v, write) = <<ScalarToken(v.literal)>>
    BY <1>0, <2>2, Zenon DEF WriteLevel
  <2>4. QED
    BY <2>1, <2>2, <2>3, Zenon
<1>2. ASSUME t.kind = "array"
      PROVE  WriteLevel(Parse(t, o), write) =
               <<Mark("begin_array")>> \o Separated(Items(t, write)) \o <<Mark("end_array")>>
  <2>1. Parse(t, o) = t
    BY <1>2, <1>0, Zenon DEF Parse
  <2>2. WriteLevel(t, write) =
          <<Mark("begin_array")>> \o Separated(Items(t, write)) \o <<Mark("end_array")>>
    BY <1>0, <1>2, Zenon DEF WriteLevel, Items
  <2>3. QED
    BY <2>1, <2>2, Zenon
<1>3. ASSUME t.kind = "object"
      PROVE  WriteLevel(Parse(t, o), write) =
               <<Mark("begin_object")>> \o Separated(Entries(t, write)) \o <<Mark("end_object")>>
  <2> DEFINE v == Object(MapEntries(t.entries, o))
  <2>1. Parse(t, o) = v
    BY <1>3, <1>0, Zenon DEF Parse
  <2>2. v.kind = "object" /\ v.entries = MapEntries(t.entries, o)
    BY DEF Object
  <2> HIDE DEF v
  <2>3. t.entries \in Seq(Nat \X Text)
    BY <1>3, TextAssumption
  <2>4. EntriesSorted(v.entries) = Sorted(t.entries)
    BY <2>2, <2>3, SortForgetsMapOrder, Zenon
  <2>5. WriteLevel(v, write) =
          <<Mark("begin_object")>> \o Separated([i \in DOMAIN EntriesSorted(v.entries) |->
              <<KeyToken(EntriesSorted(v.entries)[i][1]), Mark("colon")>>
                \o write[EntriesSorted(v.entries)[i][2]]]) \o <<Mark("end_object")>>
    BY <1>0, <2>2, Zenon DEF WriteLevel
  <2>6. QED
    BY <2>1, <2>4, <2>5, Zenon DEF Entries, Entry, KeyHead
<1>4. QED
  BY <1>1, <1>2, <1>3

(***************************************************************************)
(* The parts of a text are texts nested less deeply.                       *)
(***************************************************************************)
LEMMA PartsShallow ==
  ASSUME NEW t \in Text
  PROVE  /\ t.kind \in {"literal", "array", "object"}
         /\ t.kind = "array" =>
              /\ t.items \in Seq(Text)
              /\ \A i \in DOMAIN t.items : t.items[i] \in Text /\ Depth[t.items[i]] < Depth[t]
         /\ t.kind = "object" =>
              /\ t.entries \in Seq(Nat \X Text)
              /\ Sorted(t.entries) \in Seq(Nat \X Text)
              /\ \A e \in Fields(t.entries) : e[1] \in Nat /\ e[2] \in Text /\ Depth[e[2]] < Depth[t]
              /\ \A i \in DOMAIN Sorted(t.entries) : Sorted(t.entries)[i] \in Fields(t.entries)
<1>1. t.kind \in {"literal", "array", "object"}
  BY TextAssumption
<1>2. ASSUME t.kind = "array"
      PROVE  /\ t.items \in Seq(Text)
             /\ \A i \in DOMAIN t.items : t.items[i] \in Text /\ Depth[t.items[i]] < Depth[t]
  <2>1. t.items \in Seq(Text) /\ \A i \in DOMAIN t.items : Depth[t.items[i]] < Depth[t]
    BY <1>2, TextAssumption
  <2>2. QED
    BY <2>1
<1>3. ASSUME t.kind = "object"
      PROVE  /\ t.entries \in Seq(Nat \X Text)
             /\ Sorted(t.entries) \in Seq(Nat \X Text)
             /\ \A e \in Fields(t.entries) : e[1] \in Nat /\ e[2] \in Text /\ Depth[e[2]] < Depth[t]
             /\ \A i \in DOMAIN Sorted(t.entries) : Sorted(t.entries)[i] \in Fields(t.entries)
  <2>1. t.entries \in Seq(Nat \X Text) /\ \A i \in DOMAIN t.entries : Depth[t.entries[i][2]] < Depth[t]
    BY <1>3, TextAssumption
  <2>2. /\ Sorted(t.entries) \in Seq(Nat \X Text)
        /\ \A i \in DOMAIN Sorted(t.entries) : Sorted(t.entries)[i] \in Fields(t.entries)
    BY <2>1, SortedEntries, Zenon
  <2>3. ASSUME NEW e \in Fields(t.entries)
        PROVE  e[1] \in Nat /\ e[2] \in Text /\ Depth[e[2]] < Depth[t]
    <3>1. PICK i \in DOMAIN t.entries : t.entries[i] = e
      BY <2>1, FieldsAreEntries, Zenon
    <3>2. e \in Nat \X Text
      BY <2>1, FieldsAreEntries, Zenon
    <3>3. QED
      BY <2>1, <3>1, <3>2
  <2>4. QED
    BY <2>1, <2>2, <2>3
<1>4. QED
  BY <1>1, <1>2, <1>3

(***************************************************************************)
(* If what the recursive calls write is a sequence of tokens, the loops    *)
(* over the elements and over the entries have such parts to write.        *)
(***************************************************************************)
LEMMA PartsWritten ==
  ASSUME NEW t \in Text, NEW write,
         \A p \in Text : Depth[p] < Depth[t] => write[p] \in Seq(Token)
  PROVE  /\ t.kind = "array" => Items(t, write) \in Seq(Seq(Token))
         /\ t.kind = "object" => Entries(t, write) \in Seq(Seq(Token))
<1>1. ASSUME t.kind = "array" PROVE Items(t, write) \in Seq(Seq(Token))
  <2>1. t.items \in Seq(Text) /\ \A i \in DOMAIN t.items : t.items[i] \in Text /\ Depth[t.items[i]] < Depth[t]
    BY <1>1, PartsShallow, Zenon
  <2>2. \A i \in DOMAIN t.items : write[t.items[i]] \in Seq(Token)
    BY <2>1, Zenon
  <2>3. PICK n \in Nat : DOMAIN t.items = 1..n
    BY <2>1
  <2>4. Items(t, write) \in [1..n -> Seq(Token)]
    BY <2>2, <2>3, Zenon DEF Items
  <2>5. QED
    BY <2>4
<1>2. ASSUME t.kind = "object" PROVE Entries(t, write) \in Seq(Seq(Token))
  <2> DEFINE s == Sorted(t.entries)
  <2>1. /\ s \in Seq(Nat \X Text)
        /\ \A i \in DOMAIN s : s[i][1] \in Nat /\ s[i][2] \in Text /\ Depth[s[i][2]] < Depth[t]
    BY <1>2, PartsShallow, Zenon
  <2> HIDE DEF s
  <2>2. ASSUME NEW i \in DOMAIN s PROVE Entry(s[i], write) \in Seq(Token)
    <3>1. write[s[i][2]] \in Seq(Token)
      BY <2>1, <2>2, Zenon
    <3>2. KeyHead(s[i][1]) \in Seq(Token)
      <4>1. KeyToken(s[i][1]) \in Token /\ Mark("colon") \in Token
        BY <2>1, TokenMembers, Zenon
      <4>2. \A x, y \in Token : <<x, y>> \in Seq(Token)
        OBVIOUS
      <4>3. QED
        BY <4>1, <4>2, Zenon DEF KeyHead
    <3>3. QED
      BY <3>1, <3>2, Join, Zenon DEF Entry
  <2>3. PICK n \in Nat : DOMAIN s = 1..n
    BY <2>1
  <2>4. Entries(t, write) \in [1..n -> Seq(Token)]
    BY <2>2, <2>3, Zenon DEF Entries, s
  <2>5. QED
    BY <2>4
<1>3. QED
  BY <1>1, <1>2

(***************************************************************************)
(* If what the recursive calls of write_canonical write is a sequence of   *)
(* tokens, so is the whole.                                                *)
(***************************************************************************)
LEMMA LevelWritten ==
  ASSUME NEW t \in Text, NEW write,
         \A p \in Text : Depth[p] < Depth[t] => write[p] \in Seq(Token)
  PROVE  Level(t, write) \in Seq(Token)
<1>1. \A parts \in Seq(Seq(Token)) : Separated(parts) \in Seq(Token)
  <2> TAKE parts \in Seq(Seq(Token))
  <2>1. PICK out \in [0..Len(parts) -> Seq(Token)] : Separated(parts) = out[Len(parts)]
    BY BufferExists
  <2>2. Len(parts) \in 0..Len(parts)
    OBVIOUS
  <2>3. QED
    BY <2>1, <2>2
<1>2. \A x, y \in Token, s \in Seq(Token) : <<x>> \o s \o <<y>> \in Seq(Token)
  BY OneToken, Join, Zenon
<1>3. CASE t.kind = "literal"
  BY <1>3, LevelCases, TokenMembers, OneToken, Zenon DEF Level
<1>4. CASE t.kind = "array"
  <2>1. Separated(Items(t, write)) \in Seq(Token)
    BY <1>1, <1>4, PartsWritten, Zenon
  <2>2. <<Mark("begin_array")>> \o Separated(Items(t, write)) \o <<Mark("end_array")>> \in Seq(Token)
    BY <1>2, <2>1, TokenMembers, Zenon
  <2>3. QED
    BY <1>4, <2>2, LevelCases, Zenon DEF Level
<1>5. CASE t.kind = "object"
  <2>1. Separated(Entries(t, write)) \in Seq(Token)
    BY <1>1, <1>5, PartsWritten, Zenon
  <2>2. <<Mark("begin_object")>> \o Separated(Entries(t, write)) \o <<Mark("end_object")>> \in Seq(Token)
    BY <1>2, <2>1, TokenMembers, Zenon
  <2>3. QED
    BY <1>5, <2>2, LevelCases, Zenon DEF Level
<1>6. QED
  BY <1>3, <1>4, <1>5, PartsShallow, Zenon

(***************************************************************************)
(* What is written of a text depends on the recursive calls only, and those *)
(* are for more shallow texts.                                             *)
(***************************************************************************)
LEMMA LevelLocal ==
  ASSUME NEW t \in Text, NEW g, NEW h,
         \A p \in Text : Depth[p] < Depth[t] => g[p] = h[p]
  PROVE  Level(t, g) = Level(t, h)
<1>1. CASE t.kind = "literal"
  BY <1>1, LevelCases, Zenon DEF Level
<1>2. CASE t.kind = "array"
  <2>1. \A i \in DOMAIN t.items : g[t.items[i]] = h[t.items[i]]
    BY <1>2, PartsShallow, Zenon
  <2>2. Items(t, g) = Items(t, h)
    BY <2>1, Zenon DEF Items
  <2>3. QED
    BY <1>2, <2>2, LevelCases, ZenonT(40) DEF Level
<1>3. CASE t.kind = "object"
  <2>1. \A i \in DOMAIN Sorted(t.entries) : Entry(Sorted(t.entries)[i], g) = Entry(Sorted(t.entries)[i], h)
    <3> TAKE i \in DOMAIN Sorted(t.entries)
    <3>1. Sorted(t.entries)[i][2] \in Text /\ Depth[Sorted(t.entries)[i][2]] < Depth[t]
      BY <1>3, PartsShallow, Zenon
    <3>2. QED
      BY <3>1, Zenon DEF Entry
  <2>2. Entries(t, g) = Entries(t, h)
    BY <2>1, Zenon DEF Entries
  <2>3. QED
    BY <1>3, <2>2, LevelCases, ZenonT(40) DEF Level
<1>4. QED
  BY <1>1, <1>2, <1>3, PartsShallow, Zenon

(***************************************************************************)
(* write_canonical is well defined: for every map order its recursion has  *)
(* a solution, which writes sequences of tokens.                           *)
(***************************************************************************)
LEMMA CanonicalSolves ==
  ASSUME NEW o
  PROVE  /\ WriteCanonical(o) \in [Text -> Seq(Token)]
         /\ \A t \in Text : WriteCanonical(o)[t] = Level(t, WriteCanonical(o))
<1> DEFINE V == Seq(Token)
           step == [g \in [Text -> V] |-> [t \in Text |-> Level(t, g)]]
<1>1. step \in [[Text -> V] -> [Text -> V]]
  <2>1. ASSUME NEW g \in [Text -> V], NEW t \in Text PROVE Level(t, g) \in V
    <3>1. \A p \in Text : Depth[p] < Depth[t] => g[p] \in Seq(Token)
      BY <2>1
    <3>2. QED
      BY <3>1, LevelWritten, Zenon
  <2>2. \A g \in [Text -> V] : [t \in Text |-> Level(t, g)] \in [Text -> V]
    BY <2>1
  <2>3. QED
    BY <2>2
<1>2. ASSUME NEW g \in [Text -> V], NEW h \in [Text -> V], NEW t \in Text,
             \A p \in Text : Depth[p] < Depth[t] => g[p] = h[p]
      PROVE  step[g][t] = step[h][t]
  <2>1. Level(t, g) = Level(t, h)
    BY <1>2, LevelLocal, Zenon
  <2>2. QED
    BY <2>1
<1>3. <<>> \in V
  BY Empty
<1>4. PICK f \in [Text -> V] : f = step[f]
  <2> HIDE DEF V, step
  <2>1. QED
    BY <1>1, <1>2, <1>3, Recursion, Zenon
<1>5. f = [t \in Text |-> Level(t, f)]
  BY <1>4
<1> DEFINE W == WriteCanonical(o)
<1>6. \A g : [t \in Text |-> WriteLevel(Parse(t, o), g)] = [t \in Text |-> Level(t, g)]
  <2> TAKE g
  <2>1. \A t \in Text : WriteLevel(Parse(t, o), g) = Level(t, g)
    <3> TAKE t \in Text
    <3>1. QED
      BY LevelCases, PartsShallow, Zenon DEF Level
  <2>2. QED
    BY <2>1, Zenon
<1>7. W = [t \in Text |-> WriteLevel(Parse(t, o), W)]
  <2>1. f = [t \in Text |-> WriteLevel(Parse(t, o), f)]
    BY <1>5, <1>6, Zenon
  <2>2. QED
    BY <2>1, Zenon DEF WriteCanonical
<1> HIDE DEF W
<1>8. W = [t \in Text |-> Level(t, W)]
  BY <1>6, <1>7, Zenon
<1>9. \A t \in Text : W[t] = Level(t, W)
  BY <1>8, Zenon
<1>10. \A t \in Text : W[t] \in V
  <2> DEFINE odd == {t \in Text : W[t] \notin V}
             bad == {Depth[t] : t \in odd}
  <2> SUFFICES ASSUME NEW u \in odd PROVE FALSE
    OBVIOUS
  <2>0. \A t \in Text : Depth[t] \in Nat
    BY TextAssumption
  <2>1. Depth[u] \in bad /\ \A d \in bad : d \in Nat
    BY <2>0
  <2>2. PICK d \in bad : \A c \in bad : d <= c
    BY <2>1, Least, Zenon
  <2>3. PICK t \in odd : d = Depth[t]
    BY <2>2
  <2>4. ASSUME NEW p \in Text, Depth[p] < Depth[t] PROVE W[p] \in Seq(Token)
    <3> SUFFICES ASSUME p \in odd PROVE FALSE
      OBVIOUS
    <3>1. Depth[p] \in bad
      OBVIOUS
    <3>2. d <= Depth[p]
      BY <2>2, <3>1
    <3>3. QED
      BY <2>0, <2>3, <2>4, <3>2
  <2>5. t \in Text /\ W[t] \notin V
    BY Zenon
  <2>6. Level(t, W) \in V
    BY <2>4, <2>5, LevelWritten, Zenon
  <2>7. QED
    BY <1>9, <2>5, <2>6, Zenon
<1>11. W \in [Text -> V]
  BY <1>8, <1>9, <1>10, Zenon
<1>12. QED
  BY <1>9, <1>11, Zenon DEF W

(***************************************************************************)
(* Both map orders write the same: what is written is determined level by  *)
(* level, and no level depends on the map's order.                         *)
(***************************************************************************)
LEMMA CanonicalForgetsMapOrder ==
  ASSUME NEW o, NEW p, NEW t \in Text
  PROVE  WriteCanonical(o)[t] = WriteCanonical(p)[t]
<1> DEFINE g == WriteCanonical(o)
           h == WriteCanonical(p)
           odd == {u \in Text : g[u] # h[u]}
           bad == {Depth[u] : u \in odd}
<1>1. (\A u \in Text : g[u] = Level(u, g)) /\ \A u \in Text : h[u] = Level(u, h)
  BY CanonicalSolves, Zenon
<1> HIDE DEF g, h
<1> SUFFICES ASSUME t \in odd PROVE FALSE
  BY DEF g, h
<1>2. \A u \in Text : Depth[u] \in Nat
  BY TextAssumption
<1>3. Depth[t] \in bad /\ \A d \in bad : d \in Nat
  BY <1>2
<1>4. PICK d \in bad : \A c \in bad : d <= c
  BY <1>3, Least, Zenon
<1>5. PICK u \in odd : d = Depth[u]
  BY <1>4
<1>6. ASSUME NEW v \in Text, Depth[v] < Depth[u] PROVE g[v] = h[v]
  <2> SUFFICES ASSUME v \in odd PROVE FALSE
    OBVIOUS
  <2>1. Depth[v] \in bad
    OBVIOUS
  <2>2. d <= Depth[v]
    BY <1>4, <2>1
  <2>3. QED
    BY <1>2, <1>5, <1>6, <2>2
<1>7. u \in Text /\ g[u] # h[u]
  BY Zenon
<1>8. Level(u, g) = Level(u, h)
  BY <1>6, <1>7, LevelLocal, Zenon
<1>9. QED
  BY <1>1, <1>7, <1>8, Zenon

---------------------------------------------------------------------------
(***************************************************************************)
(* The parts that the reference compares are nested less deeply too.       *)
(***************************************************************************)
LEMMA LastShallow ==
  ASSUME NEW t \in Text, t.kind = "object", NEW k \in Keys(t.entries)
  PROVE  /\ k \in Nat /\ <<k, LastOf(t.entries, k)>> \in Fields(t.entries)
         /\ LastOf(t.entries, k) \in Text /\ Depth[LastOf(t.entries, k)] < Depth[t]
<1> DEFINE e == <<k, LastOf(t.entries, k)>>
<1>1. e \in Fields(t.entries)
  BY Zenon DEF Fields
<1>2. e[1] \in Nat /\ e[2] \in Text /\ Depth[e[2]] < Depth[t]
  <2> HIDE DEF e
  <2>1. QED
    BY <1>1, PartsShallow, Zenon
<1>3. e[1] = k /\ e[2] = LastOf(t.entries, k)
  OBVIOUS
<1> HIDE DEF e
<1>4. QED
  BY <1>1, <1>2, <1>3, Zenon DEF e

(***************************************************************************)
(* Whether two texts mean the same is determined by their parts.           *)
(***************************************************************************)
LEMMA SameLocal ==
  ASSUME NEW t \in Text, NEW u \in Text, NEW g, NEW h,
         \A p \in Text : Depth[p] < Depth[t] => g[p] = h[p]
  PROVE  SameLevel(t, u, g) => SameLevel(t, u, h)
<1> SUFFICES ASSUME SameLevel(t, u, g) PROVE SameLevel(t, u, h)
  OBVIOUS
<1>1. t.kind = u.kind /\ (t.kind = "literal" => Scalar(t.literal) = Scalar(u.literal))
  BY Zenon DEF SameLevel
<1>2. ASSUME t.kind = "array"
      PROVE  Len(t.items) = Len(u.items) /\ \A i \in DOMAIN t.items : u.items[i] \in h[t.items[i]]
  <2>1. \A i \in DOMAIN t.items : g[t.items[i]] = h[t.items[i]]
    BY <1>2, PartsShallow, Zenon
  <2>2. QED
    BY <1>2, <2>1, Zenon DEF SameLevel
<1>3. ASSUME t.kind = "object"
      PROVE  /\ Keys(t.entries) = Keys(u.entries)
             /\ \A k \in Keys(t.entries) : LastOf(u.entries, k) \in h[LastOf(t.entries, k)]
  <2>1. \A k \in Keys(t.entries) : g[LastOf(t.entries, k)] = h[LastOf(t.entries, k)]
    BY <1>3, LastShallow, Zenon
  <2>2. QED
    BY <1>3, <2>1, Zenon DEF SameLevel
<1>4. QED
  BY <1>1, <1>2, <1>3, Zenon DEF SameLevel

(***************************************************************************)
(* The reference is well defined: SameAs is the relation that its equation *)
(* describes.                                                              *)
(***************************************************************************)
LEMMA SameSolves ==
  \A t, u \in Text : u \in SameAs[t] <=> SameLevel(t, u, SameAs)
<1> DEFINE V == SUBSET Text
           level(t, g) == {u \in Text : SameLevel(t, u, g)}
           step == [g \in [Text -> V] |-> [t \in Text |-> level(t, g)]]
<1>1. step \in [[Text -> V] -> [Text -> V]]
  OBVIOUS
<1>2. ASSUME NEW g \in [Text -> V], NEW h \in [Text -> V], NEW t \in Text,
             \A p \in Text : Depth[p] < Depth[t] => g[p] = h[p]
      PROVE  step[g][t] = step[h][t]
  <2>1. \A u \in Text : SameLevel(t, u, g) => SameLevel(t, u, h)
    BY <1>2, SameLocal, Zenon
  <2>2. \A p \in Text : Depth[p] < Depth[t] => h[p] = g[p]
    BY <1>2, Zenon
  <2>3. \A u \in Text : SameLevel(t, u, h) => SameLevel(t, u, g)
    BY <2>2, SameLocal, Zenon
  <2>4. level(t, g) = level(t, h)
    BY <2>1, <2>3, Zenon
  <2> HIDE DEF level
  <2>5. QED
    BY <2>4
<1>3. {} \in V
  OBVIOUS
<1>4. PICK f \in [Text -> V] : f = step[f]
  <2> HIDE DEF V, step
  <2>1. QED
    BY <1>1, <1>2, <1>3, Recursion, SMTT(30)
<1>5. f = [t \in Text |-> level(t, f)]
  <2> HIDE DEF level
  <2>1. QED
    BY <1>4
<1>6. SameAs = [t \in Text |-> {u \in Text : SameLevel(t, u, SameAs)}]
  BY <1>5, Zenon DEF SameAs
<1>7. QED
  BY <1>6, Zenon

---------------------------------------------------------------------------
Canon == WriteCanonical("sorted")

(***************************************************************************)
(* The tokens are told apart by their kinds.                               *)
(***************************************************************************)
LEMMA TokensDiffer ==
  /\ \A l, m : ScalarToken(l) = ScalarToken(m) => l = m
  /\ \A k, l : KeyToken(k) = KeyToken(l) => k = l
  /\ \A l, c : ScalarToken(l) # Mark(c)
  /\ \A k, c : KeyToken(k) # Mark(c)
  /\ Mark("end_array") # Mark("comma") /\ Mark("end_object") # Mark("comma")
  /\ Mark("begin_array") # Mark("begin_object")
  /\ Mark("begin_array") # Mark("end_array") /\ Mark("begin_array") # Mark("end_object")
  /\ Mark("begin_object") # Mark("end_array") /\ Mark("begin_object") # Mark("end_object")
BY DEF ScalarToken, KeyToken, Mark

(***************************************************************************)
(* What is written of a text, by its kind, with whatever follows it.       *)
(***************************************************************************)
LEMMA CanonCases ==
  ASSUME NEW t \in Text, NEW a \in Seq(Token)
  PROVE  /\ Canon[t] \in Seq(Token)
         /\ t.kind = "literal" =>
              /\ Canon[t] = <<ScalarToken(Scalar(t.literal))>>
              /\ Canon[t] \o a = <<ScalarToken(Scalar(t.literal))>> \o a
         /\ t.kind = "array" =>
              /\ Items(t, Canon) \in Seq(Seq(Token))
              /\ Canon[t] = <<Mark("begin_array")>> \o Separated(Items(t, Canon)) \o <<Mark("end_array")>>
              /\ Canon[t] \o a =
                   <<Mark("begin_array")>> \o (Separated(Items(t, Canon)) \o (<<Mark("end_array")>> \o a))
              /\ Separated(Items(t, Canon)) \o (<<Mark("end_array")>> \o a) \in Seq(Token)
         /\ t.kind = "object" =>
              /\ Entries(t, Canon) \in Seq(Seq(Token))
              /\ Canon[t] = <<Mark("begin_object")>> \o Separated(Entries(t, Canon)) \o <<Mark("end_object")>>
              /\ Canon[t] \o a =
                   <<Mark("begin_object")>> \o (Separated(Entries(t, Canon)) \o (<<Mark("end_object")>> \o a))
              /\ Separated(Entries(t, Canon)) \o (<<Mark("end_object")>> \o a) \in Seq(Token)
<1>1. Canon \in [Text -> Seq(Token)] /\ Canon[t] = Level(t, Canon)
  BY CanonicalSolves, Zenon DEF Canon
<1>2. Canon[t] \in Seq(Token) /\ \A p \in Text : Canon[p] \in Seq(Token)
  BY <1>1, Zenon
<1>3. \A parts \in Seq(Seq(Token)) : Separated(parts) \in Seq(Token)
  <2> TAKE parts \in Seq(Seq(Token))
  <2>1. PICK out \in [0..Len(parts) -> Seq(Token)] : Separated(parts) = out[Len(parts)]
    BY BufferExists
  <2>2. Len(parts) \in 0..Len(parts)
    OBVIOUS
  <2>3. QED
    BY <2>1, <2>2, SMTT(30)
<1>4. ASSUME NEW x \in Token, NEW y \in Token, NEW s \in Seq(Token)
      PROVE  /\ <<x>> \o s \o <<y>> \o a = <<x>> \o (s \o (<<y>> \o a))
             /\ s \o (<<y>> \o a) \in Seq(Token)
  <2> DEFINE X == <<x>>
             Y == <<y>>
  <2>1. X \in Seq(Token) /\ Y \in Seq(Token)
    BY OneToken
  <2> HIDE DEF X, Y
  <2>2. X \o s \in Seq(Token) /\ Y \o a \in Seq(Token)
    BY <2>1, Join, Zenon
  <2>3. s \o (Y \o a) \in Seq(Token)
    BY <2>2, Join, Zenon
  <2>4. X \o s \o Y \o a = (X \o s) \o (Y \o a)
    <3>1. \A b, c \in Seq(Token) : (X \o s) \o b \o c = (X \o s) \o (b \o c)
      BY <2>2, Assoc, Zenon
    <3>2. \A c \in Seq(Token) : (X \o s) \o Y \o c = (X \o s) \o (Y \o c)
      BY <2>1, <3>1, Zenon
    <3>3. QED
      BY <3>2, Zenon
  <2>5. (X \o s) \o (Y \o a) = X \o (s \o (Y \o a))
    <3>1. \A b, c \in Seq(Token) : X \o b \o c = X \o (b \o c)
      BY <2>1, Assoc, Zenon
    <3>2. \A c \in Seq(Token) : X \o s \o c = X \o (s \o c)
      BY <3>1, Zenon
    <3>3. QED
      BY <2>2, <3>2, Zenon
  <2>6. QED
    BY <2>3, <2>4, <2>5, Zenon DEF X, Y
<1>5. ASSUME t.kind = "literal"
      PROVE  /\ Canon[t] = <<ScalarToken(Scalar(t.literal))>>
             /\ Canon[t] \o a = <<ScalarToken(Scalar(t.literal))>> \o a
  BY <1>1, <1>5, LevelCases, Zenon DEF Level
<1>6. ASSUME t.kind = "array"
      PROVE  /\ Items(t, Canon) \in Seq(Seq(Token))
             /\ Canon[t] = <<Mark("begin_array")>> \o Separated(Items(t, Canon)) \o <<Mark("end_array")>>
             /\ Canon[t] \o a =
                  <<Mark("begin_array")>> \o (Separated(Items(t, Canon)) \o (<<Mark("end_array")>> \o a))
             /\ Separated(Items(t, Canon)) \o (<<Mark("end_array")>> \o a) \in Seq(Token)
  <2>1. Items(t, Canon) \in Seq(Seq(Token))
    BY <1>2, <1>6, PartsWritten, Zenon
  <2>2. Separated(Items(t, Canon)) \in Seq(Token)
    BY <1>3, <2>1, Zenon
  <2>3. Canon[t] = <<Mark("begin_array")>> \o Separated(Items(t, Canon)) \o <<Mark("end_array")>>
    BY <1>1, <1>6, LevelCases, Zenon DEF Level
  <2>4. Mark("begin_array") \in Token /\ Mark("end_array") \in Token
    BY TokenMembers, Zenon
  <2>5. \A s \in Seq(Token) :
          /\ <<Mark("begin_array")>> \o s \o <<Mark("end_array")>> \o a =
               <<Mark("begin_array")>> \o (s \o (<<Mark("end_array")>> \o a))
          /\ s \o (<<Mark("end_array")>> \o a) \in Seq(Token)
    BY <1>4, <2>4, Zenon
  <2> DEFINE s == Separated(Items(t, Canon))
  <2> HIDE DEF s
  <2>6. Canon[t] \o a = <<Mark("begin_array")>> \o (s \o (<<Mark("end_array")>> \o a))
    BY <2>2, <2>3, <2>5, Zenon DEF s
  <2>7. QED
    BY <2>1, <2>2, <2>3, <2>5, <2>6, Zenon DEF s
<1>7. ASSUME t.kind = "object"
      PROVE  /\ Entries(t, Canon) \in Seq(Seq(Token))
             /\ Canon[t] = <<Mark("begin_object")>> \o Separated(Entries(t, Canon)) \o <<Mark("end_object")>>
             /\ Canon[t] \o a =
                  <<Mark("begin_object")>> \o (Separated(Entries(t, Canon)) \o (<<Mark("end_object")>> \o a))
             /\ Separated(Entries(t, Canon)) \o (<<Mark("end_object")>> \o a) \in Seq(Token)
  <2>1. Entries(t, Canon) \in Seq(Seq(Token))
    BY <1>2, <1>7, PartsWritten, Zenon
  <2>2. Separated(Entries(t, Canon)) \in Seq(Token)
    BY <1>3, <2>1, Zenon
  <2>3. Canon[t] = <<Mark("begin_object")>> \o Separated(Entries(t, Canon)) \o <<Mark("end_object")>>
    BY <1>1, <1>7, LevelCases, Zenon DEF Level
  <2>4. Mark("begin_object") \in Token /\ Mark("end_object") \in Token
    BY TokenMembers, Zenon
  <2>5. \A s \in Seq(Token) :
          /\ <<Mark("begin_object")>> \o s \o <<Mark("end_object")>> \o a =
               <<Mark("begin_object")>> \o (s \o (<<Mark("end_object")>> \o a))
          /\ s \o (<<Mark("end_object")>> \o a) \in Seq(Token)
    BY <1>4, <2>4, Zenon
  <2> DEFINE s == Separated(Entries(t, Canon))
  <2> HIDE DEF s
  <2>6. Canon[t] \o a = <<Mark("begin_object")>> \o (s \o (<<Mark("end_object")>> \o a))
    BY <2>2, <2>3, <2>5, Zenon DEF s
  <2>7. QED
    BY <2>1, <2>2, <2>3, <2>5, <2>6, Zenon DEF s
<1>8. QED
  BY <1>2, <1>5, <1>6, <1>7, Zenon

(***************************************************************************)
(* The first token shows the kind of a text, and no text starts with a     *)
(* closing bracket.                                                        *)
(***************************************************************************)
LEMMA CanonStarts ==
  ASSUME NEW t \in Text
  PROVE  /\ Canon[t] # <<>>
         /\ Canon[t][1] # Mark("end_array") /\ Canon[t][1] # Mark("end_object")
         /\ t.kind = "literal" => Canon[t][1] = ScalarToken(Scalar(t.literal))
         /\ t.kind = "array" => Canon[t][1] = Mark("begin_array")
         /\ t.kind = "object" => Canon[t][1] = Mark("begin_object")
<1>1. CASE t.kind = "literal"
  <2> DEFINE x == ScalarToken(Scalar(t.literal))
  <2>1. Canon[t] = <<x>>
    BY <1>1, Empty, CanonCases, Zenon
  <2>2. \A y : <<y>> # <<>> /\ <<y>>[1] = y
    OBVIOUS
  <2>3. Canon[t] # <<>> /\ Canon[t][1] = x
    BY <2>1, <2>2, Zenon
  <2>4. x # Mark("end_array") /\ x # Mark("end_object")
    BY TokensDiffer, Zenon
  <2>5. "literal" # "array" /\ "literal" # "object"
    OBVIOUS
  <2>6. QED
    BY <1>1, <2>3, <2>4, <2>5, Zenon
<1>2. CASE t.kind = "array"
  <2> DEFINE x == Mark("begin_array")
             s == Separated(Items(t, Canon)) \o (<<Mark("end_array")>> \o <<>>)
  <2>1. Canon[t] \o <<>> = <<x>> \o s /\ s \in Seq(Token) /\ Canon[t] \in Seq(Token)
    BY <1>2, Empty, CanonCases, ZenonT(40)
  <2>2. x \in Token /\ x # Mark("end_array") /\ x # Mark("end_object")
    BY TokenMembers, TokensDiffer, Zenon
  <2> HIDE DEF x, s
  <2>3. Canon[t] = <<x>> \o s
    BY <2>1, Empty, Zenon
  <2>4. <<x>> \in Seq(Token) /\ <<x>> # <<>> /\ <<x>>[1] = x
    BY <2>2, OneToken, Zenon
  <2>5. Canon[t][1] = x
    BY <2>1, <2>3, <2>4, FirstToken, Zenon
  <2>6. Canon[t] # <<>>
    <3>1. \A u \in Seq(Token) : <<x>> \o u # <<>>
      BY <2>2
    <3>2. QED
      BY <2>1, <2>3, <3>1, Zenon
  <2>7. "array" # "literal" /\ "array" # "object"
    OBVIOUS
  <2>8. QED
    BY <1>2, <2>2, <2>5, <2>6, <2>7, Zenon DEF x
<1>3. CASE t.kind = "object"
  <2> DEFINE x == Mark("begin_object")
             s == Separated(Entries(t, Canon)) \o (<<Mark("end_object")>> \o <<>>)
  <2>1. Canon[t] \o <<>> = <<x>> \o s /\ s \in Seq(Token) /\ Canon[t] \in Seq(Token)
    BY <1>3, Empty, CanonCases, ZenonT(40)
  <2>2. x \in Token /\ x # Mark("end_array") /\ x # Mark("end_object")
    BY TokenMembers, TokensDiffer, Zenon
  <2> HIDE DEF x, s
  <2>3. Canon[t] = <<x>> \o s
    BY <2>1, Empty, Zenon
  <2>4. <<x>> \in Seq(Token) /\ <<x>> # <<>> /\ <<x>>[1] = x
    BY <2>2, OneToken, Zenon
  <2>5. Canon[t][1] = x
    BY <2>1, <2>3, <2>4, FirstToken, Zenon
  <2>6. Canon[t] # <<>>
    <3>1. \A u \in Seq(Token) : <<x>> \o u # <<>>
      BY <2>2
    <3>2. QED
      BY <2>1, <2>3, <3>1, Zenon
  <2>7. "object" # "literal" /\ "array" # "object"
    OBVIOUS
  <2>8. QED
    BY <1>3, <2>2, <2>5, <2>6, <2>7, Zenon DEF x
<1>4. QED
  BY <1>1, <1>2, <1>3, PartsShallow, Zenon

(***************************************************************************)
(* A text is told from every other by what is written of it: if another's  *)
(* output starts in the same way, both mean the same, and if both mean the *)
(* same, the outputs are equal.                                            *)
(***************************************************************************)
Decodes(t) ==
  \A u \in Text, a, b \in Seq(Token) : Canon[t] \o a = Canon[u] \o b => u \in SameAs[t]
Agrees(t) ==
  \A u \in Text : u \in SameAs[t] => Canon[t] = Canon[u]

(***************************************************************************)
(* The array case: elements are recognised one after the other.            *)
(***************************************************************************)
LEMMA ArrayDecodes ==
  ASSUME NEW t \in Text, NEW u \in Text, t.kind = "array", u.kind = "array",
         \A p \in Text : Depth[p] < Depth[t] => Decodes(p) /\ Agrees(p),
         NEW a \in Seq(Token), NEW b \in Seq(Token), Canon[t] \o a = Canon[u] \o b
  PROVE  Len(t.items) = Len(u.items) /\ \A i \in DOMAIN t.items : u.items[i] \in SameAs[t.items[i]]
<1> DEFINE P == Items(t, Canon)
           Q == Items(u, Canon)
           close == Mark("end_array")
           x == Separated(P) \o (<<close>> \o a)
           y == Separated(Q) \o (<<close>> \o b)
<1>1. /\ t.items \in Seq(Text) /\ u.items \in Seq(Text)
      /\ \A i \in DOMAIN t.items : t.items[i] \in Text /\ Depth[t.items[i]] < Depth[t]
      /\ \A i \in DOMAIN u.items : u.items[i] \in Text
  BY PartsShallow, Zenon
<1>2. \A i \in DOMAIN t.items : Decodes(t.items[i]) /\ Agrees(t.items[i])
  BY <1>1, Zenon
<1>3. DOMAIN P = DOMAIN t.items /\ DOMAIN Q = DOMAIN u.items
  BY Zenon DEF Items
<1>4. (\A i \in DOMAIN P : P[i] = Canon[t.items[i]]) /\ \A i \in DOMAIN Q : Q[i] = Canon[u.items[i]]
  BY Zenon DEF Items
<1>5. P \in Seq(Seq(Token)) /\ Q \in Seq(Seq(Token))
  BY CanonCases, Zenon
<1>6. close \in Token /\ close # Mark("comma")
  BY TokenMembers, TokensDiffer, Zenon
<1>7. x = y
  <2> DEFINE open == <<Mark("begin_array")>>
  <2>1. open \o x = open \o y /\ x \in Seq(Token) /\ y \in Seq(Token)
    BY CanonCases, Zenon
  <2>2. open \in Seq(Token)
    BY TokenMembers, OneToken, Zenon
  <2> HIDE DEF open, x, y
  <2>3. QED
    BY <2>1, <2>2, Cancel, Zenon
<1> HIDE DEF P, Q, close
<1>8. ASSUME NEW i \in DOMAIN P, NEW j \in DOMAIN Q, NEW v \in Seq(Token), NEW w \in Seq(Token),
             P[i] \o v = Q[j] \o w
      PROVE  P[i] = Q[j]
  <2>1. t.items[i] \in Text /\ u.items[j] \in Text /\ Decodes(t.items[i]) /\ Agrees(t.items[i])
    BY <1>1, <1>2, <1>3, Zenon
  <2>2. Canon[t.items[i]] \o v = Canon[u.items[j]] \o w
    BY <1>4, <1>8, Zenon
  <2>3. u.items[j] \in SameAs[t.items[i]]
    BY <2>1, <2>2, Zenon DEF Decodes
  <2>4. Canon[t.items[i]] = Canon[u.items[j]]
    BY <2>1, <2>3, Zenon DEF Agrees
  <2>5. QED
    BY <1>4, <2>4, Zenon
<1>9. Recognisable(P, Q, close)
  <2>1. \A i \in DOMAIN P : P[i] # <<>> /\ P[i][1] # close
    <3> TAKE i \in DOMAIN P
    <3>1. t.items[i] \in Text /\ P[i] = Canon[t.items[i]]
      BY <1>1, <1>3, <1>4, Zenon
    <3>2. Canon[t.items[i]] # <<>> /\ Canon[t.items[i]][1] # close
      BY <3>1, CanonStarts, Zenon DEF close
    <3>3. QED
      BY <3>1, <3>2, Zenon
  <2>2. QED
    BY <1>8, <2>1, Zenon DEF Recognisable
<1>10. Recognisable(Q, P, close)
  <2>1. \A i \in DOMAIN Q : Q[i] # <<>> /\ Q[i][1] # close
    <3> TAKE i \in DOMAIN Q
    <3>1. u.items[i] \in Text /\ Q[i] = Canon[u.items[i]]
      BY <1>1, <1>3, <1>4, Zenon
    <3>2. Canon[u.items[i]] # <<>> /\ Canon[u.items[i]][1] # close
      BY <3>1, CanonStarts, Zenon DEF close
    <3>3. QED
      BY <3>1, <3>2, Zenon
  <2>2. ASSUME NEW i \in DOMAIN Q, NEW j \in DOMAIN P, NEW v \in Seq(Token), NEW w \in Seq(Token),
               Q[i] \o v = P[j] \o w
        PROVE  Q[i] = P[j]
    <3>1. P[j] \o w = Q[i] \o v
      BY <2>2, Zenon
    <3>2. P[j] = Q[i]
      BY <1>8, <3>1, Zenon
    <3>3. QED
      BY <3>2
  <2>3. QED
    BY <2>1, <2>2, Zenon DEF Recognisable
<1>11. Len(P) = Len(Q) /\ \A i \in 1..Len(P) : P[i] = Q[i]
  BY <1>5, <1>6, <1>7, <1>9, <1>10, ListDecodes, Zenon
<1>12. /\ DOMAIN P = 1..Len(P) /\ DOMAIN Q = 1..Len(Q) /\ Len(P) \in Nat /\ Len(Q) \in Nat
       /\ DOMAIN t.items = 1..Len(t.items) /\ DOMAIN u.items = 1..Len(u.items)
       /\ Len(t.items) \in Nat /\ Len(u.items) \in Nat
  BY <1>1, <1>5
<1>13. Len(t.items) = Len(u.items)
  <2>1. 1..Len(t.items) = 1..Len(u.items)
    BY <1>3, <1>11, <1>12, Zenon
  <2>2. \A m, n \in Nat : 1..m = 1..n => m = n
    OBVIOUS
  <2>3. QED
    BY <1>12, <2>1, <2>2, Zenon
<1>14. ASSUME NEW i \in DOMAIN t.items PROVE u.items[i] \in SameAs[t.items[i]]
  <2>1. i \in DOMAIN P /\ i \in DOMAIN Q /\ i \in DOMAIN u.items /\ i \in 1..Len(P)
    BY <1>3, <1>11, <1>12, <1>14, Zenon
  <2>2. Canon[t.items[i]] = Canon[u.items[i]]
    BY <1>4, <1>11, <2>1, Zenon
  <2>3. Canon[t.items[i]] \o <<>> = Canon[u.items[i]] \o <<>>
    BY <2>2, Zenon
  <2>4. QED
    BY <1>1, <1>2, <2>1, <2>3, Empty, Zenon DEF Decodes
<1>15. QED
  BY <1>13, <1>14

(***************************************************************************)
(* An entry of an object is written with its key first.                    *)
(***************************************************************************)
LEMMA KeyStarts ==
  \A k \in Nat : KeyHead(k) \in Seq(Token) /\ KeyHead(k) # <<>> /\ KeyHead(k)[1] = KeyToken(k)
<1> TAKE k \in Nat
<1>1. KeyToken(k) \in Token /\ Mark("colon") \in Token
  BY TokenMembers, Zenon
<1>2. \A y, z \in Token : <<y, z>> \in Seq(Token) /\ <<y, z>> # <<>> /\ <<y, z>>[1] = y
  OBVIOUS
<1>3. QED
  BY <1>1, <1>2, Zenon DEF KeyHead

(***************************************************************************)
(* An entry of an object shows its key and then its value, and it ends where *)
(* the value ends.                                                         *)
(***************************************************************************)
LEMMA EntryDecodes ==
  ASSUME NEW e, NEW f, e[1] \in Nat, f[1] \in Nat, e[2] \in Text, f[2] \in Text,
         Decodes(e[2]), Agrees(e[2]), NEW x \in Seq(Token), NEW y \in Seq(Token),
         Entry(e, Canon) \o x = Entry(f, Canon) \o y
  PROVE  e[1] = f[1] /\ f[2] \in SameAs[e[2]] /\ Entry(e, Canon) = Entry(f, Canon)
<1> DEFINE c == Canon[e[2]]
           d == Canon[f[2]]
           hc == KeyHead(e[1])
           hd == KeyHead(f[1])
<1>1. c \in Seq(Token) /\ d \in Seq(Token)
  BY CanonCases, Zenon
<1>2. hc \in Seq(Token) /\ (hc \o c \o x)[1] = KeyToken(e[1]) /\ hc \o c \o x = hc \o (c \o x)
  <2> HIDE DEF c
  <2>1. hc \in Seq(Token) /\ hc # <<>> /\ hc[1] = KeyToken(e[1])
    BY KeyStarts, Zenon
  <2> HIDE DEF hc
  <2>2. \A v, w \in Seq(Token) : hc \o v \o w = hc \o (v \o w)
    BY <2>1, Assoc, Zenon
  <2>3. hc \o c \o x = hc \o (c \o x)
    BY <1>1, <2>2, Zenon
  <2>4. c \o x \in Seq(Token)
    BY <1>1, Join, Zenon
  <2>5. (hc \o (c \o x))[1] = hc[1]
    BY <2>1, <2>4, FirstToken, Zenon
  <2>6. QED
    BY <2>1, <2>3, <2>5, Zenon
<1>3. hd \in Seq(Token) /\ (hd \o d \o y)[1] = KeyToken(f[1]) /\ hd \o d \o y = hd \o (d \o y)
  <2> HIDE DEF d
  <2>1. hd \in Seq(Token) /\ hd # <<>> /\ hd[1] = KeyToken(f[1])
    BY KeyStarts, Zenon
  <2> HIDE DEF hd
  <2>2. \A v, w \in Seq(Token) : hd \o v \o w = hd \o (v \o w)
    BY <2>1, Assoc, Zenon
  <2>3. hd \o d \o y = hd \o (d \o y)
    BY <1>1, <2>2, Zenon
  <2>4. d \o y \in Seq(Token)
    BY <1>1, Join, Zenon
  <2>5. (hd \o (d \o y))[1] = hd[1]
    BY <2>1, <2>4, FirstToken, Zenon
  <2>6. QED
    BY <2>1, <2>3, <2>5, Zenon
<1>4. hc \o c \o x = hd \o d \o y
  BY Zenon DEF Entry
<1>5. e[1] = f[1]
  <2>1. KeyToken(e[1]) = KeyToken(f[1])
    BY <1>2, <1>3, <1>4, Zenon
  <2>2. QED
    BY <2>1, TokensDiffer, Zenon
<1>6. hc = hd
  BY <1>5, Zenon
<1> HIDE DEF hc, hd
<1>7. c \o x \in Seq(Token) /\ d \o y \in Seq(Token)
  BY <1>1, Join, Zenon
<1>8. c \o x = d \o y
  <2>1. hc \o (c \o x) = hc \o (d \o y)
    BY <1>2, <1>3, <1>4, <1>6, Zenon
  <2> DEFINE cx == c \o x
             dy == d \o y
  <2> HIDE DEF cx, dy
  <2>2. hc \o cx = hc \o dy /\ cx \in Seq(Token) /\ dy \in Seq(Token)
    BY <1>7, <2>1, Zenon DEF cx, dy
  <2>3. cx = dy
    BY <1>2, <2>2, Cancel, Zenon
  <2>4. QED
    BY <2>3, Zenon DEF cx, dy
<1>9. f[2] \in SameAs[e[2]]
  BY <1>8, Zenon DEF Decodes
<1>10. c = d
  BY <1>9, Zenon DEF Agrees
<1>11. QED
  BY <1>5, <1>9, <1>10, Zenon DEF Entry

(***************************************************************************)
(* What a key's entry in the sorted sequence is.                           *)
(***************************************************************************)
LEMMA FieldOfKey ==
  ASSUME NEW t \in Text, t.kind = "object"
  PROVE  /\ \A e \in Fields(t.entries) : e[1] \in Keys(t.entries) /\ e[2] = LastOf(t.entries, e[1])
         /\ \A k \in Keys(t.entries) : \E i \in DOMAIN Sorted(t.entries) :
              Sorted(t.entries)[i][1] = k /\ Sorted(t.entries)[i][2] = LastOf(t.entries, k)
<1>1. ASSUME NEW e \in Fields(t.entries)
      PROVE  e[1] \in Keys(t.entries) /\ e[2] = LastOf(t.entries, e[1])
  <2>1. PICK k \in Keys(t.entries) : e = <<k, LastOf(t.entries, k)>>
    BY Zenon DEF Fields
  <2>2. e[1] = k /\ e[2] = LastOf(t.entries, k)
    BY <2>1
  <2>3. QED
    BY <2>2, Zenon
<1>2. ASSUME NEW k \in Keys(t.entries)
      PROVE  \E i \in DOMAIN Sorted(t.entries) :
               Sorted(t.entries)[i][1] = k /\ Sorted(t.entries)[i][2] = LastOf(t.entries, k)
  <2> DEFINE e == <<k, LastOf(t.entries, k)>>
  <2>1. e \in Fields(t.entries) /\ t.entries \in Seq(Nat \X Text)
    BY PartsShallow, LastShallow, Zenon
  <2>2. e[1] = k /\ e[2] = LastOf(t.entries, k)
    OBVIOUS
  <2> HIDE DEF e
  <2>3. PICK i \in DOMAIN Sorted(t.entries) : Sorted(t.entries)[i] = e
    BY <2>1, SortedEntries, Zenon
  <2>4. QED
    BY <2>2, <2>3, Zenon
<1>3. QED
  BY <1>1, <1>2

(***************************************************************************)
(* The object case: sorted entries are recognised one after the other, so  *)
(* the keys are the same and so is what each stands for.                   *)
(***************************************************************************)
LEMMA ObjectDecodes ==
  ASSUME NEW t \in Text, NEW u \in Text, t.kind = "object", u.kind = "object",
         \A p \in Text : Depth[p] < Depth[t] => Decodes(p) /\ Agrees(p),
         NEW a \in Seq(Token), NEW b \in Seq(Token), Canon[t] \o a = Canon[u] \o b
  PROVE  /\ Keys(t.entries) = Keys(u.entries)
         /\ \A k \in Keys(t.entries) : LastOf(u.entries, k) \in SameAs[LastOf(t.entries, k)]
<1> DEFINE P == Entries(t, Canon)
           Q == Entries(u, Canon)
           S == Sorted(t.entries)
           R == Sorted(u.entries)
           close == Mark("end_object")
           x == Separated(P) \o (<<close>> \o a)
           y == Separated(Q) \o (<<close>> \o b)
<1>1. /\ S \in Seq(Nat \X Text) /\ R \in Seq(Nat \X Text)
      /\ \A i \in DOMAIN S : S[i] \in Fields(t.entries) /\ S[i][1] \in Nat /\ S[i][2] \in Text
                             /\ Depth[S[i][2]] < Depth[t]
      /\ \A i \in DOMAIN R : R[i] \in Fields(u.entries) /\ R[i][1] \in Nat /\ R[i][2] \in Text
  BY PartsShallow, Zenon
<1>2. \A i \in DOMAIN S : Decodes(S[i][2]) /\ Agrees(S[i][2])
  BY <1>1, Zenon
<1>3. DOMAIN P = DOMAIN S /\ DOMAIN Q = DOMAIN R
  BY Zenon DEF Entries
<1>4. (\A i \in DOMAIN P : P[i] = Entry(S[i], Canon)) /\ \A i \in DOMAIN Q : Q[i] = Entry(R[i], Canon)
  BY Zenon DEF Entries
<1>5. P \in Seq(Seq(Token)) /\ Q \in Seq(Seq(Token))
  BY CanonCases, Zenon
<1>6. close \in Token /\ close # Mark("comma")
  BY TokenMembers, TokensDiffer, Zenon
<1>7. x = y
  <2> DEFINE open == <<Mark("begin_object")>>
  <2>1. open \o x = open \o y /\ x \in Seq(Token) /\ y \in Seq(Token)
    BY CanonCases, Zenon
  <2>2. open \in Seq(Token)
    BY TokenMembers, OneToken, Zenon
  <2> HIDE DEF open, x, y
  <2>3. QED
    BY <2>1, <2>2, Cancel, Zenon
<1> HIDE DEF P, Q, S, R, close
<1>8. ASSUME NEW i \in DOMAIN P, NEW j \in DOMAIN Q, NEW v \in Seq(Token), NEW w \in Seq(Token),
             P[i] \o v = Q[j] \o w
      PROVE  S[i][1] = R[j][1] /\ R[j][2] \in SameAs[S[i][2]] /\ P[i] = Q[j]
  <2> DEFINE e == S[i]
             f == R[j]
  <2>1. e[1] \in Nat /\ e[2] \in Text /\ Decodes(e[2]) /\ Agrees(e[2]) /\ f[1] \in Nat /\ f[2] \in Text
    BY <1>1, <1>2, <1>3, Zenon
  <2>2. P[i] = Entry(e, Canon) /\ Q[j] = Entry(f, Canon)
    BY <1>4, Zenon
  <2>3. Entry(e, Canon) \o v = Entry(f, Canon) \o w
    BY <1>8, <2>2, Zenon
  <2> HIDE DEF e, f
  <2>4. e[1] = f[1] /\ f[2] \in SameAs[e[2]] /\ Entry(e, Canon) = Entry(f, Canon)
    BY <2>1, <2>3, EntryDecodes, Zenon
  <2>5. QED
    BY <2>2, <2>4, Zenon DEF e, f
<1>9. ASSUME NEW e, e[1] \in Nat, e[2] \in Text
      PROVE  Entry(e, Canon) # <<>> /\ Entry(e, Canon)[1] # close
  <2> DEFINE c == Canon[e[2]]
  <2>1. c \in Seq(Token)
    BY <1>9, CanonCases, Zenon
  <2> HIDE DEF c
  <2>2. KeyHead(e[1]) \o c # <<>> /\ (KeyHead(e[1]) \o c)[1] = KeyToken(e[1])
    <3>1. KeyHead(e[1]) \in Seq(Token) /\ KeyHead(e[1]) # <<>> /\ KeyHead(e[1])[1] = KeyToken(e[1])
      BY <1>9, KeyStarts, Zenon
    <3>2. \A g, d \in Seq(Token) : g # <<>> => g \o d # <<>>
      OBVIOUS
    <3>3. QED
      BY <2>1, <3>1, <3>2, FirstToken, Zenon
  <2>3. KeyToken(e[1]) # close
    BY TokensDiffer, Zenon DEF close
  <2>4. QED
    BY <2>2, <2>3, Zenon DEF Entry, c
<1>10. \A i \in DOMAIN P, j \in DOMAIN Q, v, w \in Seq(Token) : P[i] \o v = Q[j] \o w => P[i] = Q[j]
  <2> SUFFICES ASSUME NEW i \in DOMAIN P, NEW j \in DOMAIN Q, NEW v \in Seq(Token), NEW w \in Seq(Token),
                      P[i] \o v = Q[j] \o w
               PROVE  P[i] = Q[j]
    BY Zenon
  <2>1. QED
    BY <1>8, ZenonT(60)
<1>11. Recognisable(P, Q, close)
  <2>1. \A i \in DOMAIN P : P[i] # <<>> /\ P[i][1] # close
    <3> TAKE i \in DOMAIN P
    <3>1. S[i][1] \in Nat /\ S[i][2] \in Text /\ P[i] = Entry(S[i], Canon)
      BY <1>1, <1>3, <1>4, Zenon
    <3>2. QED
      BY <1>9, <3>1, Zenon
  <2>2. QED
    BY <1>10, <2>1, Zenon DEF Recognisable
<1>12. Recognisable(Q, P, close)
  <2>1. \A i \in DOMAIN Q : Q[i] # <<>> /\ Q[i][1] # close
    <3> TAKE i \in DOMAIN Q
    <3>1. R[i][1] \in Nat /\ R[i][2] \in Text /\ Q[i] = Entry(R[i], Canon)
      BY <1>1, <1>3, <1>4, Zenon
    <3>2. QED
      BY <1>9, <3>1, Zenon
  <2>2. ASSUME NEW i \in DOMAIN Q, NEW j \in DOMAIN P, NEW v \in Seq(Token), NEW w \in Seq(Token),
               Q[i] \o v = P[j] \o w
        PROVE  Q[i] = P[j]
    <3>1. P[j] \o w = Q[i] \o v
      BY <2>2, Zenon
    <3>2. P[j] = Q[i]
      BY <1>10, <3>1, Zenon
    <3>3. QED
      BY <3>2
  <2>3. QED
    BY <2>1, <2>2, Zenon DEF Recognisable
<1>13. Len(P) = Len(Q) /\ \A i \in 1..Len(P) : P[i] = Q[i]
  BY <1>5, <1>6, <1>7, <1>11, <1>12, ListDecodes, Zenon
<1>14. DOMAIN P = 1..Len(P) /\ DOMAIN Q = 1..Len(Q)
  BY <1>5
<1>15. DOMAIN S = DOMAIN R
  BY <1>3, <1>13, <1>14, Zenon
<1>16. ASSUME NEW i \in DOMAIN S PROVE S[i][1] = R[i][1] /\ R[i][2] \in SameAs[S[i][2]]
  <2>1. i \in DOMAIN P /\ i \in DOMAIN Q /\ P[i] = Q[i]
    BY <1>3, <1>13, <1>14, <1>15, Zenon
  <2>2. P[i] \o <<>> = Q[i] \o <<>>
    BY <2>1, Zenon
  <2>3. QED
    BY <1>8, <2>1, <2>2, Empty, Zenon
<1>17. ASSUME NEW k \in Keys(t.entries)
       PROVE  k \in Keys(u.entries) /\ LastOf(u.entries, k) \in SameAs[LastOf(t.entries, k)]
  <2>1. PICK i \in DOMAIN S : S[i][1] = k /\ S[i][2] = LastOf(t.entries, k)
    BY FieldOfKey, Zenon DEF S
  <2>2. R[i][1] = k /\ R[i][2] \in SameAs[LastOf(t.entries, k)] /\ R[i] \in Fields(u.entries)
    BY <1>1, <1>15, <1>16, <2>1, Zenon
  <2>3. R[i][1] \in Keys(u.entries) /\ R[i][2] = LastOf(u.entries, R[i][1])
    BY <2>2, FieldOfKey, Zenon
  <2>4. QED
    BY <2>2, <2>3, Zenon
<1>18. ASSUME NEW k \in Keys(u.entries) PROVE k \in Keys(t.entries)
  <2>1. PICK i \in DOMAIN R : R[i][1] = k
    BY FieldOfKey, Zenon DEF R
  <2>2. S[i][1] = k /\ S[i] \in Fields(t.entries)
    BY <1>1, <1>15, <1>16, <2>1, Zenon
  <2>3. QED
    BY <2>2, FieldOfKey, Zenon
<1>19. QED
  BY <1>17, <1>18, Zenon

(***************************************************************************)
(* Arrays whose elements mean the same are written in the same way.        *)
(***************************************************************************)
LEMMA ArrayAgrees ==
  ASSUME NEW t \in Text, NEW u \in Text, t.kind = "array", u.kind = "array",
         \A p \in Text : Depth[p] < Depth[t] => Decodes(p) /\ Agrees(p),
         Len(t.items) = Len(u.items), \A i \in DOMAIN t.items : u.items[i] \in SameAs[t.items[i]]
  PROVE  Canon[t] = Canon[u]
<1>1. /\ t.items \in Seq(Text) /\ u.items \in Seq(Text)
      /\ \A i \in DOMAIN t.items : t.items[i] \in Text /\ Depth[t.items[i]] < Depth[t]
      /\ \A i \in DOMAIN u.items : u.items[i] \in Text
  BY PartsShallow, Zenon
<1>2. DOMAIN t.items = DOMAIN u.items
  BY <1>1
<1>3. \A i \in DOMAIN t.items : Canon[t.items[i]] = Canon[u.items[i]]
  <2> TAKE i \in DOMAIN t.items
  <2>1. t.items[i] \in Text /\ u.items[i] \in Text /\ Agrees(t.items[i])
    BY <1>1, <1>2, Zenon
  <2>2. QED
    BY <2>1, Zenon DEF Agrees
<1>4. Items(t, Canon) = Items(u, Canon)
  BY <1>2, <1>3, Zenon DEF Items
<1>5. /\ Canon[t] = <<Mark("begin_array")>> \o Separated(Items(t, Canon)) \o <<Mark("end_array")>>
      /\ Canon[u] = <<Mark("begin_array")>> \o Separated(Items(u, Canon)) \o <<Mark("end_array")>>
  BY Empty, CanonCases, Zenon
<1>6. QED
  BY <1>4, <1>5, Zenon

(***************************************************************************)
(* Two lists of entries, each in strictly increasing order of its keys,    *)
(* that have the same keys have them in the same places.                   *)
(***************************************************************************)
LEMMA KeysInPlace ==
  ASSUME NEW S \in Seq(Nat \X Text), NEW R \in Seq(Nat \X Text),
         \A i, j \in DOMAIN S : i < j => S[i][1] < S[j][1],
         \A i, j \in DOMAIN R : i < j => R[i][1] < R[j][1],
         \A i \in DOMAIN S : \E j \in DOMAIN R : S[i][1] = R[j][1],
         \A j \in DOMAIN R : \E i \in DOMAIN S : S[i][1] = R[j][1]
  PROVE  DOMAIN S = DOMAIN R /\ \A i \in DOMAIN S : S[i][1] = R[i][1]
<1> DEFINE m == Len(S)
           n == Len(R)
           s == [i \in 1..m |-> S[i][1]]
           r == [i \in 1..n |-> R[i][1]]
<1>1. m \in Nat /\ n \in Nat /\ DOMAIN S = 1..m /\ DOMAIN R = 1..n
  OBVIOUS
<1>2. s \in [1..m -> Nat] /\ r \in [1..n -> Nat]
  OBVIOUS
<1>3. (\A i \in 1..m : s[i] = S[i][1]) /\ \A i \in 1..n : r[i] = R[i][1]
  OBVIOUS
<1> HIDE DEF m, n, s, r
<1>4. \A i, j \in 1..m : i < j => s[i] < s[j]
  <2> SUFFICES ASSUME NEW i \in 1..m, NEW j \in 1..m, i < j PROVE s[i] < s[j]
    BY Zenon
  <2>1. S[i][1] < S[j][1]
    BY <1>1, Zenon
  <2>2. QED
    BY <1>3, <2>1, Zenon
<1>5. \A i, j \in 1..n : i < j => r[i] < r[j]
  <2> SUFFICES ASSUME NEW i \in 1..n, NEW j \in 1..n, i < j PROVE r[i] < r[j]
    BY Zenon
  <2>1. R[i][1] < R[j][1]
    BY <1>1, Zenon
  <2>2. QED
    BY <1>3, <2>1, Zenon
<1>6. \A i \in 1..m : \E j \in 1..n : s[i] = r[j]
  <2> TAKE i \in 1..m
  <2>1. PICK j \in 1..n : S[i][1] = R[j][1]
    BY <1>1, Zenon
  <2>2. s[i] = S[i][1] /\ r[j] = R[j][1]
    BY <1>3, Zenon
  <2>3. QED
    BY <2>1, <2>2, Zenon
<1>7. \A j \in 1..n : \E i \in 1..m : s[i] = r[j]
  <2> TAKE j \in 1..n
  <2>1. PICK i \in 1..m : S[i][1] = R[j][1]
    BY <1>1, ZenonT(40)
  <2>2. s[i] = S[i][1] /\ r[j] = R[j][1]
    BY <1>3, Zenon
  <2>3. QED
    BY <2>1, <2>2, Zenon
<1>8. m = n /\ \A i \in 1..m : s[i] = r[i]
  <2>1. Strictly(m, s) /\ Strictly(n, r)
    BY <1>4, <1>5, Zenon DEF Strictly
  <2>2. Within(m, s, n, r)
    BY <1>6, Zenon DEF Within
  <2>3. Within(n, r, m, s)
    BY <1>7, Zenon DEF Within
  <2>4. \A f \in [1..m -> Nat] : \A l \in Nat : \A g \in [1..l -> Nat] :
          Strictly(m, f) /\ Strictly(l, g) /\ Within(m, f, l, g) /\ Within(l, g, m, f)
          => m = l /\ \A i \in 1..m : f[i] = g[i]
    BY <1>1, IncreasingUnique, Zenon
  <2>5. \A l \in Nat : \A g \in [1..l -> Nat] :
          Strictly(m, s) /\ Strictly(l, g) /\ Within(m, s, l, g) /\ Within(l, g, m, s)
          => m = l /\ \A i \in 1..m : s[i] = g[i]
    BY <1>2, <2>4, Zenon
  <2>6. QED
    BY <1>1, <1>2, <2>1, <2>2, <2>3, <2>5, Zenon
<1>9. DOMAIN S = DOMAIN R
  BY <1>1, <1>8, Zenon
<1>10. ASSUME NEW i \in DOMAIN S PROVE S[i][1] = R[i][1]
  <2>1. i \in 1..m /\ i \in 1..n
    BY <1>1, <1>9, Zenon
  <2>2. s[i] = S[i][1] /\ r[i] = R[i][1] /\ s[i] = r[i]
    BY <1>3, <1>8, <2>1, Zenon
  <2>3. QED
    BY <2>2, Zenon
<1>11. QED
  BY <1>9, <1>10, Zenon

(***************************************************************************)
(* Objects with the same keys have them in the same places once sorted,    *)
(* and if what the keys stand for means the same, the objects are written  *)
(* in the same way.                                                        *)
(***************************************************************************)
LEMMA ObjectAgrees ==
  ASSUME NEW t \in Text, NEW u \in Text, t.kind = "object", u.kind = "object",
         \A p \in Text : Depth[p] < Depth[t] => Decodes(p) /\ Agrees(p),
         Keys(t.entries) = Keys(u.entries),
         \A k \in Keys(t.entries) : LastOf(u.entries, k) \in SameAs[LastOf(t.entries, k)]
  PROVE  Canon[t] = Canon[u]
<1> DEFINE S == Sorted(t.entries)
           R == Sorted(u.entries)
<1>1. /\ S \in Seq(Nat \X Text) /\ R \in Seq(Nat \X Text)
      /\ \A i \in DOMAIN S : S[i] \in Fields(t.entries) /\ S[i][1] \in Nat /\ S[i][2] \in Text
                             /\ Depth[S[i][2]] < Depth[t]
      /\ \A i \in DOMAIN R : R[i] \in Fields(u.entries) /\ R[i][1] \in Nat /\ R[i][2] \in Text
  BY PartsShallow, Zenon
<1>2. \A i \in DOMAIN S : S[i][1] \in Keys(t.entries) /\ S[i][2] = LastOf(t.entries, S[i][1])
  BY <1>1, FieldOfKey, Zenon
<1>3. \A i \in DOMAIN R : R[i][1] \in Keys(u.entries) /\ R[i][2] = LastOf(u.entries, R[i][1])
  BY <1>1, FieldOfKey, Zenon
<1>4. \A k \in Keys(t.entries) : (\E i \in DOMAIN S : S[i][1] = k) /\ \E i \in DOMAIN R : R[i][1] = k
  BY FieldOfKey, ZenonT(40)
<1>5. /\ \A i, j \in DOMAIN S : i < j => S[i][1] < S[j][1]
      /\ \A i, j \in DOMAIN R : i < j => R[i][1] < R[j][1]
  <2>1. t.entries \in Seq(Nat \X Text) /\ u.entries \in Seq(Nat \X Text)
    BY PartsShallow, Zenon
  <2>2. QED
    BY <2>1, SortedEntries, Zenon
<1> HIDE DEF S, R
<1>6. \A i \in DOMAIN S : \E j \in DOMAIN R : S[i][1] = R[j][1]
  <2> TAKE i \in DOMAIN S
  <2>1. PICK j \in DOMAIN R : R[j][1] = S[i][1]
    BY <1>2, <1>4, Zenon
  <2>2. QED
    BY <2>1, Zenon
<1>7. \A j \in DOMAIN R : \E i \in DOMAIN S : S[i][1] = R[j][1]
  BY <1>3, <1>4, Zenon
<1>8. DOMAIN S = DOMAIN R /\ \A i \in DOMAIN S : S[i][1] = R[i][1]
  BY <1>1, <1>5, <1>6, <1>7, KeysInPlace, Zenon
<1>9. \A i \in DOMAIN S : Entry(S[i], Canon) = Entry(R[i], Canon)
  <2> TAKE i \in DOMAIN S
  <2>1. S[i][1] = R[i][1]
    BY <1>8, Zenon
  <2>2. R[i][2] \in SameAs[S[i][2]]
    BY <1>2, <1>3, <1>8, <2>1, Zenon
  <2>3. S[i][2] \in Text /\ R[i][2] \in Text /\ Agrees(S[i][2])
    BY <1>1, <1>8, Zenon
  <2>4. Canon[S[i][2]] = Canon[R[i][2]]
    BY <2>2, <2>3, Zenon DEF Agrees
  <2>5. QED
    BY <2>1, <2>4, Zenon DEF Entry
<1>10. Entries(t, Canon) = Entries(u, Canon)
  BY <1>8, <1>9, Zenon DEF Entries, S, R
<1>11. /\ Canon[t] = <<Mark("begin_object")>> \o Separated(Entries(t, Canon)) \o <<Mark("end_object")>>
       /\ Canon[u] = <<Mark("begin_object")>> \o Separated(Entries(u, Canon)) \o <<Mark("end_object")>>
  BY Empty, CanonCases, Zenon
<1>12. QED
  BY <1>10, <1>11, Zenon

(***************************************************************************)
(* By induction on the nesting: what write_canonical writes of two texts   *)
(* is the same exactly if they mean the same, and no output is the         *)
(* beginning of a different one.                                           *)
(***************************************************************************)
THEOREM CanonicalDecides == \A t \in Text : Decodes(t) /\ Agrees(t)
<1> DEFINE odd == {t \in Text : ~(Decodes(t) /\ Agrees(t))}
           bad == {Depth[t] : t \in odd}
<1> SUFFICES ASSUME NEW z \in odd PROVE FALSE
  OBVIOUS
<1>1. \A t \in Text : Depth[t] \in Nat
  BY TextAssumption
<1>2. Depth[z] \in bad /\ \A d \in bad : d \in Nat
  BY <1>1
<1>3. PICK d \in bad : \A c \in bad : d <= c
  BY <1>2, Least, Zenon
<1>4. PICK t \in odd : d = Depth[t]
  BY <1>3
<1>5. ASSUME NEW p \in Text, Depth[p] < Depth[t] PROVE Decodes(p) /\ Agrees(p)
  <2> SUFFICES ASSUME p \in odd PROVE FALSE
    OBVIOUS
  <2>1. Depth[p] \in bad
    OBVIOUS
  <2>2. d <= Depth[p]
    BY <1>3, <2>1
  <2>3. QED
    BY <1>1, <1>4, <1>5, <2>2
<1>6. t \in Text /\ ~(Decodes(t) /\ Agrees(t))
  BY Zenon
<1> HIDE DEF odd, bad
<1>7. "literal" # "array" /\ "literal" # "object" /\ "array" # "object"
  OBVIOUS
<1>8. Decodes(t)
  <2> SUFFICES ASSUME NEW u \in Text, NEW a \in Seq(Token), NEW b \in Seq(Token),
                      Canon[t] \o a = Canon[u] \o b
               PROVE  SameLevel(t, u, SameAs)
    BY <1>6, SameSolves, Zenon DEF Decodes
  <2>1. Canon[t] \in Seq(Token) /\ Canon[u] \in Seq(Token)
    BY <1>6, CanonCases, Zenon
  <2>2. Canon[t][1] = Canon[u][1]
    <3>1. Canon[t] # <<>> /\ Canon[u] # <<>>
      BY <1>6, CanonStarts, Zenon
    <3>2. (Canon[t] \o a)[1] = Canon[t][1] /\ (Canon[u] \o b)[1] = Canon[u][1]
      BY <2>1, <3>1, FirstToken, Zenon
    <3>3. QED
      BY <3>2, Zenon
  <2>3. CASE t.kind = "literal"
    <3>1. Canon[t][1] = ScalarToken(Scalar(t.literal))
      BY <1>6, <2>3, CanonStarts, Zenon
    <3>2. u.kind = "literal"
      <4>1. /\ u.kind = "array" => Canon[u][1] = Mark("begin_array")
            /\ u.kind = "object" => Canon[u][1] = Mark("begin_object")
        BY CanonStarts, Zenon
      <4>2. /\ ScalarToken(Scalar(t.literal)) # Mark("begin_array")
            /\ ScalarToken(Scalar(t.literal)) # Mark("begin_object")
        BY TokensDiffer, Zenon
      <4>3. u.kind # "array" /\ u.kind # "object"
        BY <2>2, <3>1, <4>1, <4>2, Zenon
      <4>4. QED
        BY <4>3, PartsShallow, Zenon
    <3>3. Canon[u][1] = ScalarToken(Scalar(u.literal))
      BY <3>2, CanonStarts, Zenon
    <3>4. Scalar(t.literal) = Scalar(u.literal)
      BY <2>2, <3>1, <3>3, TokensDiffer, Zenon
    <3>5. QED
      BY <1>7, <2>3, <3>2, <3>4, Zenon DEF SameLevel
  <2>4. CASE t.kind = "array"
    <3>1. Canon[t][1] = Mark("begin_array")
      BY <1>6, <2>4, CanonStarts, Zenon
    <3>2. u.kind = "array"
      <4>1. /\ u.kind = "literal" => Canon[u][1] = ScalarToken(Scalar(u.literal))
            /\ u.kind = "object" => Canon[u][1] = Mark("begin_object")
        BY CanonStarts, Zenon
      <4>2. /\ Mark("begin_array") # ScalarToken(Scalar(u.literal))
            /\ Mark("begin_array") # Mark("begin_object")
        BY TokensDiffer, Zenon
      <4>3. u.kind # "literal" /\ u.kind # "object"
        BY <2>2, <3>1, <4>1, <4>2, Zenon
      <4>4. QED
        BY <4>3, PartsShallow, Zenon
    <3>3. Len(t.items) = Len(u.items) /\ \A i \in DOMAIN t.items : u.items[i] \in SameAs[t.items[i]]
      BY <1>5, <1>6, <2>4, <3>2, ArrayDecodes, Zenon
    <3>4. QED
      BY <1>7, <2>4, <3>2, <3>3, Zenon DEF SameLevel
  <2>5. CASE t.kind = "object"
    <3>1. Canon[t][1] = Mark("begin_object")
      BY <1>6, <2>5, CanonStarts, Zenon
    <3>2. u.kind = "object"
      <4>1. /\ u.kind = "literal" => Canon[u][1] = ScalarToken(Scalar(u.literal))
            /\ u.kind = "array" => Canon[u][1] = Mark("begin_array")
        BY CanonStarts, Zenon
      <4>2. /\ Mark("begin_object") # ScalarToken(Scalar(u.literal))
            /\ Mark("begin_object") # Mark("begin_array")
        BY TokensDiffer, Zenon
      <4>3. u.kind # "literal" /\ u.kind # "array"
        BY <2>2, <3>1, <4>1, <4>2, Zenon
      <4>4. QED
        BY <4>3, PartsShallow, Zenon
    <3>3. /\ Keys(t.entries) = Keys(u.entries)
          /\ \A k \in Keys(t.entries) : LastOf(u.entries, k) \in SameAs[LastOf(t.entries, k)]
      BY <1>5, <1>6, <2>5, <3>2, ObjectDecodes, Zenon
    <3>4. QED
      BY <1>7, <2>5, <3>2, <3>3, Zenon DEF SameLevel
  <2>6. QED
    BY <1>6, <2>3, <2>4, <2>5, PartsShallow, Zenon
<1>9. Agrees(t)
  <2> SUFFICES ASSUME NEW u \in Text, SameLevel(t, u, SameAs)
               PROVE  Canon[t] = Canon[u]
    BY <1>6, SameSolves, Zenon DEF Agrees
  <2>1. t.kind = u.kind
    BY Zenon DEF SameLevel
  <2>2. CASE t.kind = "literal"
    <3>1. Scalar(t.literal) = Scalar(u.literal)
      BY <2>2, Zenon DEF SameLevel
    <3>2. Canon[t] = <<ScalarToken(Scalar(t.literal))>> /\ Canon[u] = <<ScalarToken(Scalar(u.literal))>>
      BY <1>6, <2>1, <2>2, Empty, CanonCases, Zenon
    <3>3. QED
      BY <3>1, <3>2, Zenon
  <2>3. CASE t.kind = "array"
    <3>1. Len(t.items) = Len(u.items) /\ \A i \in DOMAIN t.items : u.items[i] \in SameAs[t.items[i]]
      BY <2>3, Zenon DEF SameLevel
    <3>2. QED
      BY <1>5, <1>6, <2>1, <2>3, <3>1, ArrayAgrees, Zenon
  <2>4. CASE t.kind = "object"
    <3>1. /\ Keys(t.entries) = Keys(u.entries)
          /\ \A k \in Keys(t.entries) : LastOf(u.entries, k) \in SameAs[LastOf(t.entries, k)]
      BY <2>4, Zenon DEF SameLevel
    <3>2. QED
      BY <1>5, <1>6, <2>1, <2>4, <3>1, ObjectAgrees, Zenon
  <2>5. QED
    BY <1>6, <2>2, <2>3, <2>4, PartsShallow, Zenon
<1>10. QED
  BY <1>6, <1>8, <1>9, Zenon

(***************************************************************************)
(* What is written of two texts is the same exactly if they mean the same, *)
(* whichever order each one's map iterates in.                             *)
(***************************************************************************)
LEMMA CanonicalEqualIffSame ==
  ASSUME NEW t \in Text, NEW u \in Text, NEW o, NEW p
  PROVE  WriteCanonical(o)[t] = WriteCanonical(p)[u] <=> u \in SameAs[t]
<1>1. WriteCanonical(o)[t] = Canon[t]
  BY CanonicalForgetsMapOrder, Zenon DEF Canon
<1>2. WriteCanonical(p)[u] = Canon[u]
  BY CanonicalForgetsMapOrder, Zenon DEF Canon
<1>3. Canon[t] = Canon[u] => u \in SameAs[t]
  <2>1. Decodes(t)
    BY CanonicalDecides, Zenon
  <2>2. \A a, b \in Seq(Token) : Canon[t] \o a = Canon[u] \o b => u \in SameAs[t]
    BY <2>1, Zenon DEF Decodes
  <2>3. Canon[t] \o <<>> = Canon[u] \o <<>> => u \in SameAs[t]
    BY <2>2, Empty, Zenon
  <2>4. QED
    BY <2>3, Zenon
<1>4. u \in SameAs[t] => Canon[t] = Canon[u]
  BY CanonicalDecides, Zenon DEF Agrees
<1>5. QED
  BY <1>1, <1>2, <1>3, <1>4, Zenon

---------------------------------------------------------------------------
(* compute.                                                                *)

(***************************************************************************)
(* compute, over every request: two fingerprints are equal exactly if the  *)
(* requests are the same, whichever map order each was computed with.      *)
(***************************************************************************)
THEOREM ComputeEqualIffSame ==
  ASSUME NEW r \in Sent, NEW s \in Sent, NEW o, NEW p
  PROVE  Compute(r, o) = Compute(s, p) <=> Same(r, s)
<1> DEFINE v == <<Mark("v1")>>
           c == WriteCanonical(o)[r.payload]
           d == WriteCanonical(p)[s.payload]
<1>1. /\ r.source \in Seq(Byte) /\ r.event_type \in Seq(Byte) /\ r.payload \in Text
      /\ s.source \in Seq(Byte) /\ s.event_type \in Seq(Byte) /\ s.payload \in Text
  BY SentAssumption
<1>2. \A a \in Seq(Byte) : a \in Seq(Token)
  BY TokenMembers
<1>3. v \in Seq(Token)
  BY TokenMembers, OneToken, Zenon
<1>4. c \in Seq(Token) /\ d \in Seq(Token)
  <2>1. c = Canon[r.payload] /\ d = Canon[s.payload]
    <3>1. \A t \in Text : WriteCanonical(o)[t] = WriteCanonical("sorted")[t]
      BY CanonicalForgetsMapOrder, Zenon
    <3>2. \A t \in Text : WriteCanonical(p)[t] = WriteCanonical("sorted")[t]
      BY CanonicalForgetsMapOrder, Zenon
    <3>3. QED
      BY <1>1, <3>1, <3>2, Zenon DEF Canon
  <2>2. Canon[r.payload] \in Seq(Token) /\ Canon[s.payload] \in Seq(Token)
    BY <1>1, Empty, CanonCases, Zenon
  <2>3. QED
    BY <2>1, <2>2, Zenon
<1>5. c = d <=> s.payload \in SameAs[r.payload]
  BY <1>1, CanonicalEqualIffSame, SMT
<1>6. /\ Compute(r, o) = Framed(v, r.source, r.event_type, c)
      /\ Compute(s, p) = Framed(v, s.source, s.event_type, d)
  BY Zenon DEF Compute, Framed
<1> HIDE DEF v, c, d
<1>7. ASSUME Compute(r, o) = Compute(s, p) PROVE Same(r, s)
  <2> DEFINE rs == r.source
             ss == s.source
             re == r.event_type
             se == s.event_type
  <2>1. rs \in Seq(Token) /\ re \in Seq(Token) /\ ss \in Seq(Token) /\ se \in Seq(Token)
    BY <1>1, <1>2, Zenon
  <2>2. Framed(v, rs, re, c) = Framed(v, ss, se, d)
    BY <1>6, <1>7, Zenon
  <2> HIDE DEF rs, ss, re, se
  <2>3. rs = ss /\ re = se /\ c = d
    <3>1. \A b, e \in Seq(Token) : \A k, f \in Seq(Token) : \A l, g \in Seq(Token) :
            Framed(v, b, k, l) = Framed(v, e, f, g) => b = e /\ k = f /\ l = g
      BY <1>3, FieldsDecode, Zenon
    <3>2. \A k, f \in Seq(Token) : \A l, g \in Seq(Token) :
            Framed(v, rs, k, l) = Framed(v, ss, f, g) => rs = ss /\ k = f /\ l = g
      BY <2>1, <3>1, Zenon
    <3>3. \A l, g \in Seq(Token) :
            Framed(v, rs, re, l) = Framed(v, ss, se, g) => rs = ss /\ re = se /\ l = g
      BY <2>1, <3>2, ZenonT(40)
    <3>4. QED
      BY <1>4, <2>2, <3>3, Zenon
  <2>4. QED
    BY <1>5, <2>3, Zenon DEF Same, rs, ss, re, se
<1>8. ASSUME Same(r, s) PROVE Compute(r, o) = Compute(s, p)
  <2>1. r.source = s.source /\ r.event_type = s.event_type /\ c = d
    BY <1>5, <1>8, Zenon DEF Same
  <2>2. QED
    BY <1>6, <2>1, Zenon
<1>9. QED
  BY <1>7, <1>8, Zenon

(***************************************************************************)
(* The admitted request and the one that arrives later are requests.       *)
(***************************************************************************)
BothSent == stored \in Sent /\ later \in Sent

(***************************************************************************)
(* Every later request's fingerprint equals the stored one exactly if the  *)
(* requests are the same: the comparison by which the store tells a retry  *)
(* from a key reused for something else is right for every payload.        *)
(***************************************************************************)
THEOREM FingerprintEqualIffSame == FingerprintSpec => []EqualIffSame
<1>1. FingerprintInit => BothSent
  BY DEF FingerprintInit, BothSent
<1>2. BothSent /\ [LaterRequest]_fingerprintVars => BothSent'
  BY DEF BothSent, LaterRequest, fingerprintVars
<1>3. BothSent => EqualIffSame
  BY ComputeEqualIffSame, Zenon DEF BothSent, EqualIffSame
<1>4. QED
  BY <1>1, <1>2, <1>3, PTL DEF FingerprintSpec
============================================================================
