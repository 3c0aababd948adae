----------------------------- MODULE SlCliProofs -----------------------------
(***************************************************************************)
(* Proofs about SlCli, for any names, files and printer, and about the     *)
(* tables it uses, for any request and any file.                           *)
(***************************************************************************)
EXTENDS SlCli, SequenceTheorems, FiniteSetTheorems, TLAPS

(* No request matches two routes of the table (httpserver.cpp:3-9), so the *)
(* order in which requestHandler tries them does not matter, and the names *)
(* that match binds (httpserver.h:22-62) are those of the route taken.     *)
THEOREM RoutesExclude ==
  ASSUME NEW r \in DOMAIN Routes, NEW s \in DOMAIN Routes, NEW method, NEW C, NEW parts \in Seq(Seq(C)),
         Match(r, method, parts), Match(s, method, parts)
  PROVE  r = s
<1> DEFINE len(t) == Len(Routes[t].pattern)
<1>1. r \in {"delete", "create", "list", "ping", "block", "invocation", "noblock"}
      /\ s \in {"delete", "create", "list", "ping", "block", "invocation", "noblock"}
  BY DEF Routes
<1>2. method = Routes[r].method /\ method = Routes[s].method /\ len(r) = len(s)
  BY DEF Match
<1>3. /\ Routes["delete"].method = "DELETE"
      /\ \A t \in {"create", "block", "noblock"} : Routes[t].method = "POST"
      /\ \A t \in {"list", "ping", "invocation"} : Routes[t].method = "GET"
  BY DEF Routes, Route
<1>4. /\ len("create") = 2 /\ len("noblock") = 3 /\ len("block") = 4
      /\ len("invocation") = 3 /\ len("list") = 2 /\ len("ping") = 2
  BY DEF Routes, Route, Head2, Variable
<1>7. /\ Routes["list"].pattern = <<<<>>, <<"actions">>>>
      /\ Routes["ping"].pattern = <<<<>>, <<"ping">>>>
  BY DEF Routes, Route, Head2
<1>5. <<"actions">> # Variable /\ <<"ping">> # Variable /\ <<"actions">> # <<"ping">>
  BY DEF Variable
<1>6. ASSUME Match("list", method, parts), Match("ping", method, parts) PROVE FALSE
  <2>1. 2 \in DOMAIN parts
    BY <1>7, <1>6 DEF Match
  <2>2. Routes["list"].pattern[2] \in {Variable, parts[2]}
    BY <1>6, <2>1 DEF Match
  <2>3. Routes["ping"].pattern[2] \in {Variable, parts[2]}
    BY <1>6, <2>1 DEF Match
  <2>4. Routes["list"].pattern[2] = <<"actions">> /\ Routes["ping"].pattern[2] = <<"ping">>
    BY <1>7
  <2> QED
    BY <1>5, <2>2, <2>3, <2>4
<1> HIDE DEF len
<1>8. CASE method = "DELETE"
  BY <1>1, <1>2, <1>3, <1>8
<1>9. CASE method = "POST"
  <2>1. r \in {"create", "block", "noblock"} /\ s \in {"create", "block", "noblock"}
    BY <1>1, <1>2, <1>3, <1>9
  <2> QED
    BY <1>2, <1>4, <2>1
<1>10. CASE method = "GET"
  <2>1. r \in {"list", "ping", "invocation"} /\ s \in {"list", "ping", "invocation"}
    BY <1>1, <1>2, <1>3, <1>10
  <2>2. (r = "invocation" <=> s = "invocation")
    BY <1>2, <1>4, <2>1
  <2> QED
    BY <1>6, <2>1, <2>2
<1> QED
  BY <1>1, <1>2, <1>3, <1>8, <1>9, <1>10

(* A byte of a group is in two characters that follow each other.          *)
LEMMA GroupRoundTrip ==
  ASSUME NEW a \in [1..3 -> Byte], NEW b \in [1..4 -> Nat], NEW j \in 1..3,
         b[j] = a3_to_a4(a)[j], b[j + 1] = a3_to_a4(a)[j + 1]
  PROVE  a4_to_a3(b)[j] = a[j]
<1> DEFINE x == a[1]
           y == a[2]
           z == a[3]
<1>1. x \in Byte /\ y \in Byte /\ z \in Byte
  OBVIOUS
<1>2. /\ a3_to_a4(a)[1] = x \div 4
      /\ a3_to_a4(a)[2] = ((x % 4) * 16) + (y \div 16)
      /\ a3_to_a4(a)[3] = ((y % 16) * 4) + (z \div 64)
      /\ a3_to_a4(a)[4] = z % 64
  BY DEF a3_to_a4
<1>3. /\ a4_to_a3(b)[1] = ((b[1] * 4) + ((b[2] \div 16) % 4)) % 256
      /\ a4_to_a3(b)[2] = (((b[2] % 16) * 16) + ((b[3] \div 4) % 16)) % 256
      /\ a4_to_a3(b)[3] = (((b[3] % 4) * 64) + b[4]) % 256
  BY DEF a4_to_a3
<1> HIDE DEF x, y, z
<1>4. CASE j = 1
  <2>1. b[1] = x \div 4 /\ b[2] = ((x % 4) * 16) + (y \div 16)
    BY <1>2, <1>4
  <2>2. ((((x \div 4) * 4) + (((((x % 4) * 16) + (y \div 16)) \div 16) % 4)) % 256) = x
    BY <1>1 DEF Byte
  <2> QED
    BY <1>3, <1>4, <2>1, <2>2 DEF x
<1>5. CASE j = 2
  <2>1. b[2] = ((x % 4) * 16) + (y \div 16) /\ b[3] = ((y % 16) * 4) + (z \div 64)
    BY <1>2, <1>5
  <2>2. (((((((x % 4) * 16) + (y \div 16)) % 16) * 16)
           + (((((y % 16) * 4) + (z \div 64)) \div 4) % 16)) % 256) = y
    BY <1>1 DEF Byte
  <2> QED
    BY <1>3, <1>5, <2>1, <2>2 DEF y
<1>6. CASE j = 3
  <2>1. b[3] = ((y % 16) * 4) + (z \div 64) /\ b[4] = z % 64
    BY <1>2, <1>6
  <2>2. ((((((y % 16) * 4) + (z \div 64)) % 4) * 64) + (z % 64)) % 256 = z
    BY <1>1 DEF Byte
  <2> QED
    BY <1>3, <1>6, <2>1, <2>2 DEF z
<1> QED
  BY <1>4, <1>5, <1>6

LEMMA AlphabetRoundTrip ==
  ASSUME NEW v \in 0..63
  PROVE  /\ b64_lookup(kBase64Alphabet(v)) = v
         /\ kBase64Alphabet(v) \in Nat /\ kBase64Alphabet(v) # Pad
<1>1. CASE v \in 0..25
  <2>1. kBase64Alphabet(v) = v + 65
    BY <1>1 DEF kBase64Alphabet
  <2>2. b64_lookup(v + 65) = v
    BY <1>1 DEF b64_lookup
  <2> QED
    BY <1>1, <2>1, <2>2 DEF Pad
<1>2. CASE v \in 26..51
  <2>1. kBase64Alphabet(v) = v + 71
    BY <1>2 DEF kBase64Alphabet
  <2>2. b64_lookup(v + 71) = v
    BY <1>2 DEF b64_lookup
  <2> QED
    BY <1>2, <2>1, <2>2 DEF Pad
<1>3. CASE v \in 52..61
  <2>1. kBase64Alphabet(v) = v - 4
    BY <1>3 DEF kBase64Alphabet
  <2>2. b64_lookup(v - 4) = v
    BY <1>3 DEF b64_lookup
  <2> QED
    BY <1>3, <2>1, <2>2 DEF Pad
<1>4. CASE v \in {62, 63}
  BY <1>4 DEF kBase64Alphabet, b64_lookup, Pad
<1> QED
  BY <1>1, <1>2, <1>3, <1>4

LEMMA SextetsOfGroup ==
  ASSUME NEW a \in [1..3 -> Byte], NEW j \in 1..4
  PROVE  a3_to_a4(a)[j] \in 0..63
<1>1. a[1] \in 0..255 /\ a[2] \in 0..255 /\ a[3] \in 0..255
  BY DEF Byte
<1>2. CASE j = 1
  BY <1>1, <1>2 DEF a3_to_a4
<1>3. CASE j = 2
  BY <1>1, <1>3 DEF a3_to_a4
<1>4. CASE j = 3
  BY <1>1, <1>4 DEF a3_to_a4
<1>5. CASE j = 4
  BY <1>1, <1>5 DEF a3_to_a4
<1> QED
  BY <1>2, <1>3, <1>4, <1>5

LEMMA LookupIsNat ==
  ASSUME NEW c \in Nat
  PROVE  b64_lookup(c) \in Nat
<1>1. CASE c \in 65..90
  BY <1>1 DEF b64_lookup
<1>2. CASE c \in 97..122
  BY <1>2 DEF b64_lookup
<1>3. CASE c \in 48..57
  BY <1>3 DEF b64_lookup
<1>4. CASE c \notin 65..90 /\ c \notin 97..122 /\ c \notin 48..57
  BY <1>4 DEF b64_lookup
<1> QED
  BY <1>1, <1>2, <1>3, <1>4

(* What Encode returns: as many characters as four to a group, of which    *)
(* those behind Groups + Len are the padding.                              *)
LEMMA Encoded ==
  ASSUME NEW in \in Seq(Byte), NEW G, G = Groups(in, 3), NEW n, n = Len(in)
  PROVE  /\ G \in Nat /\ n \in Nat /\ n \in (3 * G - 2)..(3 * G)
         /\ Encode(in) \in Seq(Nat) /\ Len(Encode(in)) = 4 * G
         /\ \A i \in 1..(4 * G) : Encode(in)[i] = Pad <=> i > G + n
         /\ \A m \in 1..G, j \in 1..4 :
               4 * (m - 1) + j <= G + n =>
                 b64_lookup(Encode(in)[4 * (m - 1) + j]) = a3_to_a4(Group(in, m, 3))[j]
         /\ \A m \in 1..G : Group(in, m, 3) \in [1..3 -> Byte]
<1>1. n \in Nat /\ G \in Nat /\ n \in (3 * G - 2)..(3 * G)
  BY DEF Groups
<1>2. ASSUME NEW m \in 1..G PROVE Group(in, m, 3) \in [1..3 -> Byte]
  <2>1. Group(in, m, 3) = [i \in 1..3 |-> IF (m - 1) * 3 + i <= n THEN in[(m - 1) * 3 + i] ELSE 0]
    BY DEF Group
  <2>2. ASSUME NEW i \in 1..3
        PROVE  (IF (m - 1) * 3 + i <= n THEN in[(m - 1) * 3 + i] ELSE 0) \in Byte
    <3>1. CASE (m - 1) * 3 + i <= n
      <4>1. (m - 1) * 3 + i \in 1..Len(in)
        BY <1>1, <3>1
      <4> QED
        BY <3>1, <4>1
    <3>2. CASE ~((m - 1) * 3 + i <= n)
      BY <3>2 DEF Byte
    <3> QED
      BY <3>1, <3>2
  <2> QED
    BY <2>1, <2>2
<1> DEFINE value(i) == a3_to_a4(Group(in, (i + 3) \div 4, 3))[i - 4 * ((i + 3) \div 4 - 1)]
<1>3. ASSUME NEW i \in 1..(4 * G) PROVE value(i) \in 0..63
  <2>1. (i + 3) \div 4 \in 1..G /\ i - 4 * ((i + 3) \div 4 - 1) \in 1..4
    BY <1>1
  <2> QED
    BY <1>2, <2>1, SextetsOfGroup
<1>4. Encode(in) = [i \in 1..(4 * G) |->
                      IF i > G * 4 - (3 * G - n) THEN Pad ELSE kBase64Alphabet(value(i))]
  BY DEF Encode
<1>5. ASSUME NEW i \in 1..(4 * G)
      PROVE  Encode(in)[i] = IF i > G + n THEN Pad ELSE kBase64Alphabet(value(i))
  <2>1. G * 4 - (3 * G - n) = G + n
    BY <1>1
  <2> QED
    BY <1>4, <2>1
<1> HIDE DEF value
<1>6. ASSUME NEW i \in 1..(4 * G)
      PROVE  Encode(in)[i] \in Nat /\ (Encode(in)[i] = Pad <=> i > G + n)
  <2>1. Pad \in Nat
    BY DEF Pad
  <2>2. kBase64Alphabet(value(i)) \in Nat /\ kBase64Alphabet(value(i)) # Pad
    BY <1>3, AlphabetRoundTrip
  <2>3. CASE i > G + n
    BY <1>5, <2>1, <2>3
  <2>4. CASE ~(i > G + n)
    BY <1>5, <2>2, <2>4
  <2> QED
    BY <2>3, <2>4
<1>7. Encode(in) \in Seq(Nat) /\ Len(Encode(in)) = 4 * G
  <2>1. DOMAIN Encode(in) = 1..(4 * G) /\ 4 * G \in Nat
    BY <1>1, <1>4
  <2>2. Encode(in) = [i \in 1..(4 * G) |-> Encode(in)[i]]
    BY <1>4, <2>1
  <2>3. Encode(in) \in [1..(4 * G) -> Nat]
    BY <1>6, <2>2
  <2> QED
    BY <2>1, <2>3
<1>8. ASSUME NEW m \in 1..G, NEW j \in 1..4, 4 * (m - 1) + j <= G + n
      PROVE  b64_lookup(Encode(in)[4 * (m - 1) + j]) = a3_to_a4(Group(in, m, 3))[j]
  <2> DEFINE i == 4 * (m - 1) + j
  <2>1. i \in 1..(4 * G) /\ (i + 3) \div 4 = m /\ i - 4 * (m - 1) = j /\ ~(i > G + n)
    BY <1>1, <1>8
  <2>2. value(i) = a3_to_a4(Group(in, m, 3))[j]
    BY <2>1 DEF value
  <2> HIDE DEF i
  <2>3. b64_lookup(Encode(in)[i]) = value(i)
    BY <1>3, <1>5, <2>1, AlphabetRoundTrip
  <2> QED
    BY <2>2, <2>3 DEF i
<1> QED
  BY <1>1, <1>2, <1>6, <1>7, <1>8

(* What Decode makes of what Encode has made.                              *)
LEMMA Decoded ==
  ASSUME NEW in \in Seq(Byte)
  PROVE  Written(Encode(in)) = in /\ DecodedLength(Encode(in)) = Len(in)
<1> DEFINE n == Len(in)
           G == Groups(in, 3)
           e == Encode(in)
           L == G + n
           text == SubSeq(e, 1, L)
<1>1. /\ G \in Nat /\ n \in Nat /\ n \in (3 * G - 2)..(3 * G)
      /\ e \in Seq(Nat) /\ Len(e) = 4 * G
      /\ \A i \in 1..(4 * G) : e[i] = Pad <=> i > L
      /\ \A m \in 1..G, j \in 1..4 :
            4 * (m - 1) + j <= L =>
              b64_lookup(e[4 * (m - 1) + j]) = a3_to_a4(Group(in, m, 3))[j]
      /\ \A m \in 1..G : Group(in, m, 3) \in [1..3 -> Byte]
  BY Encoded
<1> HIDE DEF n, G, e, L
<1>2. L \in 0..(4 * G) /\ L \in Nat
  BY <1>1 DEF L
<1>3. /\ text \in Seq(Nat) /\ Len(text) = L
      /\ \A i \in 1..L : text[i] = e[i]
  BY <1>1, <1>2
<1> DEFINE pads == {i \in 1..Len(e) : e[i] = Pad}
           body == IF pads # {} THEN Min(pads) ELSE 0
<1>4. (IF body = 0 THEN e ELSE SubSeq(e, 1, body - 1)) = text
  <2>1. pads = (L + 1)..(4 * G)
    BY <1>1, <1>2
  <2>2. CASE L = 4 * G
    <3>1. pads = {}
      BY <1>1, <2>1, <2>2
    <3>2. text = e
      BY <1>1, <2>2
    <3> QED
      BY <3>1, <3>2
  <2>3. CASE L < 4 * G
    <3>1. L + 1 \in pads /\ \A i \in pads : L + 1 <= i
      BY <1>1, <1>2, <2>1, <2>3
    <3>2. \A i \in pads : (\A j \in pads : i <= j) => i = L + 1
      BY <1>1, <1>2, <2>1, <3>1
    <3>3. Min(pads) = L + 1
      BY <3>1, <3>2 DEF Min
    <3>4. body = L + 1
      BY <3>1, <3>3
    <3>5. body # 0 /\ body - 1 = L
      BY <1>2, <3>4
    <3> HIDE DEF body
    <3> QED
      BY <3>5
  <2>4. L = 4 * G \/ L < 4 * G
    BY <1>1, <1>2
  <2> QED
    BY <2>2, <2>3, <2>4
<1> DEFINE bytes(m) == a4_to_a3([i \in 1..4 |-> b64_lookup(Group(text, m, 4)[i])])
           rest == L % 4
           size == 3 * (L \div 4) + (IF rest = 0 THEN 0 ELSE rest - 1)
<1>5. Written(e) = [i \in 1..size |-> bytes((i + 2) \div 3)[i - 3 * ((i + 2) \div 3 - 1)]]
  BY <1>3, <1>4 DEF Written, SelectInSeq
<1>6. size = n
  BY <1>1 DEF L
<1>7. ASSUME NEW i \in 1..n
      PROVE  bytes((i + 2) \div 3)[i - 3 * ((i + 2) \div 3 - 1)] = in[i]
  <2> DEFINE m == (i + 2) \div 3
             j == i - 3 * (m - 1)
             a == Group(in, m, 3)
             b == [k \in 1..4 |-> b64_lookup(Group(text, m, 4)[k])]
  <2>1. m \in 1..G /\ j \in 1..3 /\ i = 3 * (m - 1) + j /\ 4 * (m - 1) + j + 1 <= L
    BY <1>1 DEF L
  <2> HIDE DEF m, j
  <2>2. ASSUME NEW k \in 1..4, 4 * (m - 1) + k <= L
        PROVE  b64_lookup(Group(text, m, 4)[k]) = a3_to_a4(a)[k]
    <3>1. 4 * (m - 1) + k = (m - 1) * 4 + k /\ 4 * (m - 1) + k \in 1..L
      BY <1>1, <1>2, <2>1, <2>2
    <3>2. Group(text, m, 4)[k] = text[4 * (m - 1) + k]
      BY <1>3, <3>1 DEF Group
    <3>3. Group(text, m, 4)[k] = e[4 * (m - 1) + k]
      BY <1>3, <3>1, <3>2
    <3> QED
      BY <1>1, <2>1, <2>2, <3>3
  <2>3. b[j] = a3_to_a4(a)[j] /\ b[j + 1] = a3_to_a4(a)[j + 1]
    BY <1>2, <2>1, <2>2
  <2>4. b \in [1..4 -> Nat]
    <3>1. ASSUME NEW k \in 1..4 PROVE Group(text, m, 4)[k] \in Nat
      <4>1. CASE (m - 1) * 4 + k <= L
        <5>1. (m - 1) * 4 + k \in 1..L
          BY <1>1, <1>2, <2>1, <4>1
        <5> QED
          BY <1>3, <4>1, <5>1 DEF Group
      <4>2. CASE ~((m - 1) * 4 + k <= L)
        BY <1>3, <4>2 DEF Group
      <4> QED
        BY <4>1, <4>2
    <3> QED
      BY <3>1, LookupIsNat
  <2>5. a[j] = in[i]
    BY <2>1 DEF Group, n
  <2>6. a4_to_a3(b)[j] = a[j]
    BY <1>1, <2>1, <2>3, <2>4, GroupRoundTrip
  <2> QED
    BY <2>5, <2>6 DEF m, j
<1>8. Written(e) = in
  BY <1>5, <1>6, <1>7 DEF n
<1>9. DecodedLength(e) = n
  <2> DEFINE chars == {i \in 1..Len(e) : e[i] # Pad}
  <2>1. chars = 1..L
    BY <1>1, <1>2
  <2>2. CASE e = <<>>
    <3>1. G = 0 /\ n = 0
      BY <1>1, <2>2
    <3> QED
      BY <2>2, <3>1 DEF DecodedLength
  <2>3. CASE e # <<>>
    <3>1. G > 0 /\ L > 0
      BY <1>1, <2>3 DEF L
    <3>2. L \in chars /\ \A i \in chars : L >= i
      BY <1>2, <2>1, <3>1
    <3>3. \A i \in chars : (\A k \in chars : i >= k) => i = L
      BY <1>2, <2>1, <3>2
    <3>4. Max(chars) = L
      BY <3>2, <3>3 DEF Max
    <3>5. DecodedLength(e) = (6 * Len(e)) \div 8 - (Len(e) - L)
      BY <2>3, <3>2, <3>4 DEF DecodedLength, SelectLastInSeq
    <3> QED
      BY <1>1, <3>5 DEF L
  <2> QED
    BY <2>2, <2>3
<1> QED
  BY <1>8, <1>9 DEF n, e

-----------------------------------------------------------------------------
(* The commands *)

LEMMA CliInvInit == Init => CliInv
<1> SUFFICES ASSUME Init PROVE CliInv
  OBVIOUS
<1>1. 1 \in 1..MaxLives /\ 1 \in 1..(MaxId + 1) /\ 0 \in 0..MaxId
  BY CliConstants
<1>2. CliTypeOK
  BY <1>1 DEF Init, CliTypeOK, Ids
<1>3. OwnResult
  BY DEF Init, OwnResult, Reply
<1> QED
  BY <1>2, <1>3 DEF Init, CliInv

(* What is left alone keeps the invariant, whatever the last reply says of *)
(* a command that is not resolve.                                          *)
LEMMA RingAloneKeepsInv ==
  ASSUME CliInv, saved' \in BOOLEAN, stored' \subseteq Names,
         UNCHANGED <<life, counter, runs, started, pending, results, asked>>,
         reply'.command = "resolve" => reply'.out # "result"
  PROVE  CliInv'
<1>1. CliTypeOK'
  BY DEF CliInv, CliTypeOK, Ids, Told, Exact
<1>2. OwnResult'
  BY DEF OwnResult
<1> QED
  BY <1>1, <1>2 DEF CliInv

LEMMA StartRunKeepsInv ==
  ASSUME CliInv, NEW name, NEW action, NEW block, StartRun(name, action, block)
  PROVE  CliInv'
<1> DEFINE run == <<life, counter, runs + 1>>
<1> USE CliConstants
<1>1. counter \in 1..MaxId /\ runs + 1 = counter /\ life \in 1..MaxLives /\ runs \in 0..MaxId
  BY DEF CliInv, CliTypeOK, StartRun, Accept
<1>2. counter' = counter + 1 /\ runs' = runs + 1
      /\ UNCHANGED <<saved, stored, life, results, asked>>
  BY DEF StartRun, Accept
<1>3. started' \subseteq started \union {run}
      /\ pending' \subseteq pending \union {<<counter, runs + 1>>}
  BY DEF StartRun, Accept
<1>4. reply'.command = "run"
  BY DEF StartRun, Accept, Reply
<1>5. CliTypeOK'
  <2>1. run \in (1..MaxLives) \X (1..MaxId) \X (1..MaxId)
        /\ <<counter, runs + 1>> \in (1..MaxId) \X (1..MaxId)
    BY <1>1
  <2>2. counter' \in 1..(MaxId + 1) /\ runs' \in 0..MaxId
    BY <1>1, <1>2
  <2>3. asked' \subseteq {Told(n) : n \in 1..MaxId} /\ Ids(results)' \intersect asked' = {}
    BY <1>2 DEF CliInv, CliTypeOK, Ids
  <2> QED
    BY <1>2, <1>3, <2>1, <2>2, <2>3 DEF CliInv, CliTypeOK, Told, Exact
<1>6. OwnResult'
  BY <1>4 DEF OwnResult
<1>7. counter' = runs' + 1
  BY <1>1, <1>2
<1>8. \A r \in started' : r[2] = r[3]
  BY <1>1, <1>3 DEF CliInv
<1>9. \A r \in pending' \union results' : r[1] = r[2]
  BY <1>1, <1>2, <1>3 DEF CliInv
<1> QED
  BY <1>5, <1>6, <1>7, <1>8, <1>9 DEF CliInv

LEMMA FinishKeepsInv ==
  ASSUME CliInv, NEW run \in pending, Finish(run)
  PROVE  CliInv'
<1>1. UNCHANGED <<saved, stored, life, counter, runs, started>>
      /\ pending' \subseteq pending /\ asked' = asked \ {run[1]}
      /\ results' = IF run[1] \in asked THEN results ELSE results \union {run}
  BY DEF Finish
<1>2. CliTypeOK'
  <2>1. Ids(results)' \intersect asked' = {}
    BY <1>1 DEF CliInv, CliTypeOK, Ids
  <2>2. results' \subseteq (1..MaxId) \X (1..MaxId)
    BY <1>1 DEF CliInv, CliTypeOK
  <2> QED
    BY <1>1, <2>1, <2>2 DEF CliInv, CliTypeOK, Told, Exact
<1>3. OwnResult'
  BY DEF OwnResult, Finish, Reply
<1> QED
  BY <1>1, <1>2, <1>3 DEF CliInv

LEMMA ResolveKeepsInv ==
  ASSUME CliInv, NEW run \in started, Resolve(run)
  PROVE  CliInv'
<1> DEFINE number == Told(run[2])
           there == {result \in results : result[1] = number}
<1>1. UNCHANGED <<saved, stored, life, counter, runs, started>>
  BY DEF Resolve
<1>2. run \in (1..MaxLives) \X (1..MaxId) \X (1..MaxId) /\ run[2] = run[3]
  BY DEF CliInv, CliTypeOK
<1>3. CASE \E result \in results \union pending :
              /\ result[1] = number
              /\ reply' = [Reply("resolve", run, "result") EXCEPT !.got = result[2]]
              /\ results' = results \ {result} /\ pending' = pending \ {result}
              /\ UNCHANGED asked
  <2>1. PICK result \in results \union pending :
              /\ result[1] = number
              /\ reply' = [Reply("resolve", run, "result") EXCEPT !.got = result[2]]
              /\ results' = results \ {result} /\ pending' = pending \ {result}
              /\ UNCHANGED asked
    BY <1>3
  <2>2. Ids(results)' \intersect asked' = {}
    BY <2>1 DEF CliInv, CliTypeOK, Ids
  <2>3. CliTypeOK'
    BY <1>1, <2>1, <2>2 DEF CliInv, CliTypeOK, Told, Exact
  <2>4. reply'.got = result[2] /\ reply'.subject = run
    BY <2>1 DEF Reply
  <2>5. Exact(run[2]) => result[2] = run[3]
    BY <1>2, <2>1 DEF CliInv, Told
  <2>6. OwnResult'
    BY <2>4, <2>5 DEF OwnResult, Exact
  <2> QED
    BY <1>1, <2>1, <2>3, <2>6 DEF CliInv
<1>4. CASE /\ there = {} /\ asked' = asked \union {number}
           /\ reply' = Reply("resolve", run, "timeout")
           /\ UNCHANGED <<results, pending>>
  <2>1. Ids(results)' \intersect asked' = {}
    BY <1>4 DEF CliInv, CliTypeOK, Ids
  <2>2. asked' \subseteq {Told(n) : n \in 1..MaxId}
    BY <1>2, <1>4 DEF CliInv, CliTypeOK
  <2>3. CliTypeOK'
    BY <1>1, <1>4, <2>1, <2>2 DEF CliInv, CliTypeOK, Told, Exact
  <2>4. OwnResult'
    BY <1>4 DEF OwnResult, Reply
  <2> QED
    BY <1>1, <1>4, <2>3, <2>4 DEF CliInv
<1> QED
  BY <1>3, <1>4 DEF Resolve

LEMMA StartAgainKeepsInv ==
  ASSUME CliInv, NEW answer, StartAgain(answer), answer.command # "resolve"
  PROVE  CliInv'
<1> USE CliConstants
<1>1. life' \in 1..MaxLives /\ counter' = 1 /\ runs' = 0 /\ stored' \subseteq Names
      /\ UNCHANGED <<saved, started>>
  BY DEF CliInv, CliTypeOK, StartAgain
<1>2. pending' = {} /\ results' = {} /\ asked' = {} /\ reply' = answer
  BY DEF StartAgain
<1>3. CliTypeOK'
  BY <1>1, <1>2 DEF CliInv, CliTypeOK, Ids
<1>4. OwnResult'
  BY <1>2 DEF OwnResult
<1> QED
  BY <1>1, <1>2, <1>3, <1>4 DEF CliInv

LEMMA RestartKeepsInv ==
  ASSUME CliInv, Restart
  PROVE  CliInv'
<1>1. Reply("start", <<>>, "OK").command # "resolve"
  BY DEF Reply
<1> QED
  BY <1>1, StartAgainKeepsInv DEF Restart

(* Creating an action, by its own command or by a run without a name, is   *)
(* none of the ring's business.                                            *)
LEMMA CreateKeepsInv ==
  ASSUME CliInv, NEW name \in Names, NEW file \in Files, Create(name, file)
  PROVE  CliInv'
<1>1. UNCHANGED <<saved, life, counter, runs, started, pending, results, asked>>
  BY DEF Create, CreateNamed, Stays
<1>2. stored' \subseteq Names /\ saved' \in BOOLEAN
  BY <1>1 DEF Create, CreateNamed, CliInv, CliTypeOK
<1>3. reply'.command = "create"
  BY DEF Create, CreateNamed, Reply
<1> QED
  BY <1>1, <1>2, <1>3, RingAloneKeepsInv

(* What a run comes to.                                                    *)
RunOutcome(name) ==
    \/ \E out \in {"no request", "refused", "not found"} : Untouched(name, out)
    \/ \E action, block : StartRun(name, action, block)
    \/ \E other \in Names, compiles \in BOOLEAN :
          CreateNamed(other, compiles, Reply("run", name, ""))
    \/ StartAgain(Reply("run", name, "no answer"))

LEMMA RunComesTo ==
  ASSUME NEW name, NEW block, NEW body, Run(name, block, body)
  PROVE  RunOutcome(name)
BY DEF Run, RunOutcome

LEMMA RunReplies ==
  ASSUME NEW name, RunOutcome(name)
  PROVE  reply'.command = "run" /\ reply'.subject = name
<1>1. ASSUME NEW out, Untouched(name, out)
      PROVE  reply'.command = "run" /\ reply'.subject = name
  BY <1>1 DEF Untouched, Reply
<1>2. ASSUME NEW action, NEW block, StartRun(name, action, block)
      PROVE  reply'.command = "run" /\ reply'.subject = name
  BY <1>2 DEF StartRun, Accept, Reply
<1>3. ASSUME NEW other, NEW compiles, CreateNamed(other, compiles, Reply("run", name, ""))
      PROVE  reply'.command = "run" /\ reply'.subject = name
  BY <1>3 DEF CreateNamed, Reply
<1>4. ASSUME StartAgain(Reply("run", name, "no answer"))
      PROVE  reply'.command = "run" /\ reply'.subject = name
  BY <1>4 DEF StartAgain, Reply
<1> QED
  BY <1>1, <1>2, <1>3, <1>4 DEF RunOutcome

LEMMA RunKeepsInv ==
  ASSUME CliInv, NEW name, RunOutcome(name)
  PROVE  CliInv'
<1>1. ASSUME NEW action, NEW block, StartRun(name, action, block)
      PROVE  CliInv'
  BY <1>1, StartRunKeepsInv
<1>2. ASSUME NEW out \in {"no request", "refused", "not found"}, Untouched(name, out)
      PROVE  CliInv'
  <2>1. reply'.command = "run"
    BY <1>2 DEF Untouched, Reply
  <2>2. stored' \subseteq Names /\ saved' \in BOOLEAN
    BY <1>2 DEF Untouched, Stays, CliInv, CliTypeOK
  <2> QED
    BY <1>2, <2>1, <2>2, RingAloneKeepsInv DEF Untouched, Stays
<1>3. ASSUME NEW other \in Names, NEW compiles \in BOOLEAN,
             CreateNamed(other, compiles, Reply("run", name, ""))
      PROVE  CliInv'
  <2>1. reply'.command = "run"
    BY <1>3 DEF CreateNamed, Reply
  <2>2. stored' \subseteq Names /\ saved' \in BOOLEAN
    BY <1>3 DEF CreateNamed, Stays, CliInv, CliTypeOK
  <2>3. Stays
    BY <1>3 DEF CreateNamed
  <2> QED
    BY <2>1, <2>2, <2>3, RingAloneKeepsInv DEF Stays
<1>4. ASSUME StartAgain(Reply("run", name, "no answer"))
      PROVE  CliInv'
  <2>1. Reply("run", name, "no answer").command # "resolve"
    BY DEF Reply
  <2> QED
    BY <1>4, <2>1, StartAgainKeepsInv
<1> QED
  BY <1>1, <1>2, <1>3, <1>4 DEF RunOutcome

LEMMA CliInvNext == CliInv /\ [Next]_vars => CliInv'
<1> SUFFICES ASSUME CliInv, [Next]_vars PROVE CliInv'
  OBVIOUS
<1>1. CASE UNCHANGED vars
  BY <1>1 DEF vars, CliInv, CliTypeOK, OwnResult, Ids, Told, Exact
<1>2. ASSUME NEW command \in {"connect", "ping", "run", "create", "delete", "list", "resolve"},
             Ping(command) \/ Unconnected(command) \/ List \/ \E name \in Names : Delete(name)
      PROVE  CliInv'
  <2>1. UNCHANGED <<life, counter, runs, started, pending, results, asked>>
    BY <1>2 DEF Ping, Unconnected, List, Delete, Stays
  <2>2. stored' \subseteq Names /\ saved' \in BOOLEAN
    BY <1>2 DEF Ping, Unconnected, List, Delete, Stays, CliInv, CliTypeOK
  <2>3. reply'.command = "resolve" => reply'.out # "result"
    <3>1. CASE Ping(command)
      BY <3>1 DEF Ping, Reply
    <3>2. CASE Unconnected(command)
      BY <3>2 DEF Unconnected, Reply
    <3>3. CASE List
      BY <3>3 DEF List, Reply
    <3>4. ASSUME NEW name \in Names, Delete(name) PROVE reply'.command = "delete"
      BY <3>4 DEF Delete, Reply
    <3> QED
      BY <1>2, <3>1, <3>2, <3>3, <3>4
  <2> QED
    BY <2>1, <2>2, <2>3, RingAloneKeepsInv
<1>3. ASSUME NEW name \in Names, NEW block \in BOOLEAN, NEW body \in Bodies,
             Run(name, block, body)
      PROVE  CliInv'
  BY <1>3, RunComesTo, RunKeepsInv
<1> QED
  BY <1>1, <1>2, <1>3, FinishKeepsInv, ResolveKeepsInv, RestartKeepsInv,
     CreateKeepsInv DEF Next

(* Nobody is given the result of another run than the one asked for, as    *)
(* long as the server lives and the printer writes every digit: the id of  *)
(* a run (asyncqueue.h:23), its entry in the ring and the number that      *)
(* slcli shows go together.                                                *)
THEOREM RunsKeepTheirNumbers == Spec => [](CliTypeOK /\ OwnResult)
<1>1. Spec => []CliInv
  BY CliInvInit, CliInvNext, PTL DEF Spec
<1>2. CliInv => CliTypeOK /\ OwnResult
  BY DEF CliInv
<1> QED
  BY <1>1, <1>2, PTL

LEMMA OtherRepliesAreNoUploads ==
  ASSUME [Next]_vars,
         ~(\E name \in Names, file \in Files : Create(name, file)), UploadIntact
  PROVE  UploadIntact'
<1>1. CASE UNCHANGED vars
  BY <1>1 DEF vars, UploadIntact
<1>2. ASSUME NEW command \in {"ping", "run", "create", "delete", "list", "resolve"},
             Unconnected(command)
      PROVE  UploadIntact'
  BY <1>2 DEF Unconnected, Reply, UploadIntact
<1>3. ASSUME NEW command \in {"connect", "ping"}, Ping(command)
      PROVE  UploadIntact'
  BY <1>3 DEF Ping, Reply, UploadIntact
<1>4. CASE List
  BY <1>4 DEF List, Reply, UploadIntact
<1>5. CASE Restart
  BY <1>5 DEF Restart, StartAgain, Reply, UploadIntact
<1>6. ASSUME NEW name \in Names, NEW block \in BOOLEAN, NEW body \in Bodies,
             Run(name, block, body)
      PROVE  UploadIntact'
  <2>1. reply'.command = "run"
    BY <1>6, RunComesTo, RunReplies
  <2> QED
    BY <2>1 DEF UploadIntact
<1>7. ASSUME NEW name \in Names, Delete(name)
      PROVE  UploadIntact'
  <2>1. reply'.command = "delete"
    BY <1>7 DEF Delete, Reply
  <2> QED
    BY <2>1 DEF UploadIntact
<1>8. ASSUME NEW run \in started, Resolve(run)
      PROVE  UploadIntact'
  <2>1. reply'.command = "resolve"
    BY <1>8 DEF Resolve, Reply
  <2> QED
    BY <2>1 DEF UploadIntact
<1>9. ASSUME NEW run \in pending, Finish(run)
      PROVE  UploadIntact'
  BY <1>9 DEF Finish, Reply, UploadIntact
<1> QED
  BY <1>1, <1>2, <1>3, <1>4, <1>5, <1>6, <1>7, <1>8, <1>9 DEF Next

(* Whatever bytes a source file has, of whatever length: the text that     *)
(* slcli sends is decoded by base64.h:97-146 to that file, into a string   *)
(* that DecodedLength (base64.h:207-216) has made exactly as long.         *)
THEOREM UploadsAreIntact == Spec => []UploadIntact
<1>1. Init => UploadIntact
  BY DEF Init, Reply, UploadIntact
<1>2. ASSUME UploadIntact, NEW name \in Names, NEW file \in Files, Create(name, file)
      PROVE  UploadIntact'
  <2>1. file \in Seq(Byte)
    BY CliConstants
  <2>2. reply'.got = <<file, Written(Encode(file)), DecodedLength(Encode(file))>>
    BY <1>2 DEF Create, CreateNamed, Reply, Uploads
  <2>3. reply'.got = <<file, file, Len(file)>>
    BY <2>1, <2>2, Decoded
  <2>4. reply'.got[1] = file /\ reply'.got[2] = file /\ reply'.got[3] = Len(file)
    BY <2>3
  <2> QED
    BY <2>4 DEF UploadIntact
<1>3. UploadIntact /\ [Next]_vars => UploadIntact'
  BY <1>2, OtherRepliesAreNoUploads
<1> QED
  BY <1>1, <1>3, PTL DEF Spec

-----------------------------------------------------------------------------
(* What utf8::append writes (Utf8.hpp:58-80) for what an escape can name   *)
(* decodes to it again: the leading byte tells the number of bytes, each   *)
(* other one is a continuation byte, and the bits put together are those   *)
(* of the character, in the shortest encoding.                             *)
THEOREM EscapesDecode ==
  ASSUME NEW cp \in Nat, cp < 65536
  PROVE  LET o == append(cp)
         IN  /\ o \in Seq(Byte)
             /\ \/ Len(o) = 1 /\ o[1] < 128 /\ o[1] = cp
                \/ /\ Len(o) = 2 /\ cp >= 128
                   /\ o[1] \in 192..223 /\ o[2] \in 128..191
                   /\ 64 * (o[1] - 192) + (o[2] - 128) = cp
                \/ /\ Len(o) = 3 /\ cp >= 2048
                   /\ o[1] \in 224..239 /\ o[2] \in 128..191 /\ o[3] \in 128..191
                   /\ 4096 * (o[1] - 224) + 64 * (o[2] - 128) + (o[3] - 128) = cp
<1> DEFINE one   == <<cp>>
           two   == <<192 + cp \div 64, 128 + (cp % 64)>>
           three == <<224 + cp \div 4096, 128 + ((cp \div 64) % 64), 128 + (cp % 64)>>
<1>0. append(cp) = IF cp < 128 THEN one ELSE IF cp < 2048 THEN two ELSE three
  BY DEF append
<1> HIDE DEF one, two, three
<1>1. CASE cp < 128
  <2>1. append(cp) = <<cp>>
    BY <1>0, <1>1 DEF one
  <2>2. cp \in Byte
    BY <1>1 DEF Byte
  <2>3. <<cp>> \in Seq(Byte) /\ Len(<<cp>>) = 1 /\ <<cp>>[1] = cp
    BY <2>2
  <2> QED
    BY <1>1, <2>1, <2>3
<1>2. CASE cp >= 128 /\ cp < 2048
  <2> DEFINE high == cp \div 64
             low  == cp % 64
             o    == <<192 + high, 128 + low>>
  <2>1. append(cp) = two
    BY <1>0, <1>2
  <2>2. append(cp) = o
    BY <2>1 DEF two
  <2>3. high \in 2..31 /\ low \in 0..63 /\ cp = 64 * high + low
    BY <1>2
  <2> HIDE DEF high, low
  <2>4. 192 + high \in Byte /\ 128 + low \in Byte
    BY <2>3 DEF Byte
  <2>5. o \in Seq(Byte) /\ Len(o) = 2 /\ o[1] = 192 + high /\ o[2] = 128 + low
    BY <2>4
  <2> HIDE DEF o
  <2>6. /\ o[1] \in 192..223 /\ o[2] \in 128..191 /\ cp >= 128
        /\ 64 * (o[1] - 192) + (o[2] - 128) = cp
    BY <1>2, <2>3, <2>5
  <2> QED
    BY <2>2, <2>5, <2>6
<1>3. CASE cp > 2047
  <2> DEFINE high == cp \div 4096
             mid  == (cp \div 64) % 64
             low  == cp % 64
             o    == <<224 + high, 128 + mid, 128 + low>>
  <2>1. append(cp) = three
    BY <1>0, <1>3
  <2>2. append(cp) = o
    BY <2>1 DEF three
  <2>3. high \in 0..15 /\ mid \in 0..63 /\ low \in 0..63
        /\ cp = 4096 * high + 64 * mid + low
    OBVIOUS
  <2> HIDE DEF high, mid, low
  <2>4. 224 + high \in Byte /\ 128 + mid \in Byte /\ 128 + low \in Byte
    BY <2>3 DEF Byte
  <2>5. /\ o \in Seq(Byte) /\ Len(o) = 3
        /\ o[1] = 224 + high /\ o[2] = 128 + mid /\ o[3] = 128 + low
    BY <2>4
  <2> HIDE DEF o
  <2>6. /\ o[1] \in 224..239 /\ o[2] \in 128..191 /\ o[3] \in 128..191 /\ cp >= 2048
        /\ 4096 * (o[1] - 224) + 64 * (o[2] - 128) + (o[3] - 128) = cp
    BY <1>3, <2>3, <2>5
  <2> QED
    BY <2>2, <2>5, <2>6
<1> QED
  BY <1>1, <1>2, <1>3

-----------------------------------------------------------------------------
(* A set of numbers has a least one, since there is no end to sets that    *)
(* get smaller and smaller; so what holds of 0 and goes on holds of all.   *)
LEMMA LeastNumber ==
  ASSUME NEW T, T \subseteq Nat, T # {}
  PROVE  \E x \in T : \A y \in T : x <= y
<1> DEFINE upTo == {1..n : n \in T}
<1>1. upTo \subseteq FiniteSubsetsOf(Nat)
  <2>1. ASSUME NEW n \in T PROVE IsFiniteSet(1..n) /\ 1..n \in SUBSET Nat
    BY FS_Interval
  <2> QED
    BY <2>1 DEF FiniteSubsetsOf
<1>2. upTo # {}
  OBVIOUS
<1>3. \E s \in upTo : \A t \in upTo : <<t, s>> \notin StrictSubsetOrdering(Nat)
  <2> HIDE DEF upTo
  <2> QED
    BY <1>1, <1>2, FS_StrictSubsetOrderingWellFounded, WFMin, Zenon
<1>4. PICK x \in T : \A y \in T : <<1..y, 1..x>> \notin StrictSubsetOrdering(Nat)
  BY <1>3
<1>5. ASSUME NEW y \in T PROVE x <= y
  <2> SUFFICES ASSUME y < x PROVE FALSE
    OBVIOUS
  <2>1. x \in 1..x /\ x \notin 1..y /\ 1..y \subseteq 1..x
    OBVIOUS
  <2>2. 1..y \in SUBSET Nat /\ 1..x \in SUBSET Nat /\ 1..y # 1..x
    BY <2>1
  <2>3. <<1..y, 1..x>> \in StrictSubsetOrdering(Nat)
    BY <2>1, <2>2 DEF StrictSubsetOrdering
  <2> QED
    BY <1>4, <2>3
<1> QED
  BY <1>5

LEMMA Induction ==
  ASSUME NEW S, 0 \in S, \A n \in Nat : n \in S => n + 1 \in S
  PROVE  \A n \in Nat : n \in S
<1> SUFFICES ASSUME Nat \ S # {} PROVE FALSE
  OBVIOUS
<1>1. PICK x \in Nat \ S : \A y \in Nat \ S : x <= y
  BY LeastNumber
<1>2. x # 0 /\ x - 1 \in Nat /\ x - 1 \in S
  BY <1>1
<1> QED
  BY <1>2

LEMMA Pairs ==
  ASSUME NEW S, NEW a \in S, NEW b \in S
  PROVE  /\ << >> \in Seq(S) /\ <<a>> \in Seq(S) /\ <<a, b>> \in Seq(S) /\ <<a>> # << >>
         /\ Append(<<a>>, b) = <<a, b>>
<1>1. << >> \in Seq(S) /\ <<a>> \in Seq(S) /\ <<a, b>> \in Seq(S) /\ <<a>> # << >>
  OBVIOUS
<1>2. Append(<<a>>, b) = <<a, b>>
  <2>1. Append(<<a>>, b) \in Seq(S) /\ Len(Append(<<a>>, b)) = 2 /\ Len(<<a, b>>) = 2
    BY <1>1
  <2>2. Append(<<a>>, b)[1] = a /\ Append(<<a>>, b)[2] = b
    BY <1>1
  <2>3. \A i \in 1..2 : Append(<<a>>, b)[i] = <<a, b>>[i]
    BY <2>2
  <2> QED
    BY <1>1, <2>1, <2>3, SeqEqual
<1> QED
  BY <1>1, <1>2

LEMMA Tuples ==
  ASSUME NEW S, NEW a \in S, NEW b \in S, NEW c \in S, NEW d \in S
  PROVE  /\ << >> \in Seq(S) /\ <<a>> \in Seq(S) /\ <<a, b>> \in Seq(S)
         /\ <<a, b, c>> \in Seq(S) /\ <<a, b, c, d>> \in Seq(S) /\ <<a>> # << >>
         /\ Append(<< >>, a) = <<a>> /\ Append(<<a>>, b) = <<a, b>>
         /\ Append(<<a, b>>, c) = <<a, b, c>> /\ Append(<<a, b, c>>, d) = <<a, b, c, d>>
<1>1. << >> \in Seq(S) /\ <<a>> \in Seq(S) /\ <<a, b>> \in Seq(S) /\ <<a, b, c>> \in Seq(S)
      /\ <<a, b, c, d>> \in Seq(S)
  OBVIOUS
<1>2. <<a>> # << >>
  OBVIOUS
<1>3. Append(<< >>, a) = <<a>>
  OBVIOUS
<1>4. Append(<<a>>, b) = <<a, b>>
  <2>1. Append(<<a>>, b) \in Seq(S) /\ Len(Append(<<a>>, b)) = 2 /\ Len(<<a, b>>) = 2
    BY <1>1
  <2>2. /\ Append(<<a>>, b)[1] = a
        /\ Append(<<a>>, b)[2] = b
    BY <1>1
  <2>3. \A i \in 1..2 : Append(<<a>>, b)[i] = <<a, b>>[i]
    BY <2>2
  <2> QED
    BY <1>1, <2>1, <2>3, SeqEqual
<1>5. Append(<<a, b>>, c) = <<a, b, c>>
  <2>1. Append(<<a, b>>, c) \in Seq(S) /\ Len(Append(<<a, b>>, c)) = 3 /\ Len(<<a, b, c>>) = 3
    BY <1>1
  <2>2. /\ Append(<<a, b>>, c)[1] = a
        /\ Append(<<a, b>>, c)[2] = b
        /\ Append(<<a, b>>, c)[3] = c
    BY <1>1
  <2>3. \A i \in 1..3 : Append(<<a, b>>, c)[i] = <<a, b, c>>[i]
    BY <2>2
  <2> QED
    BY <1>1, <2>1, <2>3, SeqEqual
<1>6. Append(<<a, b, c>>, d) = <<a, b, c, d>>
  <2>1. Append(<<a, b, c>>, d) \in Seq(S) /\ Len(Append(<<a, b, c>>, d)) = 4 /\ Len(<<a, b, c, d>>) = 4
    BY <1>1
  <2>2. /\ Append(<<a, b, c>>, d)[1] = a
        /\ Append(<<a, b, c>>, d)[2] = b
        /\ Append(<<a, b, c>>, d)[3] = c
        /\ Append(<<a, b, c>>, d)[4] = d
    BY <1>1
  <2>3. \A i \in 1..4 : Append(<<a, b, c>>, d)[i] = <<a, b, c, d>>[i]
    BY <2>2
  <2> QED
    BY <1>1, <2>1, <2>3, SeqEqual
<1> QED
  BY <1>1, <1>2, <1>3, <1>4, <1>5, <1>6

LEMMA LastOfAppend ==
  ASSUME NEW S, NEW s \in Seq(S), NEW e \in S
  PROVE  /\ Front(Append(s, e)) = s /\ Last(Append(s, e)) = e
         /\ Append(s, e) \in Seq(S) /\ Len(Append(s, e)) = Len(s) + 1
<1>1. PICK t : t = Append(s, e)
  OBVIOUS
<1>2. /\ t \in Seq(S) /\ Len(t) = Len(s) + 1 /\ t[Len(s) + 1] = e /\ Len(s) \in Nat
      /\ \A i \in 1..Len(s) : t[i] = s[i]
  BY <1>1, AppendProperties, LenProperties
<1>3. Front(t) = SubSeq(t, 1, Len(s))
  BY <1>2 DEF Front
<1>4. /\ SubSeq(t, 1, Len(s)) \in Seq(S) /\ Len(SubSeq(t, 1, Len(s))) = Len(s)
      /\ \A i \in 1..Len(s) : SubSeq(t, 1, Len(s))[i] = s[i]
  BY <1>2
<1>5. Front(t) = s
  BY <1>3, <1>4, SeqEqual
<1> QED
  BY <1>1, <1>2, <1>5 DEF Last

(* The first characters of a text, and one more.                           *)
LEMMA FrontAndLast ==
  ASSUME NEW S, NEW s \in Seq(S), s # << >>
  PROVE  Front(s) \in Seq(S) /\ Last(s) \in S
<1>1. Len(s) \in Nat \ {0}
  BY EmptySeq, LenProperties
<1>2. Front(s) = SubSeq(s, 1, Len(s) - 1) /\ Last(s) = s[Len(s)]
  BY DEF Front, Last
<1>3. SubSeq(s, 1, Len(s) - 1) \in Seq(S)
  BY <1>1, SubSeqProperties
<1> QED
  BY <1>1, <1>2, <1>3

(* A function that is defined step by step exists, and takes its steps.    *)
LEMMA Recursion ==
  ASSUME NEW D, NEW e \in D, NEW n \in Nat, NEW F \in [1..n -> [D -> D]]
  PROVE  \E g \in [0..n -> D] : g[0] = e /\ \A i \in 1..n : g[i] = F[i][g[i - 1]]
<1> DEFINE Goes(k, g) == g[0] = e /\ \A i \in 1..k : g[i] = F[i][g[i - 1]]
           S == {k \in Nat : k <= n => \E g \in [0..k -> D] : Goes(k, g)}
<1>1. 0 \in S
  <2>1. [i \in 0..0 |-> e] \in [0..0 -> D] /\ Goes(0, [i \in 0..0 |-> e])
    OBVIOUS
  <2> QED
    BY <2>1
<1>2. ASSUME NEW k \in Nat, k \in S PROVE k + 1 \in S
  <2> SUFFICES ASSUME k + 1 <= n PROVE \E g \in [0..(k + 1) -> D] : Goes(k + 1, g)
    OBVIOUS
  <2>1. k <= n /\ k + 1 \in 1..n /\ k \in 0..k
    OBVIOUS
  <2>2. PICK g \in [0..k -> D] : Goes(k, g)
    BY <1>2, <2>1
  <2> DEFINE h == [i \in 0..(k + 1) |-> IF i <= k THEN g[i] ELSE F[k + 1][g[k]]]
  <2>3. g[k] \in D /\ F[k + 1] \in [D -> D]
    BY <2>1
  <2>4. h \in [0..(k + 1) -> D]
    <3>1. ASSUME NEW i \in 0..(k + 1) PROVE h[i] \in D
      <4>1. i <= k => i \in 0..k
        OBVIOUS
      <4> QED
        BY <2>3, <4>1
    <3> QED
      BY <3>1
  <2>5. h[0] = e
    BY <2>2
  <2>6. ASSUME NEW i \in 1..(k + 1) PROVE h[i] = F[i][h[i - 1]]
    <3>1. i - 1 \in 0..(k + 1) /\ i - 1 <= k /\ h[i - 1] = g[i - 1]
      OBVIOUS
    <3>2. CASE i <= k
      BY <2>2, <3>1, <3>2
    <3>3. CASE i = k + 1
      <4>1. h[i] = F[k + 1][g[k]] /\ i - 1 = k
        BY <3>3
      <4> QED
        BY <3>1, <3>3, <4>1
    <3> QED
      BY <3>2, <3>3
  <2> HIDE DEF h
  <2> QED
    BY <2>4, <2>5, <2>6
<1> HIDE DEF S
<1>3. n \in S
  BY <1>1, <1>2, Induction
<1> QED
  BY <1>3 DEF S

(* What Cut says of one more character; there is always a part to go on.   *)
LEMMA CutGoesOn ==
  ASSUME NEW C, NEW text \in Seq(C)
  PROVE  /\ Cut(text)[0] = << << >> >>
         /\ \A i \in 1..Len(text) :
              Cut(text)[i] = IF text[i] = "/" THEN Append(Cut(text)[i - 1], << >>)
                             ELSE Append(Front(Cut(text)[i - 1]),
                                         Append(Last(Cut(text)[i - 1]), text[i]))
<1> DEFINE n == Len(text)
           first == << << >> >>
           D == {p \in Seq(Seq(C)) : p # << >>}
           Longer(p, i) == IF text[i] = "/" THEN Append(p, << >>)
                           ELSE Append(Front(p), Append(Last(p), text[i]))
           Go(f) == [i \in 0..n |-> IF i = 0 THEN first ELSE Longer(f[i - 1], i)]
           F == [i \in 1..n |-> [p \in D |-> Longer(p, i)]]
           c == CHOOSE f : f = Go(f)
<1>1. n \in Nat /\ \A i \in 1..n : text[i] \in C
  OBVIOUS
<1>2. Cut(text) = c
  BY DEF Cut
<1>3. first \in D
  <2>1. << >> \in Seq(C)
    OBVIOUS
  <2> QED
    BY <2>1, Tuples
<1>4. ASSUME NEW i \in 1..n, NEW p \in D PROVE Longer(p, i) \in D
  <2>1. text[i] \in C
    BY <1>1
  <2>2. CASE text[i] = "/"
    <3>1. << >> \in Seq(C)
      OBVIOUS
    <3>2. Append(p, << >>) \in Seq(Seq(C)) /\ Append(p, << >>) # << >>
      BY <3>1, AppendProperties
    <3> QED
      BY <2>2, <3>2
  <2>3. CASE text[i] # "/"
    <3>1. Front(p) \in Seq(Seq(C)) /\ Last(p) \in Seq(C)
      BY FrontAndLast
    <3>2. Append(Last(p), text[i]) \in Seq(C)
      BY <2>1, <3>1, AppendProperties
    <3>3. /\ Append(Front(p), Append(Last(p), text[i])) \in Seq(Seq(C))
          /\ Append(Front(p), Append(Last(p), text[i])) # << >>
      <4>1. ASSUME NEW q \in Seq(Seq(C)), NEW x \in Seq(C)
            PROVE  Append(q, x) \in Seq(Seq(C)) /\ Append(q, x) # << >>
        BY AppendProperties
      <4> HIDE DEF F, c
      <4> QED
        BY <3>1, <3>2, <4>1
    <3> QED
      BY <2>3, <3>3
  <2> QED
    BY <2>2, <2>3
<1> HIDE DEF Longer, D, n, first
<1>5. F \in [1..n -> [D -> D]]
  BY <1>4
<1>6. PICK g \in [0..n -> D] : g[0] = first /\ \A i \in 1..n : g[i] = F[i][g[i - 1]]
  <2>1. n \in Nat /\ first \in D /\ F \in [1..n -> [D -> D]]
    BY <1>1, <1>3, <1>5
  <2> HIDE DEF F, Go
  <2> QED
    BY <2>1, Recursion, SMT
<1>7. \A i \in 1..n : g[i] = Longer(g[i - 1], i)
  <2>1. ASSUME NEW i \in 1..n PROVE g[i - 1] \in D
    BY <1>1
  <2> QED
    BY <1>6, <2>1
<1>8. g = Go(g)
  <2>1. ASSUME NEW i \in 0..n
        PROVE  g[i] = IF i = 0 THEN first ELSE Longer(g[i - 1], i)
    BY <1>1, <1>6, <1>7
  <2> QED
    BY <2>1
<1>9. c = Go(c)
  BY <1>8
<1> HIDE DEF c
<1>10. \A i \in 0..n : c[i] = IF i = 0 THEN first ELSE Longer(c[i - 1], i)
  <2>1. ASSUME NEW i \in 0..n
        PROVE  Go(c)[i] = IF i = 0 THEN first ELSE Longer(c[i - 1], i)
    OBVIOUS
  <2> HIDE DEF Go
  <2> QED
    BY <1>9, <2>1
<1>11. c[0] = first /\ \A i \in 1..n : c[i] = Longer(c[i - 1], i)
  BY <1>1, <1>10
<1> QED
  BY <1>2, <1>11 DEF Longer, n, first

LEMMA OneMore ==
  ASSUME NEW S, NEW s \in Seq(S), NEW k \in 1..Len(s)
  PROVE  /\ SubSeq(s, 1, k - 1) \in Seq(S) /\ SubSeq(s, 1, k) \in Seq(S)
         /\ SubSeq(s, 1, k) = Append(SubSeq(s, 1, k - 1), s[k])
<1>1. PICK n : n = k - 1 /\ n \in Nat /\ n \in 0..Len(s) /\ n + 1 = k /\ k \in 0..Len(s)
  OBVIOUS
<1>2. PICK a, b : a = SubSeq(s, 1, n) /\ b = SubSeq(s, 1, k)
  OBVIOUS
<1>3. /\ a \in Seq(S) /\ Len(a) = n /\ \A i \in 1..n : a[i] = s[i]
      /\ b \in Seq(S) /\ Len(b) = k /\ \A i \in 1..k : b[i] = s[i]
  BY <1>1, <1>2
<1>4. s[k] \in S
  OBVIOUS
<1>5. PICK c : c = Append(a, s[k])
  OBVIOUS
<1>6. /\ c \in Seq(S) /\ Len(c) = n + 1 /\ c[n + 1] = s[k]
      /\ \A i \in 1..n : c[i] = a[i]
  BY <1>3, <1>4, <1>5, AppendProperties
<1>7. \A i \in 1..k : b[i] = c[i]
  BY <1>1, <1>3, <1>6
<1>8. b = c
  BY <1>1, <1>3, <1>6, <1>7, SeqEqual
<1> QED
  BY <1>1, <1>2, <1>3, <1>5, <1>8

(* The characters of a text between three and two others.                  *)
LEMMA Between ==
  ASSUME NEW C, NEW x \in C, NEW y \in C, NEW z \in C, NEW name \in Seq(C), NEW url, NEW text,
         url = <<x, y, x>> \o name, text = url \o <<x, z>>
  PROVE  /\ url \in Seq(C) /\ Len(url) = Len(name) + 3
         /\ url[1] = x /\ url[2] = y /\ url[3] = x
         /\ \A k \in 1..Len(name) : url[k + 3] = name[k]
         /\ text \in Seq(C) /\ Len(text) = Len(name) + 5
         /\ text[1] = x /\ text[2] = y /\ text[3] = x
         /\ \A k \in 1..Len(name) : text[k + 3] = name[k]
         /\ text[Len(name) + 4] = x /\ text[Len(name) + 5] = z
<1> DEFINE head == <<x, y, x>>
           tail == <<x, z>>
           m    == Len(name)
<1>1. m \in Nat
  OBVIOUS
<1>2. head \in Seq(C) /\ Len(head) = 3 /\ head[1] = x /\ head[2] = y /\ head[3] = x
  BY <1>1
<1>3. tail \in Seq(C) /\ Len(tail) = 2 /\ tail[1] = x /\ tail[2] = z
  BY <1>1
<1>4. url = head \o name
  OBVIOUS
<1> HIDE DEF head, tail
<1>5. /\ url \in Seq(C) /\ Len(url) = m + 3
      /\ url[1] = x /\ url[2] = y /\ url[3] = x
      /\ \A k \in 1..m : url[k + 3] = name[k]
  <2>1. /\ url \in Seq(C) /\ Len(url) = 3 + m
        /\ \A i \in 1..(3 + m) : url[i] = IF i <= 3 THEN head[i] ELSE name[i - 3]
    <3>1. /\ head \o name \in Seq(C) /\ Len(head \o name) = Len(head) + Len(name)
          /\ \A i \in 1..(Len(head) + Len(name)) : (head \o name)[i] =
                 IF i <= Len(head) THEN head[i] ELSE name[i - Len(head)]
      BY <1>2, ConcatProperties, Zenon
    <3> QED
      BY <1>2, <1>4, <3>1, Zenon
  <2> HIDE DEF m
  <2>2. {1, 2, 3} \subseteq 1..(3 + m) /\ m + 3 = 3 + m
        /\ \A k \in 1..m : k + 3 \in 1..(3 + m) /\ ~(k + 3 <= 3) /\ (k + 3) - 3 = k
    BY <1>1
  <2>3. url[1] = head[1] /\ url[2] = head[2] /\ url[3] = head[3]
    BY <2>1, <2>2
  <2>4. \A k \in 1..m : url[k + 3] = name[k]
    BY <2>1, <2>2
  <2> QED
    BY <1>2, <2>1, <2>2, <2>3, <2>4
<1>6. /\ text \in Seq(C) /\ Len(text) = m + 5
      /\ text[1] = x /\ text[2] = y /\ text[3] = x
      /\ \A k \in 1..m : text[k + 3] = name[k]
      /\ text[m + 4] = x /\ text[m + 5] = z
  <2>1. text = url \o tail
    BY DEF tail
  <2>2. /\ text \in Seq(C) /\ Len(text) = m + 5
        /\ \A i \in 1..(m + 3) : text[i] = url[i]
        /\ text[m + 4] = tail[1] /\ text[m + 5] = tail[2]
    <3>1. /\ text \in Seq(C) /\ Len(text) = (m + 3) + 2
          /\ \A i \in 1..((m + 3) + 2) :
               text[i] = IF i <= m + 3 THEN url[i] ELSE tail[i - (m + 3)]
      <4>1. /\ url \o tail \in Seq(C) /\ Len(url \o tail) = Len(url) + Len(tail)
            /\ \A i \in 1..(Len(url) + Len(tail)) : (url \o tail)[i] =
                   IF i <= Len(url) THEN url[i] ELSE tail[i - Len(url)]
        <5>1. url \in Seq(C) /\ tail \in Seq(C)
          BY <1>3, <1>5
        <5> QED
          BY <5>1, ConcatProperties
      <4> HIDE DEF m
      <4> QED
        BY <1>3, <1>5, <2>1, <4>1, Zenon
    <3> HIDE DEF m
    <3>2. /\ \A i \in 1..(m + 3) : i \in 1..((m + 3) + 2) /\ i <= m + 3
          /\ m + 4 \in 1..((m + 3) + 2) /\ m + 5 \in 1..((m + 3) + 2)
          /\ ~(m + 4 <= m + 3) /\ ~(m + 5 <= m + 3) /\ (m + 3) + 2 = m + 5
          /\ (m + 4) - (m + 3) = 1 /\ (m + 5) - (m + 3) = 2
      BY <1>1
    <3> QED
      BY <3>1, <3>2
  <2> HIDE DEF m
  <2>3. {1, 2, 3} \subseteq 1..(m + 3) /\ \A k \in 1..m : k + 3 \in 1..(m + 3)
    BY <1>1
  <2>4. text[1] = x /\ text[2] = y /\ text[3] = x
    BY <1>5, <2>2, <2>3
  <2>5. \A k \in 1..m : text[k + 3] = name[k]
    BY <1>5, <2>2, <2>3
  <2> QED
    BY <1>3, <1>5, <2>2, <2>4, <2>5 DEF m
<1> QED
  BY <1>5, <1>6

(* The address of an action whose name holds no solidus has the parts that *)
(* the table's patterns name.                                              *)
LEMMA SplitsAction ==
  ASSUME NEW C, "/" \in C, "actions" \in C, "block" \in C, NEW name \in Seq(C), name # << >>,
         \A i \in 1..Len(name) : name[i] # "/", NEW text,
         text \in {ActionUrl(name), ActionUrl(name) \o <<"/", "block">>}
  PROVE  /\ text \in Seq(C) /\ text # << >>
         /\ text = ActionUrl(name) => Split(text) = << << >>, <<"actions">>, name >>
         /\ text = ActionUrl(name) \o <<"/", "block">> =>
                Split(text) = << << >>, <<"actions">>, name, <<"block">> >>
<1> DEFINE block == text # ActionUrl(name)
<1>0. /\ (text = ActionUrl(name) \o <<"/", "block">>) = block
      /\ text \in Seq(C) /\ Len(text) = Len(name) + (IF block THEN 5 ELSE 3)
      /\ text[1] = "/" /\ text[2] = "actions" /\ text[3] = "/"
      /\ \A k \in 1..Len(name) : text[k + 3] = name[k]
      /\ block => text[Len(name) + 4] = "/" /\ text[Len(name) + 5] = "block"
  <2>1. PICK x, y, z : x = "/" /\ y = "actions" /\ z = "block"
    OBVIOUS
  <2>5. PICK url, long : url = <<x, y, x>> \o name /\ long = url \o <<x, z>>
    OBVIOUS
  <2>2. /\ url \in Seq(C) /\ Len(url) = Len(name) + 3
        /\ url[1] = x /\ url[2] = y /\ url[3] = x
        /\ \A k \in 1..Len(name) : url[k + 3] = name[k]
        /\ long \in Seq(C) /\ Len(long) = Len(name) + 5
        /\ long[1] = x /\ long[2] = y /\ long[3] = x
        /\ \A k \in 1..Len(name) : long[k + 3] = name[k]
        /\ long[Len(name) + 4] = x /\ long[Len(name) + 5] = z
    <3>1. x \in C /\ y \in C /\ z \in C
      BY <2>1
    <3> QED
      BY <3>1, <2>5, Between
  <2>3. CASE text = ActionUrl(name) \o <<"/", "block">>
    <3>1. text = long
      BY <2>1, <2>3, <2>5 DEF ActionUrl
    <3> QED
      BY <2>1, <2>2, <2>3, <2>5, <3>1 DEF ActionUrl
  <2>4. CASE text = ActionUrl(name)
    <3>1. text = url
      BY <2>1, <2>4, <2>5 DEF ActionUrl
    <3> QED
      BY <2>1, <2>2, <2>4, <2>5, <3>1 DEF ActionUrl
  <2> QED
    BY <2>3, <2>4
<1> HIDE DEF block
<1> DEFINE m  == Len(name)
           e  == << >>
           p0 == <<e>>
           p1 == <<e, e>>
           p2 == <<e, <<"actions">> >>
           p3 == <<e, <<"actions">>, name>>
           blk == <<"block">>
           c  == Cut(text)
<1>1. m \in Nat \ {0} /\ "/" \in C /\ "actions" \in C /\ "block" \in C
  BY EmptySeq
<1>2. e \in Seq(C) /\ <<"actions">> \in Seq(C) /\ blk \in Seq(C) /\ name \in Seq(C) /\ blk # e
  BY <1>1, Tuples
<1>3. /\ p0 \in Seq(Seq(C)) /\ p1 \in Seq(Seq(C)) /\ p2 \in Seq(Seq(C)) /\ p3 \in Seq(Seq(C))
      /\ Append(p0, e) = p1 /\ Append(p0, <<"actions">>) = p2 /\ Append(p2, name) = p3
      /\ Append(p3, blk) = <<e, <<"actions">>, name, blk>>
  <2> DEFINE act == <<"actions">>
  <2>1. e \in Seq(C) /\ act \in Seq(C) /\ blk \in Seq(C)
    BY <1>2
  <2> HIDE DEF e, blk, act
  <2>2. /\ <<e>> \in Seq(Seq(C)) /\ <<e, e>> \in Seq(Seq(C)) /\ <<e, act>> \in Seq(Seq(C))
        /\ <<e, act, name>> \in Seq(Seq(C))
        /\ <<e, act, name, blk>> \in Seq(Seq(C))
        /\ Append(<<e>>, e) = <<e, e>> /\ Append(<<e>>, act) = <<e, act>>
        /\ Append(<<e, act>>, name) = <<e, act, name>>
        /\ Append(<<e, act, name>>, blk) = <<e, act, name, blk>>
    <3>1. PICK SS : SS = Seq(C)
      OBVIOUS
    <3>2. e \in SS /\ act \in SS /\ blk \in SS /\ name \in SS
      BY <2>1, <3>1
    <3>3. /\ <<e, act>> \in Seq(SS) /\ <<e, act, name>> \in Seq(SS)
          /\ <<e, act, name, blk>> \in Seq(SS)
          /\ Append(<<e>>, act) = <<e, act>>
          /\ Append(<<e, act>>, name) = <<e, act, name>>
          /\ Append(<<e, act, name>>, blk) = <<e, act, name, blk>>
      BY <3>2, Tuples
    <3>4. /\ <<e>> \in Seq(SS) /\ <<e, e>> \in Seq(SS) /\ Append(<<e>>, e) = <<e, e>>
      BY <3>2, Pairs
    <3> QED
      BY <3>1, <3>3, <3>4
  <2> QED
    BY <2>2 DEF act
<1>4. Append(e, "actions") = <<"actions">> /\ Append(e, "block") = blk
  OBVIOUS
<1>5. /\ text \in Seq(C) /\ Len(text) = m + (IF block THEN 5 ELSE 3)
      /\ text[1] = "/" /\ text[2] = "actions" /\ text[3] = "/"
      /\ \A k \in 1..m : text[k + 3] = name[k]
      /\ block => text[m + 4] = "/" /\ text[m + 5] = "block"
  BY <1>0 DEF m
<1> HIDE DEF m
<1>6. /\ c[0] = p0
      /\ \A i \in 1..Len(text) :
           c[i] = IF text[i] = "/" THEN Append(c[i - 1], e)
                  ELSE Append(Front(c[i - 1]), Append(Last(c[i - 1]), text[i]))
  BY <1>5, CutGoesOn
<1> HIDE DEF c
<1>7. 1 \in 1..Len(text) /\ 2 \in 1..Len(text) /\ 3 \in 1..Len(text)
      /\ 1 - 1 = 0 /\ 2 - 1 = 1 /\ 3 - 1 = 2 /\ "actions" # "/" /\ "block" # "/"
  BY <1>1, <1>5
<1> HIDE DEF p0, p1, p2, p3, e, blk
<1>8. c[1] = p1
  BY <1>3, <1>5, <1>6, <1>7
<1>9. c[2] = p2
  <2>1. Front(p1) = p0 /\ Last(p1) = e
    BY <1>2, <1>3, LastOfAppend
  <2>2. c[2] = Append(Front(p1), Append(Last(p1), "actions"))
    BY <1>5, <1>6, <1>7, <1>8
  <2>3. Append(e, "actions") = <<"actions">>
    BY <1>4
  <2> QED
    BY <1>3, <2>1, <2>2, <2>3
<1>10. c[3] = Append(p2, e)
  BY <1>5, <1>6, <1>7, <1>9
<1> DEFINE S == {k \in Nat : k <= m => c[k + 3] = Append(p2, SubSeq(name, 1, k))}
<1>11. 0 \in S
  <2>1. SubSeq(name, 1, 0) = e
    BY SubSeqEmpty DEF e
  <2>2. 0 + 3 = 3
    OBVIOUS
  <2>3. c[0 + 3] = Append(p2, SubSeq(name, 1, 0))
    BY <1>10, <2>1, <2>2, Zenon
  <2> QED
    BY <2>3
<1>12. ASSUME NEW k \in Nat, k \in S PROVE k + 1 \in S
  <2> SUFFICES ASSUME k + 1 <= m PROVE c[(k + 1) + 3] = Append(p2, SubSeq(name, 1, k + 1))
    OBVIOUS
  <2>1. /\ k + 1 \in 1..m /\ (k + 1) - 1 = k /\ (k + 1) + 3 \in 1..Len(text)
        /\ ((k + 1) + 3) - 1 = k + 3
    BY <1>1, <1>5
  <2>2. c[k + 3] = Append(p2, SubSeq(name, 1, k))
    BY <1>1, <1>12, <2>1
  <2>3. /\ SubSeq(name, 1, k) \in Seq(C)
        /\ SubSeq(name, 1, k + 1) = Append(SubSeq(name, 1, k), name[k + 1])
    <3>1. PICK j : j = k + 1 /\ j \in 1..Len(name) /\ j - 1 = k
      BY <2>1 DEF m
    <3>2. /\ SubSeq(name, 1, j - 1) \in Seq(C)
          /\ SubSeq(name, 1, j) = Append(SubSeq(name, 1, j - 1), name[j])
      BY <3>1, OneMore
    <3> QED
      BY <3>1, <3>2
  <2>4. Front(c[k + 3]) = p2 /\ Last(c[k + 3]) = SubSeq(name, 1, k)
    <3>1. PICK s : s = SubSeq(name, 1, k) /\ s \in Seq(C)
      BY <2>3
    <3>2. p2 \in Seq(Seq(C)) /\ c[k + 3] = Append(p2, s)
      BY <1>3, <2>2, <3>1
    <3>3. Front(Append(p2, s)) = p2 /\ Last(Append(p2, s)) = s
      BY <3>1, <3>2, LastOfAppend
    <3> QED
      BY <3>1, <3>2, <3>3
  <2>5. text[(k + 1) + 3] = name[k + 1] /\ text[(k + 1) + 3] # "/"
    BY <1>5, <2>1 DEF m
  <2> QED
    BY <1>6, <2>1, <2>3, <2>4, <2>5
<1> HIDE DEF S
<1>13. c[m + 3] = p3
  <2>1. m \in S
    BY <1>1, <1>11, <1>12, Induction
  <2>2. SubSeq(name, 1, m) = name
    BY SubSeqFull DEF m
  <2>3. m <= m => c[m + 3] = Append(p2, SubSeq(name, 1, m))
    BY <2>1 DEF S
  <2>4. m <= m
    BY <1>1
  <2> QED
    BY <1>3, <2>2, <2>3, <2>4
<1>16. text # << >>
  BY <1>1, <1>5
<1>14. CASE ~block
  <2>1. c[Len(text)] = p3
    BY <1>5, <1>13, <1>14
  <2>2. Last(p3) = name
    BY <1>3, LastOfAppend
  <2>3. Split(text) = p3
    BY <2>1, <2>2 DEF Split, c
  <2> QED
    BY <1>0, <1>14, <1>16, <2>3 DEF p3, e, block
<1>15. CASE block
  <2>1. /\ m + 4 \in 1..Len(text) /\ (m + 4) - 1 = m + 3 /\ m + 5 \in 1..Len(text)
        /\ (m + 5) - 1 = m + 4 /\ Len(text) = m + 5 /\ text[m + 4] = "/" /\ text[m + 5] = "block"
    BY <1>1, <1>5, <1>15
  <2>2. c[m + 4] = Append(p3, e)
    BY <1>6, <1>13, <2>1
  <2>3. Front(c[m + 4]) = p3 /\ Last(c[m + 4]) = e
    BY <1>2, <1>3, <2>2, LastOfAppend
  <2>4. c[m + 5] = Append(p3, blk)
    BY <1>4, <1>6, <1>7, <2>1, <2>3
  <2>5. c[Len(text)] = Append(p3, blk) /\ Last(Append(p3, blk)) = blk
    BY <1>2, <1>3, <2>1, <2>4, LastOfAppend
  <2>6. Split(text) = Append(p3, blk)
    BY <1>2, <2>5 DEF Split, c, e
  <2> QED
    BY <1>0, <1>3, <1>15, <1>16, <2>6 DEF e, blk, block
<1> QED
  BY <1>0, <1>14, <1>15

(* Nothing in a plain address is cut off, escaped or refused.              *)
LEMMA PlainUri ==
  ASSUME NEW C, NEW text \in Seq(C), text # <<>>,
         \A i \in 1..Len(text) : text[i] \notin Special \ {"/"}
  PROVE  Uri(text) = text /\ Sendable(text)
<1> DEFINE L == Len(text)
           ends == {i \in 1..L : text[i] # "blank"}
<1>0. \A i \in 1..L : text[i] # "blank" /\ text[i] # "?" /\ text[i] # "#"
              /\ text[i] # "wide" /\ text[i] \notin DOMAIN UrlEscapes
  BY DEF Special, UrlEscapes
<1>1. L \in Nat /\ L # 0 /\ ends = 1..L
  BY <1>0, EmptySeq
<1>2. Max(ends) = L
  <2>1. L \in ends /\ \A i \in ends : L >= i
    BY <1>1
  <2>2. \A i \in ends : (\A k \in ends : i >= k) => i = L
    BY <1>1, <2>1
  <2> QED
    BY <2>1, <2>2 DEF Max
<1> DEFINE last == SelectLastInSeq(text, LAMBDA x : x # "blank")
           trimmed == SubSeq(text, 1, last)
           end  == SelectInSeq(trimmed, LAMBDA x : x \in {"?", "#"})
           path == IF end = 0 THEN trimmed ELSE SubSeq(trimmed, 1, end - 1)
<1>3. trimmed = text
  <2>1. last = L
    <3>1. last = IF ends # {} THEN Max(ends) ELSE 0
      BY Zenon DEF SelectLastInSeq
    <3>2. ends # {}
      BY <1>1
    <3> QED
      BY <1>2, <3>1, <3>2
  <2> QED
    BY <2>1, SubSeqFull
<1>4. path = text
  <2>1. {i \in 1..Len(trimmed) : trimmed[i] \in {"?", "#"}} = {}
    BY <1>0, <1>3
  <2>2. end = 0
    BY <2>1 DEF SelectInSeq
  <2> QED
    BY <1>3, <2>2
<1>5. Uri(text) = [i \in DOMAIN path |-> OnWire(path[i])]
  BY Zenon DEF Uri
<1> HIDE DEF path
<1>6. DOMAIN text = 1..L
  BY LenProperties
<1>7. \A i \in DOMAIN text : OnWire(text[i]) = text[i]
  BY <1>0, <1>6 DEF OnWire
<1>8. text = [i \in DOMAIN text |-> text[i]]
  BY LenProperties
<1>9. Sendable(text)
  BY <1>0, <1>6 DEF Sendable
<1> QED
  BY <1>4, <1>5, <1>7, <1>8, <1>9

(* The requests about an action take the routes that the commands mean.    *)
LEMMA PlainTargets ==
  ASSUME NEW name, name \in Seq(Range(name)), Plain(name), NEW block \in BOOLEAN
  PROVE  /\ Target("POST", ActionUrl(name) \o (IF block THEN <<"/", "block">> ELSE <<>>)) =
              [route |-> IF block THEN "block" ELSE "noblock", name |-> name]
         /\ Target("DELETE", ActionUrl(name)) = [route |-> "delete", name |-> name]
<1> DEFINE C == Range(name) \union {"/", "actions", "block"}
           three == << << >>, <<"actions">>, name >>
           four  == << << >>, <<"actions">>, name, <<"block">> >>
           url  == ActionUrl(name)
           long == url \o <<"/", "block">>
<1>1. name \in Seq(C) /\ name # << >> /\ "/" \in C /\ "actions" \in C /\ "block" \in C
  <2>1. name \in Seq(C)
    BY SeqMonotonic
  <2> QED
    BY <2>1 DEF Plain
<1>2. \A i \in 1..Len(name) : name[i] # "/"
  <2>1. \A i \in 1..Len(name) : i \in DOMAIN name
    OBVIOUS
  <2>2. \A i \in 1..Len(name) : name[i] \in Range(name)
    BY <2>1 DEF Range
  <2>3. "/" \in Special
    BY DEF Special
  <2> QED
    BY <2>2, <2>3 DEF Plain
<1>3. C \intersect Special \subseteq {"/"}
  <2>1. "actions" \notin Special /\ "block" \notin Special
    BY DEF Special, UrlEscapes
  <2>2. Special \intersect Range(name) = {}
    BY DEF Plain
  <2> QED
    BY <2>1, <2>2, Zenon
<1> HIDE DEF C
<1>4. four \in Seq(Seq(C)) /\ three \in Seq(Seq(C)) /\ three[3] = name /\ four[3] = name
  BY <1>1
<1>5. ASSUME NEW text \in {url, long}
      PROVE  /\ text \in Seq(C) /\ Parts(text) = Split(text)
             /\ text = url => Split(text) = three
             /\ text = long => Split(text) = four
             /\ Sendable(text)
  <2>1. /\ text \in Seq(C) /\ text # << >>
        /\ text = url => Split(text) = three
        /\ text = long => Split(text) = four
    BY <1>1, <1>2, SplitsAction
  <2>2. \A i \in 1..Len(text) : text[i] \notin Special \ {"/"}
    <3>1. \A i \in 1..Len(text) : text[i] \in C
      BY <2>1, ElementOfSeq
    <3> QED
      BY <1>3, <3>1
  <2>3. Uri(text) = text /\ Sendable(text)
    BY <2>1, <2>2, PlainUri
  <2> QED
    BY <2>1, <2>3 DEF Parts
<1>6. url = url \o << >>
  <2>1. url \in Seq(C)
    BY <1>5
  <2> QED
    BY <2>1, ConcatEmptySeq
<1>7. /\ Match("noblock", "POST", three) /\ Match("delete", "DELETE", three)
      /\ Match("block", "POST", four)
  BY DEF Match, Routes, Route, Head2, Variable
<1>8. {"noblock", "block", "delete"} \subseteq DOMAIN Routes
  BY DEF Routes
<1>9. ASSUME NEW method, NEW parts \in Seq(Seq(C)), NEW route \in DOMAIN Routes,
             Match(route, method, parts)
      PROVE  Taken(method, parts) = route
  <2>1. \A other \in DOMAIN Routes : Match(other, method, parts) => other = route
    BY <1>9, RoutesExclude
  <2> QED
    BY <1>9, <2>1 DEF Taken
<1> HIDE DEF three, four, url
<1>10. /\ Taken("POST", three) = "noblock" /\ Taken("DELETE", three) = "delete"
       /\ Taken("POST", four) = "block"
  BY <1>4, <1>7, <1>8, <1>9
<1>11. Parts(url) = three /\ Parts(long) = four /\ Sendable(url) /\ Sendable(long)
  BY <1>5
<1> HIDE DEF long
<1>12. /\ Target("DELETE", url) = [route |-> "delete", name |-> name]
       /\ Target("POST", url) = [route |-> "noblock", name |-> name]
       /\ Target("POST", long) = [route |-> "block", name |-> name]
  BY <1>4, <1>10, <1>11 DEF Target
<1>13. CASE block
  BY <1>12, <1>13 DEF long, url
<1>14. CASE ~block
  <2>1. Target("POST", url \o << >>) = [route |-> "noblock", name |-> name]
    BY <1>6, <1>12
  <2> QED
    BY <1>12, <1>14, <2>1 DEF url
<1> QED
  BY <1>13, <1>14

(* Who names actions with characters that mean nothing in a URL and reach  *)
(* the server unchanged is told the truth by slcli (index.ts:21-35 and     *)
(* 77-83), however the store has changed before: what a run or a delete    *)
(* did it did to the action it names; see the comment of the property.     *)
THEOREM PlainCommands == Spec => CommandsDoAsTheySay
<1> DEFINE name == reply'.subject
           out  == reply'.out
           Truth == /\ reply'.command = "delete" /\ Plain(name) =>
                         /\ stored' = stored \ {name}
                         /\ out \in {"OK", "refused"} /\ (out = "OK" <=> name \in stored)
                    /\ reply'.command = "run" /\ Plain(name) =>
                         /\ stored' = stored
                         /\ out \in {"id", "result", "failed"} =>
                                name \in stored /\ reply'.got = name
                         /\ out = "not found" => name \notin stored
                         /\ out \in {"id", "result", "failed", "not found", "refused",
                                    "no request"}
<1>1. ASSUME NEW n \in Names, Plain(n)
      PROVE  /\ \A block \in BOOLEAN : RunTarget[n][block] =
                    [route |-> IF block THEN "block" ELSE "noblock", name |-> n]
             /\ DeleteTarget[n] = [route |-> "delete", name |-> n]
  <2>1. n \in Seq(Range(n))
    BY CliConstants
  <2>2. \A block \in BOOLEAN : RunTarget[n][block] =
            Target("POST", ActionUrl(n) \o (IF block THEN <<"/", "block">> ELSE <<>>))
    BY DEF RunTarget
  <2>3. DeleteTarget[n] = Target("DELETE", ActionUrl(n))
    BY DEF DeleteTarget
  <2> QED
    BY <1>1, <2>1, <2>2, <2>3, PlainTargets, Zenon
<1>2. ASSUME Next PROVE Truth
  <2>1. ASSUME NEW n \in Names, Delete(n) PROVE Truth
    <3>1. name = n /\ reply'.command = "delete"
      BY <2>1 DEF Delete, Reply
    <3>2. CASE Plain(n)
      <4>1. DeleteTarget[n].route = "delete" /\ DeleteTarget[n].name = n
        <5>1. DeleteTarget[n] = [route |-> "delete", name |-> n]
          BY <1>1, <3>2, Zenon
        <5> QED
          BY <5>1
      <4> QED
        BY <2>1, <3>1, <4>1 DEF Delete, Reply
    <3> QED
      BY <3>1, <3>2
  <2>2. ASSUME NEW n \in Names, NEW block \in BOOLEAN, NEW body \in Bodies,
               Run(n, block, body)
        PROVE  Truth
    <3> DEFINE to == RunTarget[n][block]
    <3>1. CASE Plain(n)
      <4>1. to.route \in {"block", "noblock"} /\ to.name = n
        <5>1. to = [route |-> IF block THEN "block" ELSE "noblock", name |-> n]
          BY <1>1, <3>1, Zenon
        <5> QED
          BY <5>1
      <4> HIDE DEF to
      <4>2. \/ \E o \in {"no request", "refused"} : Untouched(n, o)
            \/ n \notin stored /\ Untouched(n, "not found")
            \/ n \in stored /\ StartRun(n, n, to.route = "block")
        BY <2>2, <4>1 DEF Run, to
      <4>3. ASSUME NEW o, Untouched(n, o)
            PROVE  name = n /\ out = o /\ reply'.command = "run" /\ stored' = stored
        BY <4>3 DEF Untouched, Reply
      <4>4. ASSUME NEW b, StartRun(n, n, b)
            PROVE  /\ name = n /\ out \in {"id", "result", "failed"} /\ reply'.got = n
                   /\ reply'.command = "run" /\ stored' = stored
        BY <4>4 DEF StartRun, Accept, Reply
      <4> HIDE DEF name, out
      <4>5. ASSUME NEW o \in {"no request", "refused"}, Untouched(n, o) PROVE Truth
        BY <4>3, <4>5
      <4>6. ASSUME n \notin stored, Untouched(n, "not found") PROVE Truth
        <5>1. name = n /\ out = "not found" /\ reply'.command = "run" /\ stored' = stored
          BY <4>3, <4>6
        <5> QED
          BY <4>6, <5>1
      <4>7. ASSUME n \in stored, StartRun(n, n, to.route = "block") PROVE Truth
        BY <4>4, <4>7
      <4> QED
        BY <4>2, <4>5, <4>6, <4>7
    <3>2. CASE ~Plain(n)
      <4>1. name = n /\ reply'.command = "run"
        BY <2>2, RunComesTo, RunReplies
      <4> QED
        BY <3>2, <4>1
    <3> QED
      BY <3>1, <3>2
  <2>3. ASSUME NEW command, Unconnected(command) PROVE Truth
    BY <2>3 DEF Unconnected, Reply, Plain
  <2>4. ASSUME NEW command \in {"connect", "ping"}, Ping(command) PROVE Truth
    BY <2>4 DEF Ping, Reply
  <2>5. ASSUME NEW n \in Names, NEW file \in Files, Create(n, file) PROVE Truth
    BY <2>5 DEF Create, CreateNamed, Reply
  <2>6. ASSUME List \/ Restart PROVE Truth
    <3>1. reply'.command \in {"list", "start"}
      BY <2>6 DEF List, Restart, StartAgain, Reply
    <3> QED
      BY <3>1
  <2>7. ASSUME NEW run \in started, Resolve(run) PROVE Truth
    <3>1. reply'.command = "resolve"
      BY <2>7 DEF Resolve, Reply
    <3> QED
      BY <3>1
  <2>8. ASSUME NEW run \in pending, Finish(run) PROVE Truth
    <3>1. reply'.command = ""
      BY <2>8 DEF Finish, Reply
    <3> QED
      BY <3>1
  <2> HIDE DEF Truth
  <2> QED
    BY <1>2, <2>1, <2>2, <2>3, <2>4, <2>5, <2>6, <2>7, <2>8 DEF Next
<1> QED
  BY <1>2, PTL DEF Spec, CommandsDoAsTheySay

-----------------------------------------------------------------------------
(* StringsArrive: how the loops of the parser read a string.  They read a  *)
(* source from its end to its start, so to speak: Turns says what each     *)
(* position makes of the later ones.                                       *)

(* One turn of the loops, from what is read at the later positions.        *)
StepAt(source, escapes, i) ==
    IF escapes /\ source[i] = ReverseSolidus THEN escapeChar(source, i + 1)
                                             ELSE Read(<<source[i]>>, i + 1)

(* What is read after a step: a throw on either side is one of the whole.  *)
After(step, rest) ==
    IF step = Throws \/ rest = Throws THEN Throws ELSE Read(step.text \o rest.text, rest.next)

(* The turn of the loop at position i, with f for the later ones.          *)
Turn(source, escapes, from, i) ==
    IF i > Len(source) THEN Throws
    ELSE IF source[i] = Quote THEN Read(<<>>, i + 1)
    ELSE After(StepAt(source, escapes, i), from[StepAt(source, escapes, i).next])

(* What is read for an escape is shorter than it, and ends in the source.  *)
IsStep(step, i, last) ==
    \/ step = Throws
    \/ /\ step.text \in Seq(Byte) /\ step.next \in Nat /\ step = Read(step.text, step.next)
       /\ step.next \in (i + 1)..last /\ Len(step.text) < step.next - i

(* A digit is worth less than sixteen; other bytes are -1.                 *)
LEMMA HexDigits ==
  ASSUME NEW c \in Nat
  PROVE  Hex(c) \in -1..15
  BY DEF Hex

(* Four digits make a number of sixteen bits.                              *)
LEMMA HexValue ==
  ASSUME NEW a \in Nat, a <= 15, NEW b \in Nat, b <= 15, NEW c \in Nat, c <= 15,
         NEW d \in Nat, d <= 15
  PROVE  /\ 4096 * a + 256 * b + 16 * c + d \in Nat
         /\ 4096 * a + 256 * b + 16 * c + d < 65536
  OBVIOUS

(* What append writes for such a number is one to three bytes.             *)
LEMMA Appended ==
  ASSUME NEW cp \in Nat, cp < 65536
  PROVE  append(cp) \in Seq(Byte) /\ Len(append(cp)) \in 1..3
<1>1. PICK o : o = append(cp)
  OBVIOUS
<1>2. o \in Seq(Byte) /\ (Len(o) = 1 \/ Len(o) = 2 \/ Len(o) = 3)
  BY <1>1, EscapesDecode
<1>3. Len(o) \in 1..3
  BY <1>2
<1> QED
  BY <1>1, <1>2, <1>3

(* A reading that ends behind the start is no throw.                       *)
LEMMA ReadIsNoThrow ==
  ASSUME NEW t, NEW n \in Nat \ {0}
  PROVE  Read(t, n) # Throws /\ Read(t, n).text = t /\ Read(t, n).next = n
<1>1. Read(t, n).next = n /\ Throws.next = 0 /\ Read(t, n).text = t
  BY DEF Read, Throws
<1> QED
  BY <1>1

(* What makes a step, put so that it can be cited.                         *)
LEMMA MakesStep ==
  ASSUME NEW text \in Seq(Byte), NEW next \in Nat, NEW i \in Nat, NEW last \in Nat,
         next > i, next <= last, Len(text) < next - i
  PROVE  IsStep(Read(text, next), i, last)
<1>1. PICK step : step = Read(text, next)
  OBVIOUS
<1>2. step.text = text /\ step.next = next
  BY <1>1, ReadIsNoThrow
<1>3. step.next \in (i + 1)..last /\ Len(step.text) < step.next - i
  BY <1>2
<1> QED
  BY <1>1, <1>2, <1>3 DEF IsStep

(* An escape of four digits is a step.                                     *)
LEMMA StepOfFour ==
  ASSUME NEW source \in Seq(Byte), NEW n \in Nat, n = Len(source),
         NEW i \in Nat, i >= 1, NEW j \in Nat, j = i + 2
  PROVE  IsStep(readUTF8Escape(source, j), i, n + 1)
<1>1. \A k \in 1..n : source[k] \in Nat
  <2>1. \A k \in 1..n : source[k] \in Byte
    OBVIOUS
  <2>2. Byte \subseteq Nat
    BY DEF Byte
  <2> QED
    BY <2>1, <2>2
<1>2. IsStep(Throws, i, n + 1)
  BY Zenon DEF IsStep
<1> DEFINE Four == j + 3 <= Len(source) /\ \A k \in j..(j + 3) : Hex(source[k]) >= 0
<1>3. CASE ~Four
  <2>1. readUTF8Escape(source, j) = Throws
    BY <1>3, Zenon DEF readUTF8Escape
  <2> QED
    BY <1>2, <2>1, Zenon
<1>4. CASE Four
  <2>1. PICK a, b, c, d : /\ a = Hex(source[j]) /\ b = Hex(source[j + 1])
                          /\ c = Hex(source[j + 2]) /\ d = Hex(source[j + 3])
    OBVIOUS
  <2>2. PICK cp : cp = 4096 * Hex(source[j]) + 256 * Hex(source[j + 1])
                         + 16 * Hex(source[j + 2]) + Hex(source[j + 3])
    OBVIOUS
  <2>3. readUTF8Escape(source, j) = IF is_surrogate(cp) THEN Throws ELSE Read(append(cp), j + 4)
    <3>1. readUTF8Escape(source, j) =
             LET v == 4096 * Hex(source[j]) + 256 * Hex(source[j + 1])
                        + 16 * Hex(source[j + 2]) + Hex(source[j + 3])
             IN  IF is_surrogate(v) THEN Throws ELSE Read(append(v), j + 4)
      BY <1>4, Zenon DEF readUTF8Escape
    <3> QED
      BY <2>2, <3>1
  <2>4. ASSUME NEW k \in Nat, k >= j, k <= j + 3
        PROVE  Hex(source[k]) \in Nat /\ Hex(source[k]) <= 15
    <3>1. k \in 1..n /\ k \in j..(j + 3)
      BY <1>4, <2>4
    <3>2. PICK h : h = source[k]
      OBVIOUS
    <3>3. h \in Nat /\ Hex(h) >= 0
      BY <1>1, <1>4, <3>1, <3>2
    <3>4. Hex(h) \in -1..15
      BY <3>3, HexDigits
    <3> QED
      BY <3>2, <3>3, <3>4
  <2>5. /\ a \in Nat /\ a <= 15 /\ b \in Nat /\ b <= 15 /\ c \in Nat /\ c <= 15
        /\ d \in Nat /\ d <= 15
    BY <2>1, <2>4
  <2>6. cp \in Nat /\ cp < 65536
    <3>1. 4096 * a + 256 * b + 16 * c + d \in Nat /\ 4096 * a + 256 * b + 16 * c + d < 65536
      BY <2>5, HexValue
    <3>2. cp = 4096 * a + 256 * b + 16 * c + d
      BY <2>1, <2>2
    <3> QED
      BY <3>1, <3>2
  <2>7. append(cp) \in Seq(Byte) /\ Len(append(cp)) \in 1..3
    BY <2>6, Appended
  <2>8. j + 4 \in Nat /\ j + 4 > i /\ j + 4 <= n + 1 /\ j + 4 - i = 6 /\ n + 1 \in Nat
    BY <1>4
  <2>9. PICK t, m : t = append(cp) /\ m = j + 4
    OBVIOUS
  <2>10. t \in Seq(Byte) /\ m \in Nat /\ m > i /\ m <= n + 1 /\ Len(t) < m - i
    <3>1. t \in Seq(Byte) /\ Len(t) \in 1..3
      BY <2>7, <2>9
    <3>2. m \in Nat /\ m > i /\ m <= n + 1 /\ m - i = 6
      BY <2>8, <2>9
    <3>3. PICK l : l = Len(t)
      OBVIOUS
    <3>4. l < m - i
      BY <3>1, <3>2, <3>3
    <3> QED
      BY <3>1, <3>2, <3>3, <3>4, Zenon
  <2>11. IsStep(Read(t, m), i, n + 1)
    BY <2>8, <2>10, MakesStep
  <2>12. readUTF8Escape(source, j) = IF is_surrogate(cp) THEN Throws ELSE Read(t, m)
    BY <2>3, <2>9
  <2> QED
    BY <1>2, <2>11, <2>12, Zenon
<1> QED
  BY <1>3, <1>4, Zenon

(* What escapeChar makes of the byte b before k, where u is what it would  *)
(* make of a u.                                                            *)
EscapeOf(b, k, u) ==
    CASE b = 98  -> Read(<<8>>, k)
      [] b = 116 -> Read(<<9>>, k)
      [] b = 110 -> Read(<<10>>, k)
      [] b = 102 -> Read(<<12>>, k)
      [] b = 114 -> Read(<<13>>, k)
      [] b \in {Quote, ReverseSolidus, 47} -> Read(<<b>>, k)
      [] b = 117 -> u
      [] OTHER -> Throws

(* Every other escape is a step, too.                                      *)
LEMMA StepOfEscape ==
  ASSUME NEW source \in Seq(Byte), NEW n \in Nat, n = Len(source),
         NEW i \in Nat, i >= 1, NEW j \in Nat, j = i + 1
  PROVE  IsStep(escapeChar(source, j), i, n + 1)
<1>1. IsStep(Throws, i, n + 1)
  BY Zenon DEF IsStep
<1>2. CASE j > Len(source)
  <2>1. escapeChar(source, j) = Throws
    BY <1>2, Zenon DEF escapeChar
  <2> QED
    BY <1>1, <2>1, Zenon
<1>3. CASE ~(j > Len(source))
  <2>1. PICK b, k : b = source[j] /\ k = j + 1
    OBVIOUS
  <2>2. k \in Nat /\ k > i /\ k <= n + 1 /\ k - i = 2 /\ n + 1 \in Nat /\ b \in Byte /\ k = i + 2
    BY <1>3, <2>1
  <2>3. ASSUME NEW x \in Byte PROVE IsStep(Read(<<x>>, k), i, n + 1)
    <3>1. <<x>> \in Seq(Byte) /\ Len(<<x>>) = 1
      OBVIOUS
    <3>2. PICK t : t = <<x>>
      OBVIOUS
    <3>3. t \in Seq(Byte) /\ Len(t) < k - i
      BY <2>2, <3>1, <3>2
    <3>4. IsStep(Read(t, k), i, n + 1)
      BY <2>2, <3>3, MakesStep
    <3> QED
      BY <3>2, <3>4, Zenon
  <2>4. IsStep(readUTF8Escape(source, k), i, n + 1)
    BY <2>2, StepOfFour
  <2>5. 8 \in Byte /\ 9 \in Byte /\ 10 \in Byte /\ 12 \in Byte /\ 13 \in Byte
    BY DEF Byte
  <2>6. escapeChar(source, j) = EscapeOf(b, k, readUTF8Escape(source, k))
    BY <1>3, <2>1, Zenon DEF escapeChar, EscapeOf
  <2>7. \/ \E x \in Byte : escapeChar(source, j) = Read(<<x>>, k)
        \/ escapeChar(source, j) = readUTF8Escape(source, k)
        \/ escapeChar(source, j) = Throws
    BY <2>2, <2>5, <2>6 DEF EscapeOf
  <2> QED
    BY <1>1, <2>3, <2>4, <2>7, Zenon
<1> QED
  BY <1>2, <1>3, Zenon

-----------------------------------------------------------------------------
Outcomes == {Throws} \union {Read(text, next) : text \in Seq(Byte), next \in Nat \ {0}}

(* A function that takes the turns of the loop at every position.          *)
Turns(source, escapes, f) ==
    /\ f \in [2..(Len(source) + 1) -> Outcomes]
    /\ \A i \in 2..(Len(source) + 1) : f[i] = Turn(source, escapes, f, i)

(* Concatenation: its type, its length, and the empty sequence.            *)
LEMMA Joined ==
  ASSUME NEW S, NEW a \in Seq(S), NEW b \in Seq(S)
  PROVE  /\ a \o b \in Seq(S) /\ Len(a \o b) = Len(a) + Len(b)
         /\ << >> \o a = a /\ a \o << >> = a
OBVIOUS

(* Concatenation is associative.                                           *)
LEMMA Associates ==
  ASSUME NEW S, NEW a \in Seq(S), NEW b \in Seq(S), NEW c \in Seq(S)
  PROVE  (a \o b) \o c = a \o (b \o c)
OBVIOUS

(* A reading is an outcome.                                                *)
LEMMA ReadIsOutcome ==
  ASSUME NEW text \in Seq(Byte), NEW next \in Nat \ {0}
  PROVE  Read(text, next) \in Outcomes
BY DEF Outcomes

(* An outcome that is no throw is a reading.                               *)
LEMMA OutcomeIs ==
  ASSUME NEW r \in Outcomes, r # Throws
  PROVE  r.text \in Seq(Byte) /\ r.next \in Nat \ {0} /\ r = Read(r.text, r.next)
<1>1. PICK text \in Seq(Byte), next \in Nat \ {0} : r = Read(text, next)
  BY DEF Outcomes
<1>2. r.text = text /\ r.next = next
  BY <1>1, ReadIsNoThrow
<1> QED
  BY <1>1, <1>2

(* What comes after a reading.                                             *)
LEMMA AfterRead ==
  ASSUME NEW text \in Seq(Byte), NEW next \in Nat \ {0}, NEW rest \in Outcomes
  PROVE  /\ After(Read(text, next), rest) \in Outcomes
         /\ rest = Throws => After(Read(text, next), rest) = Throws
         /\ rest # Throws => After(Read(text, next), rest) = Read(text \o rest.text, rest.next)
<1>1. PICK step : step = Read(text, next)
  OBVIOUS
<1>2. step # Throws /\ step.text = text
  BY <1>1, ReadIsNoThrow
<1>3. rest = Throws => After(step, rest) = Throws
  BY Zenon DEF After
<1>4. rest # Throws => After(step, rest) = Read(text \o rest.text, rest.next)
  BY <1>2, Zenon DEF After
<1>5. After(step, rest) \in Outcomes
  <2>1. Throws \in Outcomes
    BY DEF Outcomes
  <2>2. CASE rest # Throws
    <3>1. rest.text \in Seq(Byte) /\ rest.next \in Nat \ {0}
      BY <2>2, OutcomeIs
    <3>2. text \o rest.text \in Seq(Byte)
      BY <3>1, Joined
    <3>3. Read(text \o rest.text, rest.next) \in Outcomes
      BY <3>1, <3>2, ReadIsOutcome
    <3> QED
      BY <1>4, <2>2, <3>3
  <2> QED
    BY <1>3, <2>1, <2>2
<1> QED
  BY <1>1, <1>3, <1>4, <1>5

(* Two readings, one after the other, are one.                             *)
LEMMA AfterTwo ==
  ASSUME NEW a \in Seq(Byte), NEW b \in Seq(Byte), NEW k \in Nat \ {0}, NEW m \in Nat \ {0},
         NEW rest \in Outcomes
  PROVE  After(Read(a, k), After(Read(b, m), rest)) = After(Read(a \o b, k), rest)
<1>1. After(Read(b, m), rest) \in Outcomes /\ a \o b \in Seq(Byte)
  BY AfterRead, Joined
<1>2. CASE rest = Throws
  BY <1>1, <1>2, AfterRead
<1>3. CASE rest # Throws
  <2>1. rest.text \in Seq(Byte) /\ rest.next \in Nat \ {0}
    BY <1>3, OutcomeIs
  <2>2. PICK r, t : r = After(Read(b, m), rest) /\ t = b \o rest.text
    OBVIOUS
  <2>3. r = Read(t, rest.next) /\ t \in Seq(Byte)
    BY <1>3, <2>1, <2>2, AfterRead, Joined
  <2>4. r # Throws /\ r.text = t /\ r.next = rest.next
    BY <2>1, <2>3, ReadIsNoThrow
  <2>5. After(Read(a, k), r) = Read(a \o t, rest.next)
    <3>1. r \in Outcomes
      BY <1>1, <2>2
    <3>2. After(Read(a, k), r) = Read(a \o r.text, r.next)
      BY <2>4, <3>1, AfterRead
    <3> QED
      BY <2>4, <3>2
  <2>6. After(Read(a \o b, k), rest) = Read((a \o b) \o rest.text, rest.next)
    BY <1>1, <1>3, AfterRead
  <2>7. (a \o b) \o rest.text = a \o t
    <3>1. ASSUME NEW x \in Seq(Byte) PROVE (a \o b) \o x = a \o (b \o x)
      BY Associates
    <3> QED
      BY <2>1, <2>2, <3>1
  <2>8. After(Read(a \o b, k), rest) = Read(a \o t, rest.next)
    BY <2>6, <2>7
  <2> QED
    BY <2>2, <2>5, <2>8
<1> QED
  BY <1>2, <1>3

(* One turn reads on at a later position, and looks at no other.           *)
LEMMA TurnLooksAhead ==
  ASSUME NEW source \in Seq(Byte), NEW n \in Nat, n = Len(source), NEW escapes,
         NEW i \in Nat, i >= 1, i <= n + 1,
         NEW f, NEW g, \A k \in (i + 1)..(n + 1) : f[k] \in Outcomes /\ f[k] = g[k]
  PROVE  Turn(source, escapes, f, i) = Turn(source, escapes, g, i)
         /\ Turn(source, escapes, f, i) \in Outcomes
<1>1. Throws \in Outcomes
  BY DEF Outcomes
<1>2. CASE i > Len(source)
  BY <1>1, <1>2, Zenon DEF Turn
<1>3. CASE ~(i > Len(source)) /\ source[i] = Quote
  <2>1. << >> \in Seq(Byte) /\ i + 1 \in Nat \ {0}
    OBVIOUS
  <2>2. Read(<< >>, i + 1) \in Outcomes
    BY <2>1, ReadIsOutcome
  <2>3. /\ Turn(source, escapes, f, i) = Read(<< >>, i + 1)
        /\ Turn(source, escapes, g, i) = Read(<< >>, i + 1)
    BY <1>3, Zenon DEF Turn
  <2> QED
    BY <2>2, <2>3
<1>4. CASE ~(i > Len(source)) /\ source[i] # Quote
  <2>1. PICK step : step = StepAt(source, escapes, i)
    OBVIOUS
  <2>2. /\ Turn(source, escapes, f, i) = After(step, f[step.next])
        /\ Turn(source, escapes, g, i) = After(step, g[step.next])
    BY <1>4, <2>1, Zenon DEF Turn
  <2>3. \/ step = Throws
        \/ /\ step.text \in Seq(Byte) /\ step.next \in Nat /\ step = Read(step.text, step.next)
           /\ step.next \in (i + 1)..(n + 1)
    <3>1. CASE escapes /\ source[i] = ReverseSolidus
      <4>1. PICK j : j = i + 1 /\ j \in Nat
        OBVIOUS
      <4>2. IsStep(escapeChar(source, j), i, n + 1)
        BY <4>1, StepOfEscape
      <4>3. step = escapeChar(source, j)
        BY <2>1, <3>1, <4>1, Zenon DEF StepAt
      <4> QED
        BY <4>2, <4>3 DEF IsStep
    <3>2. CASE ~(escapes /\ source[i] = ReverseSolidus)
      <4>1. step = Read(<<source[i]>>, i + 1)
        BY <2>1, <3>2, Zenon DEF StepAt
      <4>2. source[i] \in Byte /\ i + 1 \in Nat \ {0} /\ i + 1 \in (i + 1)..(n + 1)
        BY <1>4
      <4>3. <<source[i]>> \in Seq(Byte)
        BY <4>2
      <4>4. step.text = <<source[i]>> /\ step.next = i + 1
        BY <4>1, <4>2, ReadIsNoThrow
      <4> QED
        BY <4>1, <4>2, <4>3, <4>4
    <3> QED
      BY <3>1, <3>2, Zenon
  <2>4. CASE step = Throws
    <3>1. After(step, f[step.next]) = Throws /\ After(step, g[step.next]) = Throws
      BY <2>4, Zenon DEF After
    <3> QED
      BY <1>1, <2>2, <3>1
  <2>5. CASE step # Throws
    <3>1. /\ step.text \in Seq(Byte) /\ step.next \in Nat \ {0} /\ step = Read(step.text, step.next)
          /\ step.next \in (i + 1)..(n + 1)
      BY <2>3, <2>5
    <3>2. f[step.next] = g[step.next] /\ f[step.next] \in Outcomes
      BY <3>1
    <3>3. After(step, f[step.next]) \in Outcomes
      BY <3>1, <3>2, AfterRead
    <3> QED
      BY <2>2, <3>2, <3>3
  <2> QED
    BY <2>4, <2>5
<1> QED
  BY <1>2, <1>3, <1>4

(* The recursive functions of the loops exist.                             *)
LEMMA LoopTurns ==
  ASSUME NEW source \in Seq(Byte), Len(source) >= 1, NEW escapes
  PROVE  \E f : Turns(source, escapes, f) /\ Loop(source, escapes) = f[2]
<1>1. PICK n \in Nat : n = Len(source) /\ n >= 1
  OBVIOUS
<1> DEFINE Ends(f, k) == \A i \in 2..(n + 1) : i + k > n => f[i] = Turn(source, escapes, f, i)
           S == {k \in Nat : k <= n => \E f \in [2..(n + 1) -> Outcomes] : Ends(f, k)}
           Go(f) == [i \in 2..(n + 1) |-> Turn(source, escapes, f, i)]
           from == CHOOSE f : f = Go(f)
<1>2. 0 \in S
  <2>1. Throws \in Outcomes
    BY DEF Outcomes
  <2> DEFINE f == [i \in 2..(n + 1) |-> Throws]
  <2>2. f \in [2..(n + 1) -> Outcomes]
    BY <2>1
  <2>3. ASSUME NEW i \in 2..(n + 1), i + 0 > n PROVE f[i] = Turn(source, escapes, f, i)
    <3>1. i > Len(source)
      BY <1>1, <2>3
    <3> QED
      BY <3>1, Zenon DEF Turn
  <2> HIDE DEF f
  <2> QED
    BY <2>2, <2>3
<1>3. ASSUME NEW k \in Nat, k \in S PROVE k + 1 \in S
  <2> SUFFICES ASSUME k + 1 <= n PROVE \E f \in [2..(n + 1) -> Outcomes] : Ends(f, k + 1)
    OBVIOUS
  <2>1. PICK f \in [2..(n + 1) -> Outcomes] : Ends(f, k)
    BY <1>3
  <2>2. PICK i \in Nat : i = n - k /\ i >= 1 /\ i <= n + 1
    BY <1>1
  <2>3. PICK t : t = Turn(source, escapes, f, i) /\ t \in Outcomes
    <3>1. \A j \in (i + 1)..(n + 1) : f[j] \in Outcomes /\ f[j] = f[j]
      BY <2>2
    <3>2. Turn(source, escapes, f, i) \in Outcomes
      BY <1>1, <2>2, <3>1, TurnLooksAhead
    <3> QED
      BY <3>2
  <2> DEFINE g == [f EXCEPT ![i] = t]
  <2>4. g \in [2..(n + 1) -> Outcomes] /\ \A j \in 2..(n + 1) : g[j] = IF j = i THEN t ELSE f[j]
    BY <2>3
  <2> HIDE DEF g
  <2>5. ASSUME NEW j \in 2..(n + 1), j + (k + 1) > n PROVE g[j] = Turn(source, escapes, g, j)
    <3>1. j \in Nat /\ j >= i /\ j >= 1 /\ j <= n + 1
      BY <2>2, <2>5
    <3>2. \A l \in (j + 1)..(n + 1) : f[l] \in Outcomes /\ f[l] = g[l]
      BY <2>4, <3>1, <2>2
    <3>3. Turn(source, escapes, f, j) = Turn(source, escapes, g, j)
      BY <1>1, <2>4, <3>1, <3>2, TurnLooksAhead
    <3>4. CASE j = i
      BY <2>3, <2>4, <3>3, <3>4
    <3>5. CASE j # i
      <4>1. j + k > n /\ g[j] = f[j]
        BY <2>2, <2>4, <3>1, <3>5
      <4> QED
        BY <2>1, <3>3, <4>1
    <3> QED
      BY <3>4, <3>5
  <2> QED
    BY <2>4, <2>5
<1> HIDE DEF S
<1>4. n \in S
  BY <1>2, <1>3, Induction
<1>5. PICK f \in [2..(n + 1) -> Outcomes] : Ends(f, n)
  BY <1>4 DEF S
<1>6. f = Go(f)
  BY <1>1, <1>5
<1>7. from = Go(from)
  BY <1>6
<1>8. Loop(source, escapes) = from[2]
  BY <1>1 DEF Loop, Turn, After, StepAt
<1> HIDE DEF from
<1>9. \A i \in 2..(n + 1) : from[i] = Turn(source, escapes, from, i)
  <2>1. ASSUME NEW i \in 2..(n + 1) PROVE Go(from)[i] = Turn(source, escapes, from, i)
    OBVIOUS
  <2> HIDE DEF Go
  <2> QED
    BY <1>7, <2>1
<1> DEFINE T == {k \in Nat : k <= n => \A i \in 2..(n + 1) : i + k > n => from[i] = f[i]}
<1>10. ASSUME NEW k \in Nat, k <= n, \A i \in 2..(n + 1) : i + k > n + 1 => from[i] = f[i],
              NEW i \in 2..(n + 1), i + k > n
       PROVE  from[i] = f[i]
  <2>1. \A j \in (i + 1)..(n + 1) : f[j] \in Outcomes /\ f[j] = from[j]
    BY <1>10
  <2>2. i \in Nat /\ i >= 1 /\ i <= n + 1
    OBVIOUS
  <2>3. Turn(source, escapes, f, i) = Turn(source, escapes, from, i)
    BY <1>1, <2>1, <2>2, TurnLooksAhead
  <2>4. f[i] = Turn(source, escapes, f, i)
    BY <1>5
  <2> QED
    BY <1>9, <2>3, <2>4
<1>11. 0 \in T
  <2> SUFFICES ASSUME NEW i \in 2..(n + 1), i + 0 > n PROVE from[i] = f[i]
    OBVIOUS
  <2>1. \A j \in 2..(n + 1) : j + 0 > n + 1 => from[j] = f[j]
    OBVIOUS
  <2> QED
    BY <1>1, <1>10, <2>1
<1>12. ASSUME NEW k \in Nat, k \in T PROVE k + 1 \in T
  <2> SUFFICES ASSUME k + 1 <= n, NEW i \in 2..(n + 1), i + (k + 1) > n PROVE from[i] = f[i]
    OBVIOUS
  <2>1. \A j \in 2..(n + 1) : j + k > n => from[j] = f[j]
    BY <1>12
  <2>2. PICK m \in Nat : m = k + 1 /\ m <= n /\ i + m > n
    OBVIOUS
  <2>3. \A j \in 2..(n + 1) : j + m > n + 1 => from[j] = f[j]
    BY <2>1, <2>2
  <2> QED
    BY <1>10, <2>2, <2>3
<1> HIDE DEF T
<1>13. n \in T
  BY <1>11, <1>12, Induction
<1>14. \A i \in 2..(n + 1) : from[i] = f[i]
  BY <1>1, <1>13 DEF T
<1>15. Turns(source, escapes, from)
  <2>1. from = [i \in 2..(n + 1) |-> Turn(source, escapes, from, i)]
    BY <1>7, Zenon
  <2>2. \A i \in 2..(n + 1) : Turn(source, escapes, from, i) \in Outcomes
    BY <1>9, <1>14
  <2>3. from \in [2..(n + 1) -> Outcomes]
    BY <2>1, <2>2
  <2> QED
    BY <1>1, <1>9, <2>3 DEF Turns
<1> QED
  BY <1>8, <1>15

-----------------------------------------------------------------------------
(* Plain bytes are read as they stand.                                     *)
LEMMA TurnOfByte ==
  ASSUME NEW source \in Seq(Byte), NEW n \in Nat, n = Len(source), NEW escapes, NEW f,
         Turns(source, escapes, f), NEW i \in Nat, i >= 2, i <= n, source[i] # Quote,
         ~(escapes /\ source[i] = ReverseSolidus)
  PROVE  f[i] = After(Read(<<source[i]>>, i + 1), f[i + 1]) /\ source[i] \in Byte
         /\ f[i + 1] \in Outcomes /\ f[i] \in Outcomes
<1>1. i \in 2..(n + 1) /\ i + 1 \in 2..(n + 1) /\ i \in 1..n /\ i + 1 \in Nat \ {0}
  OBVIOUS
<1>2. f \in [2..(n + 1) -> Outcomes] /\ f[i] = Turn(source, escapes, f, i)
  BY <1>1 DEF Turns
<1>3. ~(i > Len(source))
  OBVIOUS
<1>4. PICK step : step = StepAt(source, escapes, i)
  OBVIOUS
<1>5. Turn(source, escapes, f, i) = After(step, f[step.next])
  BY <1>3, <1>4, Zenon DEF Turn
<1>6. step = Read(<<source[i]>>, i + 1)
  BY <1>4, Zenon DEF StepAt
<1>7. step.next = i + 1
  BY <1>1, <1>6, ReadIsNoThrow
<1> QED
  BY <1>1, <1>2, <1>5, <1>6, <1>7

(* The quotation mark ends the loop.                                       *)
LEMMA TurnOfQuote ==
  ASSUME NEW source \in Seq(Byte), NEW n \in Nat, n = Len(source), NEW escapes, NEW f,
         Turns(source, escapes, f), NEW i \in Nat, i >= 2, i <= n, source[i] = Quote
  PROVE  f[i] = Read(<< >>, i + 1)
<1>1. i \in 2..(n + 1) /\ ~(i > Len(source))
  OBVIOUS
<1>2. f[i] = Turn(source, escapes, f, i)
  BY <1>1 DEF Turns
<1> QED
  BY <1>1, <1>2, Zenon DEF Turn

(* An escape is read by escapeChar.                                        *)
LEMMA TurnOfEscape ==
  ASSUME NEW source \in Seq(Byte), NEW n \in Nat, n = Len(source), NEW escapes, NEW f,
         Turns(source, escapes, f), NEW i \in Nat, i >= 2, i <= n, source[i] = ReverseSolidus,
         NEW step, step = StepAt(source, escapes, i)
  PROVE  f[i] = After(step, f[step.next])
<1>1. i \in 2..(n + 1) /\ ~(i > Len(source)) /\ source[i] # Quote
  BY DEF Quote, ReverseSolidus
<1>2. f[i] = Turn(source, escapes, f, i)
  BY <1>1 DEF Turns
<1> QED
  BY <1>1, <1>2, Zenon DEF Turn

(* A text stands in the source from position i on.                         *)
Stands(text, source, i) ==
    i + Len(text) <= Len(source) + 1 /\ \A j \in 1..Len(text) : source[i + j - 1] = text[j]

(* Bytes that the loop reads as they stand.                                *)
PlainBytes(text, escapes) ==
    \A j \in 1..Len(text) : text[j] # Quote /\ ~(escapes /\ text[j] = ReverseSolidus)

(* Such bytes are read one by one, and so all of them.                     *)
LEMMA PlainBytesAreRead ==
  ASSUME NEW source \in Seq(Byte), NEW n \in Nat, n = Len(source), NEW escapes, NEW f,
         Turns(source, escapes, f), NEW i \in Nat, i >= 2, i <= n + 1, NEW text \in Seq(Byte),
         Stands(text, source, i), PlainBytes(text, escapes), text # << >>
  PROVE  f[i] = After(Read(text, i + 1), f[i + Len(text)])
<1> DEFINE P(k) == SubSeq(text, 1, k)
           S == {k \in Nat : k + 1 <= Len(text) =>
                               f[i] = After(Read(P(k + 1), i + 1), f[i + (k + 1)])}
<1>1. PICK m \in Nat : m = Len(text) /\ i + m <= n + 1
  BY DEF Stands
<1>2. ASSUME NEW j \in Nat, j >= 1, j <= m
      PROVE  /\ f[i + j - 1] = After(Read(<<text[j]>>, i + j), f[i + j])
             /\ text[j] \in Byte /\ f[i + j] \in Outcomes
  <2>1. PICK k : k = i + j - 1 /\ k \in Nat /\ k >= 2 /\ k <= n /\ k + 1 = i + j
    BY <1>1, <1>2
  <2>2. j \in 1..Len(text)
    BY <1>1, <1>2
  <2>3. source[k] = text[j] /\ text[j] # Quote /\ ~(escapes /\ text[j] = ReverseSolidus)
    BY <2>1, <2>2 DEF Stands, PlainBytes
  <2>4. source[k] # Quote /\ ~(escapes /\ source[k] = ReverseSolidus)
    BY <2>3, Zenon
  <2>5. f[k] = After(Read(<<source[k]>>, k + 1), f[k + 1]) /\ source[k] \in Byte
        /\ f[k + 1] \in Outcomes
    BY <2>1, <2>4, TurnOfByte
  <2> QED
    BY <2>1, <2>3, <2>5
<1>3. 0 \in S
  <2> SUFFICES ASSUME 1 <= m PROVE f[i] = After(Read(P(1), i + 1), f[i + 1])
    BY <1>1
  <2>1. f[i + 1 - 1] = After(Read(<<text[1]>>, i + 1), f[i + 1]) /\ i + 1 - 1 = i
    BY <1>2
  <2>2. P(1) = <<text[1]>>
    <3>1. 1 \in 1..Len(text) /\ 1 - 1 = 0 /\ text[1] \in Byte
      BY <1>1
    <3>2. SubSeq(text, 1, 1) = Append(SubSeq(text, 1, 1 - 1), text[1])
      BY <3>1, OneMore
    <3>3. SubSeq(text, 1, 0) = << >> /\ Append(<< >>, text[1]) = <<text[1]>>
      BY <3>1, SubSeqEmpty, Tuples
    <3> QED
      BY <3>1, <3>2, <3>3, Zenon
  <2> HIDE DEF P
  <2> QED
    BY <2>1, <2>2, Zenon
<1>4. ASSUME NEW k \in Nat, k \in S PROVE k + 1 \in S
  <2> SUFFICES ASSUME (k + 1) + 1 <= m
               PROVE  f[i] = After(Read(P((k + 1) + 1), i + 1), f[i + ((k + 1) + 1)])
    BY <1>1
  <2>1. PICK j : j = (k + 1) + 1 /\ j \in Nat /\ j >= 1 /\ j <= m /\ i + j - 1 = i + (k + 1)
                 /\ j \in 1..Len(text) /\ j - 1 = k + 1 /\ i + j \in Nat \ {0}
                 /\ i + 1 \in Nat \ {0}
    <3> HIDE DEF S, P
    <3>1. /\ (k + 1) + 1 \in Nat /\ (k + 1) + 1 >= 1 /\ i + ((k + 1) + 1) - 1 = i + (k + 1)
          /\ ((k + 1) + 1) - 1 = k + 1 /\ i + ((k + 1) + 1) \in Nat \ {0}
          /\ i + 1 \in Nat \ {0}
      OBVIOUS
    <3>2. (k + 1) + 1 \in 1..m
      BY <1>1, <3>1
    <3> QED
      BY <1>1, <3>1, <3>2
  <2>2. f[i] = After(Read(P(k + 1), i + 1), f[i + (k + 1)])
    <3>1. k + 1 <= Len(text)
      BY <1>1, <2>1
    <3> HIDE DEF P
    <3> QED
      BY <1>4, <3>1, Zenon
  <2>3. /\ f[i + (k + 1)] = After(Read(<<text[j]>>, i + j), f[i + j])
        /\ text[j] \in Byte /\ f[i + j] \in Outcomes
    BY <1>2, <2>1
  <2>4. /\ P(j - 1) \in Seq(Byte) /\ P(j) = Append(P(j - 1), text[j])
    BY <2>1, OneMore
  <2>5. PICK a, b : a = P(k + 1) /\ b = <<text[j]>> /\ a \in Seq(Byte) /\ b \in Seq(Byte)
    <3>1. P(k + 1) \in Seq(Byte)
      BY <2>1, <2>4
    <3>2. <<text[j]>> \in Seq(Byte)
      BY <2>3
    <3> QED
      BY <3>1, <3>2
  <2>6. P(j) = a \o b
    <3>1. P(j) = Append(a, text[j])
      BY <2>1, <2>4, <2>5
    <3>2. Append(a, text[j]) = a \o <<text[j]>>
      BY <2>3, <2>5
    <3> QED
      BY <2>5, <3>1, <3>2
  <2>7. PICK r, l, q : r = f[i + j] /\ r \in Outcomes /\ l = i + 1 /\ l \in Nat \ {0}
                       /\ q = i + j /\ q \in Nat \ {0}
    BY <2>1, <2>3
  <2>8. After(Read(a, l), After(Read(b, q), r)) = After(Read(a \o b, l), r)
    <3>1. l \in Nat \ {0} /\ q \in Nat \ {0} /\ r \in Outcomes /\ a \in Seq(Byte) /\ b \in Seq(Byte)
      BY <2>5, <2>7
    <3> HIDE DEF P
    <3> QED
      BY <3>1, AfterTwo
  <2> HIDE DEF P
  <2>9. f[i] = After(Read(a, l), After(Read(b, q), r))
    BY <2>2, <2>3, <2>5, <2>7
  <2> QED
    BY <2>1, <2>6, <2>7, <2>8, <2>9
<1> HIDE DEF S
<1>5. m >= 1 /\ m - 1 \in Nat /\ (m - 1) + 1 = m
  BY <1>1
<1>6. m - 1 \in S
  BY <1>3, <1>4, <1>5, Induction
<1>7. P(m) = text
  BY <1>1
<1>8. f[i] = After(Read(P(m), i + 1), f[i + m])
  BY <1>1, <1>5, <1>6 DEF S
<1> QED
  BY <1>1, <1>7, <1>8

(* What is read is no longer than its spelling, and an escape makes it     *)
(* shorter.                                                                *)
Shorter(source, escapes, result, i) ==
    \/ result = Throws
    \/ /\ result.next \in (i + 1)..(Len(source) + 1)
       /\ Len(result.text) + i < result.next
       /\ ~escapes => Len(result.text) + i + 1 = result.next
       /\ Len(result.text) + i + 1 = result.next =>
             \A j \in i..(result.next - 2) :
                source[j] # Quote /\ ~(escapes /\ source[j] = ReverseSolidus)

(* One turn keeps that, given the later positions.                         *)
LEMMA OneTurnShorter ==
  ASSUME NEW source \in Seq(Byte), NEW n \in Nat, n = Len(source), NEW escapes, NEW f,
         Turns(source, escapes, f), NEW i \in Nat, i >= 2, i <= n + 1,
         \A k \in (i + 1)..(n + 1) : Shorter(source, escapes, f[k], k)
  PROVE  Shorter(source, escapes, f[i], i)
<1>1. CASE i = n + 1
  <2>1. i \in 2..(n + 1) /\ i > Len(source)
    BY <1>1
  <2>2. f[i] = Turn(source, escapes, f, i)
    BY <2>1 DEF Turns
  <2>3. f[i] = Throws
    BY <2>1, <2>2, Zenon DEF Turn
  <2> QED
    BY <2>3, Zenon DEF Shorter
<1>2. CASE i <= n /\ source[i] = Quote
  <2>1. f[i] = Read(<< >>, i + 1)
    BY <1>2, TurnOfQuote
  <2>2. f[i].next = i + 1 /\ f[i].text = << >>
    BY <2>1, ReadIsNoThrow
  <2>3. /\ f[i].next \in (i + 1)..(Len(source) + 1) /\ Len(f[i].text) + i < f[i].next
        /\ Len(f[i].text) + i + 1 = f[i].next /\ i..(f[i].next - 2) = {}
    BY <1>2, <2>2
  <2> QED
    BY <2>3 DEF Shorter
<1>3. CASE i <= n /\ source[i] # Quote /\ ~(escapes /\ source[i] = ReverseSolidus)
  <2>1. PICK k, r, b : k = i + 1 /\ r = f[i + 1] /\ b = <<source[i]>>
    OBVIOUS
  <2>2. f[i] = After(Read(b, k), r) /\ source[i] \in Byte /\ r \in Outcomes
    BY <1>3, <2>1, TurnOfByte
  <2>3. b \in Seq(Byte) /\ Len(b) = 1 /\ k \in Nat \ {0} /\ k \in (i + 1)..(n + 1)
    BY <1>3, <2>1, <2>2
  <2>4. CASE r = Throws
    <3>1. f[i] = Throws
      BY <2>2, <2>3, <2>4, AfterRead
    <3> QED
      BY <3>1, Zenon DEF Shorter
  <2>5. CASE r # Throws
    <3>1. f[i] = Read(b \o r.text, r.next)
      BY <2>2, <2>3, <2>5, AfterRead
    <3>2. r.text \in Seq(Byte) /\ r.next \in Nat \ {0}
      BY <2>2, <2>5, OutcomeIs
    <3>3. PICK t, m : t = r.text /\ m = r.next /\ m \in Nat \ {0} /\ t \in Seq(Byte)
      BY <3>2
    <3>4. PICK u : u = b \o t
      OBVIOUS
    <3>5. PICK l : l = Len(t) /\ l \in Nat
      BY <3>3
    <3>6. f[i].text = u /\ f[i].next = m
      <4>1. f[i] = Read(u, m)
        BY <3>1, <3>3, <3>4
      <4>2. Read(u, m).text = u /\ Read(u, m).next = m
        BY <3>3, ReadIsNoThrow
      <4> QED
        BY <4>1, <4>2
    <3>7. Len(f[i].text) = l + 1
      <4>1. Len(u) = Len(b) + Len(t)
        BY <2>3, <3>3, <3>4, Joined
      <4> QED
        BY <2>3, <3>5, <3>6, <4>1
    <3>8. Shorter(source, escapes, r, k)
      BY <2>1, <2>3
    <3>9. /\ m \in (k + 1)..(Len(source) + 1) /\ l + k < m
          /\ ~escapes => l + k + 1 = m
          /\ l + k + 1 = m => \A j \in k..(m - 2) :
                source[j] # Quote /\ ~(escapes /\ source[j] = ReverseSolidus)
      BY <2>5, <3>3, <3>5, <3>8, Zenon DEF Shorter
    <3>10. m \in (k + 1)..(Len(source) + 1) /\ l + k < m
      BY <3>9, Zenon
    <3>11. l + k + 1 = l + 1 + i + 1
      BY <2>1, <3>5
    <3>12. m \in (i + 1)..(Len(source) + 1) /\ l + 1 + i < m
      <4>1. k = i + 1 /\ m \in Nat /\ l \in Nat
        BY <2>1, <3>3, <3>5
      <4>2. m \in (i + 1)..(Len(source) + 1)
        BY <3>10, <4>1
      <4>3. l + 1 + i < m
        BY <3>10, <4>1
      <4> QED
        BY <4>2, <4>3
    <3>13. ~escapes => l + 1 + i + 1 = m
      BY <3>9, <3>11, Zenon
    <3>14. ASSUME l + 1 + i + 1 = m, NEW j \in i..(m - 2)
           PROVE  source[j] # Quote /\ ~(escapes /\ source[j] = ReverseSolidus)
      <4>1. CASE j = i
        BY <1>3, <4>1, Zenon
      <4>2. CASE j # i
        <5>1. j \in k..(m - 2) /\ l + k + 1 = m
          BY <2>1, <3>3, <3>11, <3>14, <4>2
        <5> QED
          BY <3>9, <5>1, Zenon
      <4> QED
        BY <4>1, <4>2
    <3> QED
      BY <3>6, <3>7, <3>12, <3>13, <3>14, Zenon DEF Shorter
  <2> QED
    BY <2>4, <2>5
<1>4. CASE i <= n /\ escapes /\ source[i] = ReverseSolidus
  <2>1. PICK k : k = i + 1 /\ k \in Nat /\ i >= 1
    OBVIOUS
  <2>2. PICK step : step = escapeChar(source, i + 1)
    OBVIOUS
  <2>3. f[i] = After(step, f[step.next]) /\ IsStep(step, i, n + 1)
    <3>1. f[i] = After(step, f[step.next])
      <4>1. i <= n /\ source[i] = ReverseSolidus
        BY <1>4, Zenon
      <4>2. step = StepAt(source, escapes, i)
        BY <1>4, <2>2, Zenon DEF StepAt
      <4> QED
        BY <4>1, <4>2, TurnOfEscape
    <3>2. IsStep(escapeChar(source, k), i, n + 1)
      BY <2>1, StepOfEscape
    <3> QED
      BY <2>1, <2>2, <3>1, <3>2
  <2>4. CASE step = Throws
    <3>1. f[i] = Throws
      BY <2>3, <2>4, Zenon DEF After
    <3> QED
      BY <3>1, Zenon DEF Shorter
  <2>5. CASE step # Throws
    <3>1. /\ step.text \in Seq(Byte) /\ step.next \in Nat /\ step = Read(step.text, step.next)
          /\ step.next \in (i + 1)..(n + 1) /\ Len(step.text) < step.next - i
      BY <2>3, <2>5 DEF IsStep
    <3>2. PICK b, q, p, r : b = step.text /\ q = step.next /\ p = Len(b) /\ r = f[q]
      OBVIOUS
    <3>3. b \in Seq(Byte) /\ p \in Nat /\ q \in Nat \ {0} /\ q \in (i + 1)..(n + 1) /\ p < q - i
          /\ q \in 2..(n + 1)
      BY <3>1, <3>2
    <3>4. r \in Outcomes /\ Shorter(source, escapes, r, q)
      BY <3>2, <3>3 DEF Turns
    <3>5. f[i] = After(Read(b, q), r)
      BY <2>3, <3>1, <3>2
    <3>6. CASE r = Throws
      <4>1. f[i] = Throws
        BY <3>3, <3>4, <3>5, <3>6, AfterRead
      <4> QED
        BY <4>1, Zenon DEF Shorter
    <3>7. CASE r # Throws
      <4>1. f[i] = Read(b \o r.text, r.next)
        BY <3>3, <3>4, <3>5, <3>7, AfterRead
      <4>2. r.text \in Seq(Byte) /\ r.next \in Nat \ {0}
        BY <3>4, <3>7, OutcomeIs
      <4>3. PICK t, m : t = r.text /\ m = r.next /\ m \in Nat \ {0} /\ t \in Seq(Byte)
        BY <4>2
      <4>11. PICK l : l = Len(t) /\ l \in Nat
        BY <4>3
      <4>12. PICK u : u = b \o t
        OBVIOUS
      <4>4. f[i].text = u /\ f[i].next = m
        <5>1. f[i] = Read(u, m)
          BY <4>1, <4>3, <4>12
        <5>2. Read(u, m).text = u /\ Read(u, m).next = m
          BY <4>3, ReadIsNoThrow
        <5> QED
          BY <5>1, <5>2
      <4>5. Len(f[i].text) = p + l
        <5>1. Len(u) = Len(b) + Len(t)
          BY <3>3, <4>3, <4>12, Joined
        <5> QED
          BY <3>2, <3>3, <4>11, <4>4, <5>1
      <4>6. m \in (q + 1)..(n + 1) /\ l + q < m
        BY <3>4, <3>7, <4>3, <4>11 DEF Shorter
      <4>7. m \in (i + 1)..(n + 1) /\ p + l + i < m /\ p + l + i + 1 # m
        BY <3>3, <4>3, <4>11, <4>6
      <4> QED
        BY <1>4, <4>4, <4>5, <4>7 DEF Shorter
    <3> QED
      BY <3>6, <3>7
  <2> QED
    BY <2>4, <2>5
<1>5. i = n + 1 \/ i <= n
  OBVIOUS
<1> QED
  BY <1>1, <1>2, <1>3, <1>4, <1>5, Zenon

(* So it holds of the whole string, from its end to its start.             *)
LEMMA TextIsShorter ==
  ASSUME NEW source \in Seq(Byte), NEW n \in Nat, n = Len(source), n >= 1, NEW escapes, NEW f,
         Turns(source, escapes, f)
  PROVE  Shorter(source, escapes, f[2], 2)
<1> DEFINE S == {k \in Nat : k <= n => \A i \in 2..(n + 1) : i + k > n =>
                                            Shorter(source, escapes, f[i], i)}
<1>1. ASSUME NEW k \in Nat, k <= n, NEW i \in 2..(n + 1), i + k > n,
             \A j \in 2..(n + 1) : j + k > n + 1 => Shorter(source, escapes, f[j], j)
      PROVE  Shorter(source, escapes, f[i], i)
  <2>1. i \in Nat /\ i >= 2 /\ i <= n + 1
    OBVIOUS
  <2>2. \A j \in (i + 1)..(n + 1) : Shorter(source, escapes, f[j], j)
    BY <1>1
  <2> QED
    BY <2>1, <2>2, OneTurnShorter
<1>2. 0 \in S
  <2> SUFFICES ASSUME NEW i \in 2..(n + 1), i + 0 > n PROVE Shorter(source, escapes, f[i], i)
    OBVIOUS
  <2>1. \A j \in 2..(n + 1) : j + 0 > n + 1 => Shorter(source, escapes, f[j], j)
    OBVIOUS
  <2> QED
    BY <1>1, <2>1
<1>3. ASSUME NEW k \in Nat, k \in S PROVE k + 1 \in S
  <2> SUFFICES ASSUME k + 1 <= n, NEW i \in 2..(n + 1), i + (k + 1) > n
               PROVE  Shorter(source, escapes, f[i], i)
    OBVIOUS
  <2>1. \A j \in 2..(n + 1) : j + k > n => Shorter(source, escapes, f[j], j)
    BY <1>3
  <2>2. PICK m \in Nat : m = k + 1 /\ m <= n /\ i + m > n
    OBVIOUS
  <2>3. \A j \in 2..(n + 1) : j + m > n + 1 => Shorter(source, escapes, f[j], j)
    BY <2>1, <2>2
  <2> QED
    BY <1>1, <2>2, <2>3
<1> HIDE DEF S
<1>4. n \in S
  BY <1>2, <1>3, Induction
<1> QED
  BY <1>4 DEF S

(* The powers that the encodings are made of.                              *)
LEMMA Powers ==
  /\ 2 ^ 11 = 2048 /\ 2 ^ 16 = 65536 /\ 2 ^ 21 = 2097152
  /\ 2 ^ 6 = 64 /\ 2 ^ 5 = 32 /\ 2 ^ 4 = 16
  /\ 64 ^ 0 = 1 /\ 64 ^ 1 = 64 /\ 64 ^ 2 = 4096 /\ 64 ^ 3 = 262144
  /\ 16 ^ 0 = 1 /\ 16 ^ 1 = 16 /\ 16 ^ 2 = 256 /\ 16 ^ 3 = 4096
BY SMT

(* How many bytes follow the first in the encoding of a character.         *)
FollowedBy(c, k) == c < 2 ^ (5 * k + 6) /\ (k = 1 \/ c >= 2 ^ (5 * k + 1))
Following(c) == CHOOSE k \in 1..3 : FollowedBy(c, k)

(* How many bytes follow depends on the size of the character.             *)
LEMMA FollowingIs ==
  ASSUME NEW c \in Nat, c <= 1114111
  PROVE  /\ c < 2048 => Following(c) = 1
         /\ c >= 2048 /\ c < 65536 => Following(c) = 2
         /\ c >= 65536 => Following(c) = 3
<1>1. /\ FollowedBy(c, 1) <=> c < 2048
      /\ FollowedBy(c, 2) <=> c < 65536 /\ c >= 2048
      /\ FollowedBy(c, 3) <=> c < 2097152 /\ c >= 65536
  <2>1. 5 * 1 + 6 = 11 /\ 5 * 2 + 6 = 16 /\ 5 * 3 + 6 = 21 /\ 5 * 2 + 1 = 11 /\ 5 * 3 + 1 = 16
    BY SMT
  <2>2. /\ 2 ^ (5 * 1 + 6) = 2048 /\ 2 ^ (5 * 2 + 6) = 65536 /\ 2 ^ (5 * 3 + 6) = 2097152
        /\ 2 ^ (5 * 2 + 1) = 2048 /\ 2 ^ (5 * 3 + 1) = 65536
    BY <2>1, Powers, SMT
  <2>3. FollowedBy(c, 1) <=> c < 2048
    BY <2>2, SMT DEF FollowedBy
  <2>4. FollowedBy(c, 2) <=> c < 65536 /\ c >= 2048
    BY <2>2, SMT DEF FollowedBy
  <2>5. FollowedBy(c, 3) <=> c < 2097152 /\ c >= 65536
    BY <2>2, SMT DEF FollowedBy
  <2> QED
    BY <2>3, <2>4, <2>5, SMT
<1>2. \A k \in 1..3 : k = 1 \/ k = 2 \/ k = 3
  BY SMT
<1>3. CASE c < 2048
  <2>1. \A k \in 1..3 : FollowedBy(c, k) <=> k = 1
    BY <1>1, <1>2, <1>3, SMT
  <2>2. Following(c) = 1
    BY <2>1, SMT DEF Following
  <2> QED
    BY <1>3, <2>2, SMT
<1>4. CASE c >= 2048 /\ c < 65536
  <2>1. \A k \in 1..3 : FollowedBy(c, k) <=> k = 2
    BY <1>1, <1>2, <1>4, SMT
  <2>2. Following(c) = 2
    BY <2>1, SMT DEF Following
  <2> QED
    BY <1>4, <2>2, SMT
<1>5. CASE c >= 65536
  <2>1. \A k \in 1..3 : FollowedBy(c, k) <=> k = 3
    BY <1>1, <1>2, <1>5, SMT
  <2>2. Following(c) = 3
    BY <2>1, SMT DEF Following
  <2> QED
    BY <1>5, <2>2, SMT
<1> QED
  BY <1>3, <1>4, <1>5, SMT

(* One byte before others.                                                 *)
LEMMA Prefixed ==
  ASSUME NEW x \in Byte, NEW s \in Seq(Byte), NEW k \in Nat, k = Len(s), NEW t, t = <<x>> \o s
  PROVE  t \in Seq(Byte) /\ Len(t) = k + 1 /\ t[1] = x /\ \A j \in 1..k : t[j + 1] = s[j]
<1>1. <<x>> \in Seq(Byte) /\ Len(<<x>>) = 1 /\ <<x>>[1] = x
  OBVIOUS
<1>2. PICK u : u = <<x>>
  OBVIOUS
<1>3. t = u \o s /\ u \in Seq(Byte) /\ Len(u) = 1 /\ u[1] = x
  BY <1>1, <1>2
<1>4. t \in Seq(Byte) /\ Len(t) = k + 1
  BY <1>3, Joined
<1>5. \A j \in 1..(k + 1) : t[j] = IF j <= 1 THEN u[j] ELSE s[j - 1]
  BY <1>3
<1> QED
  BY <1>3, <1>4, <1>5

(* Two sequences of two or three bytes that agree are the same.            *)
LEMMA SameBytes ==
  ASSUME NEW t \in Seq(Byte), NEW u \in Seq(Byte), Len(t) = Len(u), t[1] = u[1], t[2] = u[2]
  PROVE  /\ Len(t) = 2 => t = u
         /\ Len(t) = 3 /\ t[3] = u[3] => t = u
OBVIOUS

(* The bytes of such an encoding: the first one, and the others from the   *)
(* last on.                                                                *)
FirstByte(c, k) == 256 - 2 ^ (7 - k) + c \div 64 ^ k
LastByte(c, i) == 128 + ((c \div 64 ^ i) % 64)
OtherBytes(c, k) == [j \in 1..k |-> LastByte(c, k - j)]

(* The encoding of a character of several bytes.                           *)
LEMMA Utf8Unfolds ==
  ASSUME NEW c, ~(c < 128)
  PROVE  Utf8(c) = <<FirstByte(c, Following(c))>> \o OtherBytes(c, Following(c))
BY Zenon DEF Utf8, Following, FollowedBy, FirstByte, LastByte, OtherBytes

(* The first byte of two.                                                  *)
LEMMA FirstOfTwo ==
  ASSUME NEW c \in Nat
  PROVE  FirstByte(c, 1) = 192 + c \div 64
<1>1. 7 - 1 = 6
  BY SMT
<1> QED
  BY <1>1, Powers, SMT DEF FirstByte

(* What append makes of such a character.                                  *)
LEMMA Appends ==
  ASSUME NEW c \in Nat, c >= 128, NEW o, o = append(c)
  PROVE  /\ c < 2048 => Len(o) = 2 /\ o[1] = 192 + c \div 64 /\ o[2] = 128 + (c % 64)
         /\ c >= 2048 => /\ Len(o) = 3 /\ o[1] = 224 + c \div 4096
                         /\ o[2] = 128 + ((c \div 64) % 64) /\ o[3] = 128 + (c % 64)
BY SMT DEF append

(* The bytes of an encoding in terms of the digits of the character.       *)
LEMMA BytesAre ==
  ASSUME NEW c \in Nat
  PROVE  /\ FirstByte(c, 1) = 192 + c \div 64
         /\ FirstByte(c, 2) = 224 + c \div 4096
         /\ FirstByte(c, 3) = 240 + c \div 262144
         /\ LastByte(c, 0) = 128 + (c % 64)
         /\ LastByte(c, 1) = 128 + ((c \div 64) % 64)
         /\ LastByte(c, 2) = 128 + ((c \div 4096) % 64)
<1>1. 7 - 1 = 6 /\ 7 - 2 = 5 /\ 7 - 3 = 4 /\ c \div 1 = c
  BY SMT
<1>2. FirstByte(c, 1) = 192 + c \div 64
  BY <1>1, Powers, SMT DEF FirstByte
<1>3. FirstByte(c, 2) = 224 + c \div 4096
  BY <1>1, Powers, SMT DEF FirstByte
<1>4. FirstByte(c, 3) = 240 + c \div 262144
  BY <1>1, Powers, SMT DEF FirstByte
<1>5. LastByte(c, 0) = 128 + (c % 64)
  BY <1>1, Powers, SMT DEF LastByte
<1>6. LastByte(c, 1) = 128 + ((c \div 64) % 64)
  BY <1>1, Powers, SMT DEF LastByte
<1>7. LastByte(c, 2) = 128 + ((c \div 4096) % 64)
  BY <1>1, Powers, SMT DEF LastByte
<1> QED
  BY <1>2, <1>3, <1>4, <1>5, <1>6, <1>7, SMT

(* An encoding of several bytes has none below 128.                        *)
LEMMA ManyBytes ==
  ASSUME NEW c \in Nat, c <= 1114111, c >= 128, NEW k, k = Following(c),
         NEW first, first = FirstByte(c, k), NEW rest, rest = OtherBytes(c, k)
  PROVE  /\ k \in Nat
         /\ first \in Byte /\ first >= 128 /\ rest \in Seq(Byte) /\ Len(rest) = k
         /\ \A j \in 1..k : rest[j] >= 128
         /\ c < 2048 => k = 1 /\ first = 192 + c \div 64 /\ rest[1] = 128 + (c % 64)
         /\ c >= 2048 /\ c < 65536 =>
               /\ k = 2 /\ first = 224 + c \div 4096
               /\ rest[1] = 128 + ((c \div 64) % 64) /\ rest[2] = 128 + (c % 64)
<1>1. /\ c < 2048 => k = 1
      /\ c >= 2048 /\ c < 65536 => k = 2
      /\ c >= 65536 => k = 3
  BY FollowingIs, SMT
<1>2. /\ c < 2048 => first = 192 + c \div 64
      /\ c >= 2048 /\ c < 65536 => first = 224 + c \div 4096
      /\ c >= 65536 => first = 240 + c \div 262144
  <2>1. k = 1 => first = 192 + c \div 64
    <3>1. FirstByte(c, 1) = 192 + c \div 64
      BY FirstOfTwo, SMT
    <3> QED
      BY <3>1, SMT
  <2>2. k = 2 => first = 224 + c \div 4096
    BY BytesAre, SMT
  <2>3. k = 3 => first = 240 + c \div 262144
    BY BytesAre, SMT
  <2> QED
    BY <1>1, <2>1, <2>2, <2>3, SMT
<1>3. first \in Byte /\ first >= 128
  <2>1. CASE c < 2048
    BY <1>2, <2>1, SMT DEF Byte
  <2>2. CASE c >= 2048 /\ c < 65536
    BY <1>2, <2>2, SMT DEF Byte
  <2>3. CASE c >= 65536
    BY <1>2, <2>3, SMT DEF Byte
  <2> QED
    BY <2>1, <2>2, <2>3, SMT
<1>4. ASSUME NEW x \in Nat PROVE 128 + (x % 64) \in Byte /\ 128 + (x % 64) >= 128
  BY SMT DEF Byte
<1>5. ASSUME NEW i \in 0..2 PROVE LastByte(c, i) \in Byte /\ LastByte(c, i) >= 128
  <2>1. i = 0 \/ i = 1 \/ i = 2
    BY SMT
  <2>2. \E x \in Nat : LastByte(c, i) = 128 + (x % 64)
    <3>1. c \div 64 \in Nat /\ c \div 4096 \in Nat
      BY SMT
    <3>2. /\ LastByte(c, 0) = 128 + (c % 64)
          /\ LastByte(c, 1) = 128 + ((c \div 64) % 64)
          /\ LastByte(c, 2) = 128 + ((c \div 4096) % 64)
      BY BytesAre, SMT
    <3>3. CASE i = 0
      BY <3>2, <3>3, SMT
    <3>4. CASE i = 1
      BY <3>1, <3>2, <3>4, SMT
    <3>5. CASE i = 2
      BY <3>1, <3>2, <3>5, SMT
    <3> QED
      BY <2>1, <3>3, <3>4, <3>5, SMT
  <2>3. PICK x \in Nat : LastByte(c, i) = 128 + (x % 64)
    BY <2>2, SMT
  <2>4. 128 + (x % 64) \in Byte /\ 128 + (x % 64) >= 128
    BY <1>4, SMT
  <2> QED
    BY <2>3, <2>4, SMT
<1>6. k \in Nat /\ k <= 3 /\ \A j \in 1..k : k - j \in 0..2
  BY <1>1, SMT
<1>7. rest \in Seq(Byte) /\ Len(rest) = k /\ \A j \in 1..k : rest[j] >= 128
  BY <1>5, <1>6, SMT DEF OtherBytes
<1>8. c < 2048 => rest[1] = 128 + (c % 64)
  BY <1>1, BytesAre, SMT DEF OtherBytes
<1>9. c >= 2048 /\ c < 65536 => rest[1] = 128 + ((c \div 64) % 64) /\ rest[2] = 128 + (c % 64)
  BY <1>1, BytesAre, SMT DEF OtherBytes
<1> QED
  BY <1>1, <1>2, <1>3, <1>6, <1>7, <1>8, <1>9, SMT

(* What an encoding is, and that append writes the same.                   *)
LEMMA Utf8Of ==
  ASSUME NEW c \in Nat, c <= 1114111, NEW u, u = Utf8(c)
  PROVE  /\ u \in Seq(Byte) /\ u # << >>
         /\ c < 128 => u = <<c>>
         /\ c >= 128 => \A j \in 1..Len(u) : u[j] >= 128
         /\ c < 65536 => u = append(c) /\ Len(u) <= 3
<1>1. CASE c < 128
  <2>1. u = <<c>> /\ c \in Byte
    BY <1>1, SMT DEF Utf8, Byte
  <2>2. append(c) = <<c>>
    BY <1>1, SMT DEF append
  <2> QED
    BY <1>1, <2>1, <2>2, SMT
<1>2. CASE c >= 128
  <2> DEFINE k == Following(c)
             first == FirstByte(c, k)
             rest == OtherBytes(c, k)
  <2>4. u = <<first>> \o rest
    <3>1. ~(c < 128)
      BY <1>2, SMT
    <3> QED
      BY <3>1, Utf8Unfolds, SMT
  <2>5. /\ k \in Nat
        /\ first \in Byte /\ first >= 128 /\ rest \in Seq(Byte) /\ Len(rest) = k
        /\ \A j \in 1..k : rest[j] >= 128
        /\ c < 2048 => k = 1 /\ first = 192 + c \div 64 /\ rest[1] = 128 + (c % 64)
        /\ c >= 2048 /\ c < 65536 =>
              /\ k = 2 /\ first = 224 + c \div 4096
              /\ rest[1] = 128 + ((c \div 64) % 64) /\ rest[2] = 128 + (c % 64)
    BY <1>2, ManyBytes, SMT
  <2> HIDE DEF k, first, rest
  <2>6. u \in Seq(Byte) /\ Len(u) = k + 1 /\ u[1] = first /\ \A j \in 1..k : u[j + 1] = rest[j]
    <3>1. k = Len(rest) /\ first \in Byte /\ rest \in Seq(Byte) /\ k \in Nat
      BY <2>5, SMT
    <3> QED
      BY <2>4, <3>1, Prefixed, SMT
  <2>7. ASSUME NEW j \in 1..Len(u) PROVE u[j] >= 128
    <3>1. CASE j = 1
      BY <2>5, <2>6, <3>1, SMT
    <3>2. CASE j # 1
      <4>1. j - 1 \in 1..k /\ (j - 1) + 1 = j
        BY <2>5, <2>6, <3>2, SMT
      <4>2. u[(j - 1) + 1] = rest[j - 1]
        BY <2>6, <4>1, SMT
      <4> QED
        BY <2>5, <4>1, <4>2, SMT
    <3> QED
      BY <3>1, <3>2, SMT
  <2>8. ASSUME c < 2048 PROVE u = append(c) /\ Len(u) <= 3
    <3>1. k = 1 /\ first = 192 + c \div 64 /\ rest[1] = 128 + (c % 64)
      BY <2>5, <2>8, SMT
    <3>2. Len(u) = 2 /\ u[1] = 192 + c \div 64 /\ u[1 + 1] = 128 + (c % 64)
      BY <2>6, <3>1, SMT
    <3>3. PICK o : o = append(c)
      BY SMT
    <3>4. o \in Seq(Byte)
      BY <2>8, <3>3, Appended, SMT
    <3>5. Len(o) = 2 /\ o[1] = 192 + c \div 64 /\ o[2] = 128 + (c % 64)
      BY <1>2, <2>8, <3>3, Appends, SMT
    <3>6. u[1] = o[1] /\ u[2] = o[2]
      BY <3>2, <3>5, SMT
    <3>7. u \in Seq(Byte) /\ Len(u) = 2 /\ Len(o) = 2
      <4>1. u \in Seq(Byte)
        BY <2>6, SMT
      <4>2. Len(u) = 2
        BY <3>2, SMT
      <4>3. Len(o) = 2
        BY <3>5, SMT
      <4> QED
        BY <4>1, <4>2, <4>3, SMT
    <3>8. u = o
      BY <3>4, <3>6, <3>7, SameBytes, SMT
    <3> QED
      BY <3>3, <3>7, <3>8, SMT
  <2>9. ASSUME c >= 2048, c < 65536 PROVE u = append(c) /\ Len(u) <= 3
    <3>1. /\ k = 2 /\ first = 224 + c \div 4096
          /\ rest[1] = 128 + ((c \div 64) % 64) /\ rest[2] = 128 + (c % 64)
      BY <2>5, <2>9, SMT
    <3>2. /\ Len(u) = 3 /\ u[1] = 224 + c \div 4096
          /\ u[1 + 1] = 128 + ((c \div 64) % 64) /\ u[2 + 1] = 128 + (c % 64)
      BY <2>6, <3>1, SMT
    <3>3. PICK o : o = append(c)
      BY SMT
    <3>4. o \in Seq(Byte)
      BY <2>9, <3>3, Appended, SMT
    <3>5. /\ Len(o) = 3 /\ o[1] = 224 + c \div 4096
          /\ o[2] = 128 + ((c \div 64) % 64) /\ o[3] = 128 + (c % 64)
      BY <2>9, <3>3, Appends, SMT
    <3>6. u[1] = o[1] /\ u[2] = o[2] /\ u[3] = o[3]
      BY <3>2, <3>5, SMT
    <3>7. u \in Seq(Byte) /\ Len(u) = 3 /\ Len(o) = 3
      <4>1. u \in Seq(Byte)
        BY <2>6, SMT
      <4>2. Len(u) = 3
        BY <3>2, SMT
      <4>3. Len(o) = 3
        BY <3>5, SMT
      <4> QED
        BY <4>1, <4>2, <4>3, SMT
    <3>8. u = o
      BY <3>4, <3>6, <3>7, SameBytes, SMT
    <3> QED
      BY <3>3, <3>7, <3>8, SMT
  <2>10. u # << >>
    BY <2>5, <2>6, SMT
  <2> QED
    BY <1>2, <2>6, <2>7, <2>8, <2>9, <2>10, SMT
<1> QED
  BY <1>1, <1>2, SMT

(* A digit that is written is read as its value.                           *)
LEMMA DigitReadsBack ==
  ASSUME NEW upper, NEW v \in Nat, v < 16
  PROVE  Hex(Digit(upper, v)) = v /\ Digit(upper, v) \in Byte
<1>1. PICK base \in {55, 87} : base = IF upper THEN 55 ELSE 87
  BY Zenon
<1>2. Digit(upper, v) = IF v < 10 THEN 48 + v ELSE v + base
  BY <1>1, Zenon DEF Digit
<1> QED
  BY <1>2 DEF Hex, Byte

(* The four digits of a number of sixteen bits make it up.                 *)
LEMMA FourDigits ==
  ASSUME NEW c \in Nat, c < 65536
  PROVE  /\ (c \div 4096) % 16 \in Nat /\ (c \div 4096) % 16 < 16
         /\ (c \div 256) % 16 \in Nat /\ (c \div 256) % 16 < 16
         /\ (c \div 16) % 16 \in Nat /\ (c \div 16) % 16 < 16
         /\ c % 16 \in Nat /\ c % 16 < 16
         /\ c = 4096 * ((c \div 4096) % 16) + 256 * ((c \div 256) % 16)
                  + 16 * ((c \div 16) % 16) + (c % 16)
BY SMT

(* The hexadecimal digits of a number, from the last on.                    *)
Sixteenth(c, i) == (c \div 16 ^ i) % 16

(* The escape of a character in terms of its digits.                       *)
LEMMA EscapedUnfolds ==
  ASSUME NEW upper, NEW c
  PROVE  Escaped(upper, c) =
           <<ReverseSolidus, 117>> \o [k \in 1..4 |-> Digit(upper, Sixteenth(c, 4 - k))]
BY Zenon DEF Escaped, Sixteenth

(* The last digit.                                                         *)
LEMMA LastSixteenth ==
  ASSUME NEW c \in Nat
  PROVE  Sixteenth(c, 0) = c % 16
<1>1. c \div 1 = c
  BY SMT
<1> QED
  BY <1>1, Powers, SMT DEF Sixteenth

(* All of the four digits.                                                 *)
LEMMA SixteenthIs ==
  ASSUME NEW c \in Nat
  PROVE  /\ Sixteenth(c, 3) = (c \div 4096) % 16 /\ Sixteenth(c, 2) = (c \div 256) % 16
         /\ Sixteenth(c, 1) = (c \div 16) % 16 /\ Sixteenth(c, 0) = c % 16
<1>1. c \div 1 = c
  BY SMT
<1>2. Sixteenth(c, 3) = (c \div 4096) % 16
  BY Powers, SMT DEF Sixteenth
<1>3. Sixteenth(c, 2) = (c \div 256) % 16
  BY Powers, SMT DEF Sixteenth
<1>4. Sixteenth(c, 1) = (c \div 16) % 16
  BY Powers, SMT DEF Sixteenth
<1>5. Sixteenth(c, 0) = c % 16
  BY <1>1, Powers, SMT DEF Sixteenth
<1> QED
  BY <1>2, <1>3, <1>4, <1>5, SMT

(* The four digits are digits and make up the number.                      *)
LEMMA DigitsOf ==
  ASSUME NEW c \in Nat, c < 65536
  PROVE  /\ \A i \in 0..3 : Sixteenth(c, i) \in Nat /\ Sixteenth(c, i) < 16
         /\ c = 4096 * Sixteenth(c, 3) + 256 * Sixteenth(c, 2) + 16 * Sixteenth(c, 1)
                  + Sixteenth(c, 0)
<1>1. PICK p, q, r, s : /\ p = (c \div 4096) % 16 /\ q = (c \div 256) % 16
                        /\ r = (c \div 16) % 16 /\ s = c % 16
  BY SMT
<1>2. /\ p \in Nat /\ p < 16 /\ q \in Nat /\ q < 16 /\ r \in Nat /\ r < 16
      /\ s \in Nat /\ s < 16
      /\ c = 4096 * p + 256 * q + 16 * r + s
  BY <1>1, FourDigits, SMT
<1>3. Sixteenth(c, 3) = p
  BY <1>1, SixteenthIs, SMT
<1>4. Sixteenth(c, 2) = q
  BY <1>1, SixteenthIs, SMT
<1>5. Sixteenth(c, 1) = r
  BY <1>1, SixteenthIs, SMT
<1>6. Sixteenth(c, 0) = s
  <2>1. Sixteenth(c, 0) = c % 16
    BY LastSixteenth, SMT
  <2> QED
    BY <1>1, <2>1, SMT
<1>7. ASSUME NEW i \in 0..3 PROVE Sixteenth(c, i) \in Nat /\ Sixteenth(c, i) < 16
  <2>1. i = 0 \/ i = 1 \/ i = 2 \/ i = 3
    BY SMT
  <2> QED
    BY <1>2, <1>3, <1>4, <1>5, <1>6, <2>1, SMT
<1> QED
  BY <1>2, <1>3, <1>4, <1>5, <1>6, <1>7, SMT

(* Each digit is one.                                                      *)
LEMMA DigitsSmall ==
  ASSUME NEW c \in Nat, NEW i \in 0..3
  PROVE  Sixteenth(c, i) \in Nat /\ Sixteenth(c, i) < 16
<1>1. i = 0 \/ i = 1 \/ i = 2 \/ i = 3
  BY SMT
<1>2. c \div 4096 \in Nat /\ c \div 256 \in Nat /\ c \div 16 \in Nat
  BY SMT
<1>3. /\ Sixteenth(c, 3) = (c \div 4096) % 16 /\ Sixteenth(c, 2) = (c \div 256) % 16
      /\ Sixteenth(c, 1) = (c \div 16) % 16
  <2>1. Sixteenth(c, 3) = (c \div 4096) % 16
    BY SixteenthIs, SMT
  <2>2. Sixteenth(c, 2) = (c \div 256) % 16
    BY SixteenthIs, SMT
  <2>3. Sixteenth(c, 1) = (c \div 16) % 16
    BY SixteenthIs, SMT
  <2> QED
    BY <2>1, <2>2, <2>3, SMT
<1>4. Sixteenth(c, 0) = c % 16
  BY LastSixteenth, SMT
<1>5. \E x \in Nat : Sixteenth(c, i) = x % 16
  <2>1. CASE i = 0
    BY <1>4, <2>1, SMT
  <2>2. CASE i = 1
    BY <1>2, <1>3, <2>2, SMT
  <2>3. CASE i = 2
    BY <1>2, <1>3, <2>3, SMT
  <2>4. CASE i = 3
    BY <1>2, <1>3, <2>4, SMT
  <2> QED
    BY <1>1, <2>1, <2>2, <2>3, <2>4, SMT
<1>6. PICK x \in Nat : Sixteenth(c, i) = x % 16
  BY <1>5, SMT
<1>7. x % 16 \in Nat /\ x % 16 < 16
  BY SMT
<1> QED
  BY <1>6, <1>7, SMT

(* The elements of a concatenation.                                        *)
LEMMA JoinedFrom ==
  ASSUME NEW S, NEW a \in Seq(S), NEW b \in Seq(S), NEW c, c = a \o b,
         NEW m, m = Len(a), NEW n, n = Len(b)
  PROVE  \A j \in 1..(m + n) : c[j] = IF j <= m THEN a[j] ELSE b[j - m]
OBVIOUS

(* The elements of six bytes that are made of two and four.                *)
Six(e, two, four) ==
    /\ Len(e) = 6 /\ e[1] = two[1] /\ e[2] = two[2]
    /\ e[3] = four[1] /\ e[4] = four[2] /\ e[5] = four[3] /\ e[6] = four[4]

SixOf(e, two, four) == e \in Seq(Byte) /\ (Len(two) = 2 /\ Len(four) = 4 => Six(e, two, four))

(* Two bytes and four more, one by one.                                    *)
SixIf(e, two, four, m, n) == e \in Seq(Byte) /\ (m = 2 /\ n = 4 => Six(e, two, four))

LEMMA TwoAndFour ==
  ASSUME NEW two \in Seq(Byte), NEW four \in Seq(Byte), NEW e, e = two \o four,
         NEW m, m = Len(two), NEW n, n = Len(four)
  PROVE  SixIf(e, two, four, m, n)
<1>1. e \in Seq(Byte) /\ Len(e) = m + n
  BY Joined
<1>2. \A j \in 1..(m + n) : e[j] = IF j <= m THEN two[j] ELSE four[j - m]
  BY JoinedFrom
<1>3. ASSUME m = 2, n = 4
      PROVE  /\ Len(e) = 6 /\ e[1] = two[1] /\ e[2] = two[2]
             /\ e[3] = four[1] /\ e[4] = four[2] /\ e[5] = four[3] /\ e[6] = four[4]
  <2>4. m + n = 6
    BY <1>3, SMT
  <2>1. \A j \in 1..6 : e[j] = IF j <= m THEN two[j] ELSE four[j - m]
    BY <1>2, <2>4, Zenon
  <2>2. /\ 1 \in 1..6 /\ 2 \in 1..6 /\ 3 \in 1..6 /\ 4 \in 1..6 /\ 5 \in 1..6 /\ 6 \in 1..6
        /\ 1 <= m /\ 2 <= m /\ ~(3 <= m) /\ ~(4 <= m) /\ ~(5 <= m) /\ ~(6 <= m)
        /\ 3 - m = 1 /\ 4 - m = 2 /\ 5 - m = 3 /\ 6 - m = 4 /\ m + n = 6
    BY <1>3
  <2>3. Len(e) = 6
    BY <1>1, <2>2
  <2> QED
    BY <2>1, <2>2, <2>3
<1> QED
  BY <1>1, <1>3, Zenon DEF Six, SixIf

(* The same, put so that it can be cited.                                  *)
LEMMA SixBytes ==
  ASSUME NEW two \in Seq(Byte), NEW four \in Seq(Byte), NEW e, e = two \o four
  PROVE  SixOf(e, two, four)
<1>1. PICK m, n : m = Len(two) /\ n = Len(four)
  BY Zenon
<1>2. SixIf(e, two, four, m, n)
  BY <1>1, TwoAndFour
<1> QED
  BY <1>1, <1>2, Zenon DEF SixOf, SixIf

(* The six bytes of an escape, and what their digits say.                  *)
SixDigits(e, c) ==
    /\ e \in Seq(Byte) /\ Len(e) = 6 /\ e[1] = ReverseSolidus /\ e[2] = 117
    /\ Hex(e[3]) = Sixteenth(c, 3) /\ Hex(e[4]) = Sixteenth(c, 2)
    /\ Hex(e[5]) = Sixteenth(c, 1) /\ Hex(e[6]) = Sixteenth(c, 0)

(* An escape has the six bytes it should have.                             *)
LEMMA EscapedIs ==
  ASSUME NEW upper, NEW c \in Nat, NEW e, e = Escaped(upper, c)
  PROVE  SixDigits(e, c)
<1> DEFINE four == [k \in 1..4 |-> Digit(upper, Sixteenth(c, 4 - k))]
           two  == <<ReverseSolidus, 117>>
<1>2. ASSUME NEW i \in 0..3
      PROVE  Hex(Digit(upper, Sixteenth(c, i))) = Sixteenth(c, i)
             /\ Digit(upper, Sixteenth(c, i)) \in Byte
  <2>1. PICK v : v = Sixteenth(c, i)
    BY SMT
  <2>2. v \in Nat /\ v < 16
    BY <2>1, DigitsSmall, SMT
  <2>3. Hex(Digit(upper, v)) = v /\ Digit(upper, v) \in Byte
    BY <2>2, DigitReadsBack, SMT
  <2> QED
    BY <2>1, <2>3, SMT
<1>3. \A k \in 1..4 : 4 - k \in 0..3
  BY SMT
<1>4. four \in Seq(Byte) /\ Len(four) = 4
  BY <1>2, <1>3, SMT
<1>5. /\ four[1] = Digit(upper, Sixteenth(c, 3)) /\ four[2] = Digit(upper, Sixteenth(c, 2))
      /\ four[3] = Digit(upper, Sixteenth(c, 1)) /\ four[4] = Digit(upper, Sixteenth(c, 0))
  BY SMT
<1>6. two \in Seq(Byte) /\ Len(two) = 2 /\ two[1] = ReverseSolidus /\ two[2] = 117
  BY SMT DEF Byte, ReverseSolidus
<1>7. e = two \o four
  BY EscapedUnfolds, SMT
<1> HIDE DEF four, two
<1>9. /\ e \in Seq(Byte) /\ Len(e) = 6 /\ e[1] = two[1] /\ e[2] = two[2]
      /\ e[3] = four[1] /\ e[4] = four[2] /\ e[5] = four[3] /\ e[6] = four[4]
  <2>1. two \in Seq(Byte) /\ Len(two) = 2 /\ four \in Seq(Byte) /\ Len(four) = 4
    BY <1>4, <1>6, SMT
  <2>2. PICK p, q : p = two /\ q = four
    BY SMT
  <2>3. p \in Seq(Byte) /\ q \in Seq(Byte) /\ e = p \o q
    BY <1>7, <2>1, <2>2, SMT
  <2>6. SixOf(e, p, q)
    BY <2>3, SixBytes, Zenon
  <2>4. e \in Seq(Byte) /\ (Len(p) = 2 /\ Len(q) = 4 => Six(e, p, q))
    BY <2>6, SMT DEF SixOf
  <2>5. Six(e, two, four)
    BY <2>1, <2>2, <2>4, SMT
  <2> QED
    BY <2>4, <2>5, SMT DEF Six
<1>10. /\ Hex(four[1]) = Sixteenth(c, 3) /\ Hex(four[2]) = Sixteenth(c, 2)
       /\ Hex(four[3]) = Sixteenth(c, 1) /\ Hex(four[4]) = Sixteenth(c, 0)
  <2>1. 0 \in 0..3 /\ 1 \in 0..3 /\ 2 \in 0..3 /\ 3 \in 0..3
    BY SMT
  <2> QED
    BY <1>2, <1>5, <2>1, SMT
<1> QED
  BY <1>6, <1>9, <1>10, SMT DEF SixDigits

(* The letters of the short escapes.                                       *)
LetterOf(c, b) ==
    \/ c = 8 /\ b = 98
    \/ c = 9 /\ b = 116
    \/ c = 10 /\ b = 110
    \/ c = 12 /\ b = 102
    \/ c = 13 /\ b = 114
    \/ c \in {Quote, ReverseSolidus, 47} /\ b = c

(* What Letter says of each of its characters.                             *)
LEMMA LetterIs ==
  ASSUME NEW c \in DOMAIN Letter
  PROVE  /\ c \in Nat /\ c < 128 /\ c \in Byte /\ Letter[c] \in Byte /\ Letter[c] # 117
         /\ ~is_surrogate(c)
         /\ LetterOf(c, Letter[c])
<1>1. \/ c = 8 /\ Letter[c] = 98
      \/ c = 9 /\ Letter[c] = 116
      \/ c = 10 /\ Letter[c] = 110
      \/ c = 12 /\ Letter[c] = 102
      \/ c = 13 /\ Letter[c] = 114
      \/ c \in {Quote, ReverseSolidus, 47} /\ Letter[c] = c
  <2>1. c \in {8, 9, 10, 12, 13, Quote, ReverseSolidus, 47}
    BY SMT DEF Letter
  <2>2. Letter[c] = CASE c = 8 -> 98 [] c = 9 -> 116 [] c = 10 -> 110 [] c = 12 -> 102
                      [] c = 13 -> 114 [] OTHER -> c
    BY <2>1, SMT DEF Letter
  <2>3. Quote = 34 /\ ReverseSolidus = 92
    BY DEF Quote, ReverseSolidus
  <2>4. CASE c \in {Quote, ReverseSolidus, 47}
    BY <2>2, <2>3, <2>4, SMT
  <2>5. CASE c \in {8, 9, 10, 12, 13}
    BY <2>2, <2>5, SMT
  <2> QED
    BY <2>1, <2>4, <2>5, SMT
<1>2. /\ c \in Nat /\ c < 128 /\ Letter[c] \in Nat /\ Letter[c] < 117
  BY <1>1, SMT DEF Quote, ReverseSolidus
<1>3. ~is_surrogate(c) /\ c \in Byte /\ Letter[c] \in Byte /\ Letter[c] # 117
  BY <1>2, SMT DEF is_surrogate, Byte
<1>4. LetterOf(c, Letter[c])
  BY <1>1 DEF LetterOf
<1> QED
  BY <1>2, <1>3, <1>4

(* A spelling is the encoding, a short escape or four digits.              *)
LEMMA SpellingIs ==
  ASSUME NEW c, NEW spelling \in SpellingsOf(c)
  PROVE  \/ Plainly(c) /\ spelling = Utf8(c)
         \/ c \in DOMAIN Letter /\ spelling = <<ReverseSolidus, Letter[c]>>
         \/ c < 65536 /\ \E upper \in BOOLEAN : spelling = Escaped(upper, c)
BY SMT DEF SpellingsOf

(* A text with nothing to escape.                                          *)
PlainText(text) == PlainBytes(text, TRUE)

(* The encoding of another character has no quote and no reverse solidus.  *)
LEMMA PlainEncoding ==
  ASSUME NEW c \in Nat, c <= 1114111, c # Quote, c # ReverseSolidus, NEW u, u = Utf8(c)
  PROVE  PlainText(u)
<1>1. ASSUME NEW j \in 1..Len(u) PROVE u[j] # Quote /\ u[j] # ReverseSolidus
  <2>1. CASE c < 128
    <3>1. u = <<c>>
      BY <2>1, Utf8Of, SMT
    <3>2. u[j] = c
      BY <3>1, SMT
    <3> QED
      BY <3>2, SMT
  <2>2. CASE c >= 128
    <3>1. u[j] >= 128
      BY <2>2, Utf8Of, SMT
    <3>2. Quote < 128 /\ ReverseSolidus < 128
      BY SMT DEF Quote, ReverseSolidus
    <3> QED
      BY <3>1, <3>2, SMT DEF Quote, ReverseSolidus
  <2> QED
    BY <2>1, <2>2, SMT
<1> QED
  BY <1>1, SMT DEF PlainText, PlainBytes

(* A spelling is the encoding itself, or an escape longer than that.       *)
LEMMA SpellingIsLonger ==
  ASSUME NEW c \in Nat, c <= 1114111, NEW spelling \in SpellingsOf(c), NEW u, u = Utf8(c)
  PROVE  /\ spelling \in Seq(Byte) /\ u \in Seq(Byte) /\ spelling # << >>
         /\ \/ spelling = u /\ PlainText(u)
            \/ Len(spelling) > Len(u) /\ spelling[1] = ReverseSolidus
<1>0. u \in Seq(Byte) /\ u # << >>
  BY Utf8Of, SMT
<1>1. CASE Plainly(c) /\ spelling = u
  <2>1. c # Quote /\ c # ReverseSolidus
    BY <1>1, SMT DEF Plainly
  <2>3. PlainText(u)
    BY <2>1, PlainEncoding, SMT
  <2>4. spelling = u
    BY <1>1, SMT
  <2> QED
    BY <1>0, <2>3, <2>4, SMT
<1>2. CASE c \in DOMAIN Letter /\ spelling = <<ReverseSolidus, Letter[c]>>
  <2>1. c < 128 /\ Letter[c] \in Byte
    BY <1>2, LetterIs, SMT
  <2>2. u = <<c>>
    BY <2>1, Utf8Of, SMT
  <2>3. ReverseSolidus \in Byte
    BY SMT DEF ReverseSolidus, Byte
  <2>4. spelling \in Seq(Byte) /\ Len(spelling) = 2 /\ spelling[1] = ReverseSolidus
    BY <1>2, <2>1, <2>3, SMT
  <2>5. Len(u) = 1 /\ spelling # << >>
    BY <2>2, <2>4, SMT
  <2> QED
    BY <1>0, <2>4, <2>5, SMT
<1>3. ASSUME c < 65536, NEW upper \in BOOLEAN, spelling = Escaped(upper, c)
      PROVE  spelling \in Seq(Byte) /\ spelling # << >> /\ Len(spelling) > Len(u)
             /\ spelling[1] = ReverseSolidus
  <2>2. spelling \in Seq(Byte) /\ Len(spelling) = 6 /\ spelling[1] = ReverseSolidus
    <3>1. SixDigits(spelling, c)
      BY <1>3, EscapedIs, SMT
    <3> QED
      BY <3>1, SMT DEF SixDigits
  <2>3. Len(u) <= 3 /\ Len(u) \in Nat
    BY <1>0, <1>3, Utf8Of, SMT
  <2> QED
    BY <2>2, <2>3, SMT
<1> QED
  BY <1>0, <1>1, <1>2, <1>3, SpellingIs, SMT

(* Where the reading of a piece ended does not matter for what follows.    *)
LEMMA AfterAny ==
  ASSUME NEW a \in Seq(Byte), NEW k \in Nat \ {0}, NEW m \in Nat \ {0}, NEW rest \in Outcomes
  PROVE  After(Read(a, k), rest) = After(Read(a, m), rest)
BY AfterRead

(* The loop that reads escapes.                                            *)
Reads(source, f) == Turns(source, TRUE, f)

(* In that loop, escapeChar reads what follows a reverse solidus.          *)
LEMMA EscapeTurn ==
  ASSUME NEW source \in Seq(Byte), NEW n \in Nat, n = Len(source), NEW f,
         Reads(source, f), NEW i \in Nat, i >= 2, i <= n, source[i] = ReverseSolidus,
         NEW step, step = escapeChar(source, i + 1)
  PROVE  f[i] = After(step, f[step.next])
<1>1. i \in 2..(Len(source) + 1) /\ ~(i > Len(source)) /\ source[i] # Quote
  BY DEF Quote, ReverseSolidus
<1>2. f[i] = Turn(source, TRUE, f, i)
  BY <1>1, Zenon DEF Turns, Reads
<1>3. step = StepAt(source, TRUE, i)
  BY Zenon DEF StepAt
<1> QED
  BY <1>1, <1>2, <1>3, Zenon DEF Turn

(* Bytes without anything to escape are read as they stand, anywhere.      *)
BytesRead(source, escapes, f) ==
    \A i \in Nat, text \in Seq(Byte) :
        i >= 2 /\ Stands(text, source, i) /\ PlainBytes(text, escapes) /\ text # << >>
          => f[i] = After(Read(text, i + 1), f[i + Len(text)])

(* Both loops do that.                                                     *)
LEMMA AllBytesAreRead ==
  ASSUME NEW source \in Seq(Byte), NEW escapes, NEW f, Turns(source, escapes, f)
  PROVE  BytesRead(source, escapes, f)
<1>1. ASSUME NEW i \in Nat, NEW text \in Seq(Byte),
             i >= 2, Stands(text, source, i), PlainBytes(text, escapes), text # << >>
      PROVE  f[i] = After(Read(text, i + 1), f[i + Len(text)])
  <2>1. PICK n : n = Len(source) /\ n \in Nat
    BY LenProperties, Zenon
  <2>2. PICK m : m = Len(text) /\ m \in Nat
    BY LenProperties, Zenon
  <2>3. i + m <= n + 1
    BY <1>1, <2>1, <2>2, Zenon DEF Stands
  <2>4. i <= n + 1
    BY <2>1, <2>2, <2>3
  <2> QED
    BY <1>1, <2>1, <2>4, PlainBytesAreRead
<1> QED
  BY <1>1, Zenon DEF BytesRead

(* The one that reads escapes does it with plain text.                     *)
LEMMA BytesTurn ==
  ASSUME NEW source \in Seq(Byte), NEW f, Reads(source, f), NEW i \in Nat, i >= 2,
         NEW text \in Seq(Byte), Stands(text, source, i), PlainText(text), text # << >>
  PROVE  f[i] = After(Read(text, i + 1), f[i + Len(text)])
<1>1. BytesRead(source, TRUE, f)
  BY AllBytesAreRead, Zenon DEF Reads
<1> QED
  BY <1>1, Zenon DEF BytesRead, PlainText

(* Where a text that stands in the source ends, the loop goes on.          *)
LEMMA StandsAt ==
  ASSUME NEW source \in Seq(Byte), NEW f, Reads(source, f),
         NEW text \in Seq(Byte), NEW i \in Nat, i >= 2, Stands(text, source, i)
  PROVE  /\ i + Len(text) \in 2..(Len(source) + 1) /\ f[i + Len(text)] \in Outcomes
         /\ f[i] \in Outcomes
<1>0. Len(text) \in Nat /\ Len(source) \in Nat
  BY LenProperties, Zenon
<1>1. PICK m, n : m = Len(text) /\ n = Len(source) /\ m \in Nat /\ n \in Nat
  BY <1>0, Zenon
<1>2. i + m <= n + 1
  BY <1>1 DEF Stands
<1>3. i + m \in 2..(n + 1) /\ i \in 2..(n + 1)
  BY <1>1, <1>2
<1>4. f \in [2..(n + 1) -> Outcomes]
  BY <1>1, Zenon DEF Turns, Reads
<1> QED
  BY <1>1, <1>3, <1>4

(* A short escape gives its character.                                     *)
LEMMA LetterTaken ==
  ASSUME NEW b, NEW c, NEW k, NEW u, LetterOf(c, b)
  PROVE  EscapeOf(b, k, u) = Read(<<c>>, k)
<1>1. Quote = 34 /\ ReverseSolidus = 92
  BY DEF Quote, ReverseSolidus
<1>2. CASE c = 8 /\ b = 98
  BY <1>1, <1>2 DEF EscapeOf
<1>3. CASE c = 9 /\ b = 116
  BY <1>1, <1>3 DEF EscapeOf
<1>4. CASE c = 10 /\ b = 110
  BY <1>1, <1>4 DEF EscapeOf
<1>5. CASE c = 12 /\ b = 102
  BY <1>1, <1>5 DEF EscapeOf
<1>6. CASE c = 13 /\ b = 114
  BY <1>1, <1>6 DEF EscapeOf
<1>7. CASE c \in {Quote, ReverseSolidus, 47} /\ b = c
  BY <1>1, <1>7 DEF EscapeOf
<1> QED
  BY <1>2, <1>3, <1>4, <1>5, <1>6, <1>7, Zenon DEF LetterOf

(* A short escape is read as its character.                                *)
LEMMA LetterIsRead ==
  ASSUME NEW source \in Seq(Byte), NEW f, Reads(source, f), NEW c \in DOMAIN Letter,
         NEW text, text = <<ReverseSolidus, Letter[c]>>,
         NEW i \in Nat, i >= 2, Stands(text, source, i)
  PROVE  f[i] = After(Read(<<c>>, i + 1), f[i + 2])
<1>1. /\ ReverseSolidus \in Byte /\ Letter[c] \in Byte /\ Letter[c] # 117 /\ c \in Byte
  BY LetterIs DEF ReverseSolidus, Byte
<1>2. text \in Seq(Byte) /\ Len(text) = 2 /\ text[1] = ReverseSolidus /\ text[2] = Letter[c]
  BY <1>1
<1>3. PICK n, j : n = Len(source) /\ n \in Nat /\ j = i + 1 /\ j \in Nat
  OBVIOUS
<1>4. i + 2 <= n + 1 /\ \A k \in 1..2 : source[i + k - 1] = text[k]
  BY <1>2, <1>3 DEF Stands
<1>5. i <= n /\ j <= n /\ source[i] = ReverseSolidus /\ source[j] = Letter[c]
  <2>1. 1 \in 1..2 /\ 2 \in 1..2 /\ i + 1 - 1 = i /\ i + 2 - 1 = j
    BY <1>3
  <2>2. source[i + 1 - 1] = text[1] /\ source[i + 2 - 1] = text[2]
    BY <1>4, <2>1
  <2> QED
    BY <1>2, <1>3, <1>4, <2>1, <2>2
<1>6. PICK b, k : b = source[j] /\ k = j + 1 /\ k = i + 2 /\ k \in Nat \ {0} /\ i + 1 \in Nat \ {0}
  BY <1>3
<1>7. escapeChar(source, j) = EscapeOf(b, k, readUTF8Escape(source, k))
  <2>1. ~(j > Len(source))
    BY <1>3, <1>5
  <2> QED
    BY <1>6, <2>1, Zenon DEF escapeChar, EscapeOf
<1>8. escapeChar(source, j) = Read(<<c>>, k)
  <2>1. b = Letter[c]
    BY <1>5, <1>6
  <2>2. LetterOf(c, b)
    BY <2>1, LetterIs
  <2> QED
    BY <1>7, <2>2, LetterTaken, Zenon
<1>10. PICK step : step = Read(<<c>>, k) /\ step = escapeChar(source, i + 1)
  BY <1>3, <1>8
<1>11. step.next = k
  BY <1>6, <1>10, ReadIsNoThrow
<1>12. f[i] = After(step, f[step.next])
  BY <1>3, <1>5, <1>10, EscapeTurn, SMT
<1>13. f[i] = After(Read(<<c>>, k), f[k])
  BY <1>10, <1>11, <1>12
<1>14. f[k] \in Outcomes /\ <<c>> \in Seq(Byte)
  <2>1. k \in 2..(n + 1)
    BY <1>4, <1>6
  <2> QED
    BY <1>1, <1>3, <2>1 DEF Turns, Reads
<1>15. After(Read(<<c>>, k), f[k]) = After(Read(<<c>>, i + 1), f[k])
  BY <1>6, <1>14, AfterAny
<1> QED
  BY <1>6, <1>13, <1>15

(* The six bytes of an escape stand at i: what the digits say.             *)
LEMMA DigitsStand ==
  ASSUME NEW source \in Seq(Byte), NEW upper, NEW c \in Nat, NEW e, e = Escaped(upper, c),
         NEW i \in Nat, i >= 2, Stands(e, source, i)
  PROVE  /\ i + 6 <= Len(source) + 1 /\ source[i] = ReverseSolidus /\ source[i + 1] = 117
         /\ Hex(source[i + 2]) = Sixteenth(c, 3) /\ Hex(source[i + 3]) = Sixteenth(c, 2)
         /\ Hex(source[i + 4]) = Sixteenth(c, 1) /\ Hex(source[i + 5]) = Sixteenth(c, 0)
<1>1. /\ e \in Seq(Byte) /\ Len(e) = 6 /\ e[1] = ReverseSolidus /\ e[2] = 117
      /\ Hex(e[3]) = Sixteenth(c, 3) /\ Hex(e[4]) = Sixteenth(c, 2)
      /\ Hex(e[5]) = Sixteenth(c, 1) /\ Hex(e[6]) = Sixteenth(c, 0)
  <2>1. SixDigits(e, c)
    BY EscapedIs
  <2> QED
    BY <2>1, Zenon DEF SixDigits
<1>2. i + 6 <= Len(source) + 1 /\ \A j \in 1..6 : source[i + j - 1] = e[j]
  BY <1>1, Zenon DEF Stands
<1>3. /\ 1 \in 1..6 /\ 2 \in 1..6 /\ 3 \in 1..6 /\ 4 \in 1..6 /\ 5 \in 1..6 /\ 6 \in 1..6
      /\ i + 1 - 1 = i /\ i + 2 - 1 = i + 1 /\ i + 3 - 1 = i + 2 /\ i + 4 - 1 = i + 3
      /\ i + 5 - 1 = i + 4 /\ i + 6 - 1 = i + 5
  OBVIOUS
<1>4. /\ source[i] = e[1] /\ source[i + 1] = e[2] /\ source[i + 2] = e[3]
      /\ source[i + 3] = e[4] /\ source[i + 4] = e[5] /\ source[i + 5] = e[6]
  BY <1>2, <1>3
<1> QED
  BY <1>1, <1>2, <1>4, Zenon

(* Reading four digits at j.                                               *)
Value(source, j) == 4096 * Hex(source[j]) + 256 * Hex(source[j + 1])
                      + 16 * Hex(source[j + 2]) + Hex(source[j + 3])

(* Four digits are read as the character of their value.                   *)
LEMMA FourAreRead ==
  ASSUME NEW source, NEW j \in Nat, j + 3 <= Len(source),
         \A k \in j..(j + 3) : Hex(source[k]) >= 0, NEW c, c = Value(source, j)
  PROVE  readUTF8Escape(source, j) = IF is_surrogate(c) THEN Throws ELSE Read(append(c), j + 4)
<1>1. readUTF8Escape(source, j) =
         LET v == 4096 * Hex(source[j]) + 256 * Hex(source[j + 1])
                    + 16 * Hex(source[j + 2]) + Hex(source[j + 3])
         IN  IF is_surrogate(v) THEN Throws ELSE Read(append(v), j + 4)
  BY Zenon DEF readUTF8Escape
<1>2. PICK v : v = Value(source, j)
  BY Zenon
<1>3. readUTF8Escape(source, j) = IF is_surrogate(v) THEN Throws ELSE Read(append(v), j + 4)
  BY <1>1, <1>2 DEF Value
<1> QED
  BY <1>2, <1>3, Zenon

(* The digits of a number are natural numbers.                             *)
AreDigits(c) == \A m \in 0..3 : Sixteenth(c, m) \in Nat

(* They always are.                                                        *)
LEMMA DigitIsNat ==
  ASSUME NEW c \in Nat PROVE AreDigits(c)
BY DigitsSmall, Zenon DEF AreDigits

(* An escape is read as its character, unless it is a surrogate.           *)
LEMMA EscapedIsRead ==
  ASSUME NEW source \in Seq(Byte), NEW f, Reads(source, f), NEW upper,
         NEW c \in Nat, c < 65536, NEW e, e = Escaped(upper, c),
         NEW i \in Nat, i >= 2, Stands(e, source, i)
  PROVE  IF is_surrogate(c) THEN f[i] = Throws
         ELSE f[i] = After(Read(append(c), i + 1), f[i + 6])
<1>1. /\ i + 6 <= Len(source) + 1 /\ source[i] = ReverseSolidus /\ source[i + 1] = 117
      /\ Hex(source[i + 2]) = Sixteenth(c, 3) /\ Hex(source[i + 3]) = Sixteenth(c, 2)
      /\ Hex(source[i + 4]) = Sixteenth(c, 1) /\ Hex(source[i + 5]) = Sixteenth(c, 0)
  BY DigitsStand, SMT
<1>2. PICK n, j : n = Len(source) /\ n \in Nat /\ j = i + 2 /\ j \in Nat
  BY SMT
<1>3. /\ j + 1 = i + 3 /\ j + 2 = i + 4 /\ j + 3 = i + 5 /\ j + 4 = i + 6
      /\ j + 3 <= n /\ i <= n /\ i + 1 <= n
  BY <1>1, <1>2, SMT
<1>4. /\ Hex(source[j]) = Sixteenth(c, 3) /\ Hex(source[j + 1]) = Sixteenth(c, 2)
      /\ Hex(source[j + 2]) = Sixteenth(c, 1) /\ Hex(source[j + 3]) = Sixteenth(c, 0)
  BY <1>1, <1>2, <1>3, SMT
<1>5. Value(source, j) = c
  BY <1>4, DigitsOf, SMT DEF Value
<1>6. \A k \in j..(j + 3) : Hex(source[k]) >= 0
  <2>1. ASSUME NEW k \in j..(j + 3) PROVE Hex(source[k]) >= 0
    <3>1. k = j \/ k = j + 1 \/ k = j + 2 \/ k = j + 3
      BY <1>2, SMT
    <3>2. \A m \in 0..3 : Sixteenth(c, m) \in Nat
      <4>1. AreDigits(c)
        BY DigitIsNat, SMT
      <4> QED
        BY <4>1, SMT DEF AreDigits
    <3>3. 0 \in 0..3 /\ 1 \in 0..3 /\ 2 \in 0..3 /\ 3 \in 0..3
      BY SMT
    <3>4. \E m \in 0..3 : Hex(source[k]) = Sixteenth(c, m)
      BY <1>4, <3>1, <3>3, SMT
    <3> QED
      BY <3>2, <3>4, SMT
  <2> QED
    BY <2>1, SMT
<1>7. readUTF8Escape(source, j) = IF is_surrogate(c) THEN Throws ELSE Read(append(c), j + 4)
  BY <1>2, <1>3, <1>5, <1>6, FourAreRead, SMT
<1>8. PICK step : step = escapeChar(source, i + 1)
  BY SMT
<1>9. step = readUTF8Escape(source, j)
  <2>1. PICK k : k = i + 1 /\ k + 1 = j
    BY <1>2, SMT
  <2>2. ~(k > Len(source)) /\ source[k] = 117
    <3>1. k <= n
      BY <1>3, <2>1, SMT
    <3>2. n = Len(source) /\ k \in Nat
      BY <1>2, <2>1, SMT
    <3> QED
      BY <1>1, <2>1, <3>1, <3>2, SMT
  <2>3. escapeChar(source, k) = readUTF8Escape(source, k + 1)
    BY <2>2, SMT DEF escapeChar, Quote, ReverseSolidus
  <2> QED
    BY <1>8, <2>1, <2>2, <2>3, SMT
<1>10. f[i] = After(step, f[step.next])
  BY <1>1, <1>2, <1>3, <1>8, EscapeTurn, SMT
<1>11. CASE is_surrogate(c)
  <2>1. step = Throws
    BY <1>7, <1>9, <1>11, SMT
  <2>2. After(step, f[step.next]) = Throws
    BY <2>1, SMT DEF After
  <2> QED
    BY <1>10, <1>11, <2>2, SMT
<1>12. CASE ~is_surrogate(c)
  <2>1. PICK t, m : t = append(c) /\ m = i + 6 /\ m \in Nat \ {0} /\ i + 1 \in Nat \ {0}
    BY SMT
  <2>2. step = Read(t, m)
    BY <1>3, <1>7, <1>9, <1>12, <2>1, SMT
  <2>3. step.next = m
    BY <2>1, <2>2, ReadIsNoThrow, SMT
  <2>4. m \in 2..(n + 1)
    BY <1>1, <1>2, <2>1, SMT
  <2>5. f[m] \in Outcomes
    BY <1>2, <2>4, SMT DEF Turns, Reads
  <2>6. t \in Seq(Byte)
    BY <2>1, Appended, SMT
  <2>7. After(Read(t, m), f[m]) = After(Read(t, i + 1), f[m])
    BY <2>1, <2>5, <2>6, AfterAny, SMT
  <2>8. f[i] = After(Read(t, i + 1), f[m])
    BY <1>10, <2>2, <2>3, <2>7, SMT
  <2> QED
    BY <1>12, <2>1, <2>8, SMT
<1> QED
  BY <1>11, <1>12, SMT

(* However a character is spelled: it is read as what its encoding is, but *)
(* an escaped surrogate is not read.                                       *)
LEMMA PieceIsRead ==
  ASSUME NEW source \in Seq(Byte), NEW f, Reads(source, f),
         NEW c \in Nat, c <= 1114111, NEW spelling \in SpellingsOf(c), NEW u, u = Utf8(c),
         NEW i \in Nat, i >= 2, Stands(spelling, source, i)
  PROVE  IF is_surrogate(c) THEN f[i] = Throws
         ELSE f[i] = After(Read(u, i + 1), f[i + Len(spelling)])
<1>1. CASE Plainly(c) /\ spelling = u
  <2>1. u \in Seq(Byte) /\ u # << >> /\ PlainText(u)
    <3>1. u \in Seq(Byte) /\ u # << >>
      BY Utf8Of, SMT
    <3>2. c # Quote /\ c # ReverseSolidus
      BY <1>1, SMT DEF Plainly
    <3>3. PlainText(u)
      BY <3>2, PlainEncoding, SMT
    <3> QED
      BY <3>1, <3>3, SMT
  <2>5. f[i] = After(Read(u, i + 1), f[i + Len(u)])
    BY <1>1, <2>1, BytesTurn, SMT
  <2>6. ~is_surrogate(c)
    BY <1>1, SMT DEF Plainly
  <2> QED
    BY <1>1, <2>5, <2>6, SMT
<1>2. CASE c \in DOMAIN Letter /\ spelling = <<ReverseSolidus, Letter[c]>>
  <2>1. c < 128 /\ ~is_surrogate(c)
    BY <1>2, LetterIs, SMT
  <2>2. u = <<c>> /\ Len(spelling) = 2
    BY <1>2, <2>1, Utf8Of, SMT
  <2>3. f[i] = After(Read(<<c>>, i + 1), f[i + 2])
    BY <1>2, LetterIsRead, SMT
  <2> QED
    BY <2>1, <2>2, <2>3, SMT
<1>3. ASSUME c < 65536, NEW upper \in BOOLEAN, spelling = Escaped(upper, c)
      PROVE  IF is_surrogate(c) THEN f[i] = Throws
             ELSE f[i] = After(Read(u, i + 1), f[i + Len(spelling)])
  <2>1. u = append(c)
    BY <1>3, Utf8Of, SMT
  <2>2. Len(spelling) = 6
    <3>1. SixDigits(spelling, c)
      BY <1>3, EscapedIs, SMT
    <3> QED
      BY <3>1, SMT DEF SixDigits
  <2>3. IF is_surrogate(c) THEN f[i] = Throws
        ELSE f[i] = After(Read(append(c), i + 1), f[i + 6])
    BY <1>3, EscapedIsRead, SMT
  <2> QED
    BY <2>1, <2>2, <2>3, SMT
<1> QED
  BY <1>1, <1>2, <1>3, SpellingIs, SMT

-----------------------------------------------------------------------------
(* What is known of one character, its encoding and its spellings.         *)
Escapes(spelling) == \E j \in 1..Len(spelling) : spelling[j] = ReverseSolidus

(* A spelling is the encoding itself, with nothing to escape, or it has an *)
(* escape and is longer.                                                   *)
SpelledBy(spelling, u) ==
    /\ spelling \in Seq(Byte) /\ u \in Seq(Byte)
    /\ \/ spelling = u /\ PlainText(u)
       \/ Len(spelling) > Len(u) /\ Escapes(spelling)

(* A spelling that stands at i is read as the encoding, or refused.        *)
ReadAs(source, f, i, c, spelling) ==
    IF is_surrogate(c) THEN f[i] = Throws
    ELSE f[i] = After(Read(Utf8(c), i + 1), f[i + Len(spelling)])

(* What was shown above of the encoding and the spellings.                 *)
LEMMA EachCharacter ==
  ASSUME NEW c \in CodePoints
  PROVE  /\ Utf8(c) \in Seq(Byte)
         /\ PlainText(Utf8(c)) <=> c # Quote /\ c # ReverseSolidus
         /\ SpellingsOf(c) \subseteq Seq(Byte)
         /\ \A spelling \in SpellingsOf(c) : SpelledBy(spelling, Utf8(c)) /\ spelling # << >>
<1>1. c \in Nat /\ c <= 1114111
  BY SMT DEF CodePoints
<1>2. PICK u : u = Utf8(c)
  BY SMT
<1>3. u \in Seq(Byte)
  BY <1>1, <1>2, Utf8Of, SMT
<1>4. ASSUME c # Quote, c # ReverseSolidus PROVE PlainText(u)
  BY <1>1, <1>2, <1>4, PlainEncoding, SMT
<1>5. ASSUME c = Quote \/ c = ReverseSolidus PROVE ~PlainText(u)
  <2>1. c < 128
    BY <1>5, SMT DEF Quote, ReverseSolidus
  <2>2. u = <<c>>
    BY <1>1, <1>2, <2>1, Utf8Of, SMT
  <2>3. 1 \in 1..Len(u) /\ u[1] = c
    BY <2>2, SMT
  <2> QED
    BY <1>5, <2>3, SMT DEF PlainText, PlainBytes
<1>6. ASSUME NEW spelling \in SpellingsOf(c)
      PROVE  spelling \in Seq(Byte) /\ SpelledBy(spelling, u) /\ spelling # << >>
  <2>1. /\ spelling \in Seq(Byte) /\ u \in Seq(Byte) /\ spelling # << >>
        /\ \/ spelling = u /\ PlainText(u)
           \/ Len(spelling) > Len(u) /\ spelling[1] = ReverseSolidus
    BY <1>1, <1>2, SpellingIsLonger, SMT
  <2>2. 1 \in 1..Len(spelling)
    BY <2>1, SMT
  <2> QED
    BY <2>1, <2>2, SMT DEF SpelledBy, Escapes
<1> QED
  BY <1>2, <1>3, <1>4, <1>5, <1>6, SMT

(* What was shown above of reading.                                        *)
LEMMA CharacterIsRead ==
  ASSUME NEW source \in Seq(Byte), NEW f, Reads(source, f),
         NEW c \in CodePoints, NEW spelling \in SpellingsOf(c),
         NEW i \in Nat, i >= 2, Stands(spelling, source, i)
  PROVE  ReadAs(source, f, i, c, spelling)
<1>1. c \in Nat /\ c <= 1114111
  BY SMT DEF CodePoints
<1>2. PICK u : u = Utf8(c)
  BY SMT
<1>3. IF is_surrogate(c) THEN f[i] = Throws
      ELSE f[i] = After(Read(u, i + 1), f[i + Len(spelling)])
  BY <1>1, <1>2, PieceIsRead, SMT
<1> QED
  BY <1>2, <1>3, SMT DEF ReadAs

-----------------------------------------------------------------------------
(* One piece of text after the other.                                      *)
PiecesOf(s, a, b, m, n) ==
    Len(s) = m + n /\ (\A j \in 1..m : s[j] = a[j]) /\ (\A j \in 1..n : s[m + j] = b[j])

(* A concatenation is made of its pieces.                                  *)
LEMMA PiecesAre ==
  ASSUME NEW S, NEW a \in Seq(S), NEW b \in Seq(S), NEW s, s = a \o b,
         NEW m, m = Len(a), NEW n, n = Len(b)
  PROVE  PiecesOf(s, a, b, m, n)
<1>1. Len(s) = m + n /\ m \in Nat /\ n \in Nat
  BY Joined
<1>2. \A j \in 1..(m + n) : s[j] = IF j <= m THEN a[j] ELSE b[j - m]
  BY JoinedFrom
<1>3. ASSUME NEW j \in 1..m PROVE s[j] = a[j]
  <2>1. j \in 1..(m + n) /\ j <= m
    BY <1>1
  <2> QED
    BY <1>2, <2>1, Zenon
<1>4. ASSUME NEW j \in 1..n PROVE s[m + j] = b[j]
  <2>1. m + j \in 1..(m + n) /\ ~(m + j <= m) /\ (m + j) - m = j
    BY <1>1
  <2>2. s[m + j] = b[(m + j) - m]
    BY <1>2, <2>1, Zenon
  <2> QED
    BY <2>1, <2>2, Zenon
<1> QED
  BY <1>1, <1>3, <1>4, Zenon DEF PiecesOf

(* A concatenation is plain if its pieces are.                             *)
LEMMA PlainTogether ==
  ASSUME NEW a \in Seq(Byte), NEW b \in Seq(Byte)
  PROVE  PlainText(a \o b) <=> PlainText(a) /\ PlainText(b)
<1>1. PICK s : s = a \o b
  OBVIOUS
<1>2. PICK m, n : m = Len(a) /\ n = Len(b) /\ m \in Nat /\ n \in Nat
  <2>1. Len(a) \in Nat /\ Len(b) \in Nat
    BY LenProperties, Zenon
  <2> QED
    BY <2>1, Zenon
<1>3. Len(s) = m + n /\ (\A j \in 1..m : s[j] = a[j]) /\ (\A j \in 1..n : s[m + j] = b[j])
  <2>1. PiecesOf(s, a, b, m, n)
    BY <1>1, <1>2, PiecesAre
  <2> QED
    BY <2>1, Zenon DEF PiecesOf
<1>4. \A j \in 1..(m + n) : j \in 1..m \/ \E k \in 1..n : j = m + k
  <2>1. ASSUME NEW j \in 1..(m + n), ~(j \in 1..m) PROVE j - m \in 1..n /\ j = m + (j - m)
    BY <1>2, <2>1
  <2> QED
    BY <2>1
<1>5. (\A j \in 1..m : j \in 1..(m + n)) /\ (\A j \in 1..n : m + j \in 1..(m + n))
  BY <1>2
<1> DEFINE Ok(x) == x # Quote /\ x # ReverseSolidus
<1>6. (\A j \in 1..(m + n) : Ok(s[j])) <=> (\A j \in 1..m : Ok(a[j])) /\ (\A j \in 1..n : Ok(b[j]))
  <2> HIDE DEF Ok
  <2> QED
    BY <1>3, <1>4, <1>5, Zenon
<1>7. /\ PlainText(s) <=> \A j \in 1..(m + n) : Ok(s[j])
      /\ PlainText(a) <=> \A j \in 1..m : Ok(a[j])
      /\ PlainText(b) <=> \A j \in 1..n : Ok(b[j])
  BY <1>2, <1>3, Zenon DEF PlainText, PlainBytes
<1> HIDE DEF Ok
<1> QED
  BY <1>1, <1>6, <1>7, Zenon

(* It has an escape if one of its pieces has.                              *)
LEMMA EscapesTogether ==
  ASSUME NEW a \in Seq(Byte), NEW b \in Seq(Byte), Escapes(a) \/ Escapes(b)
  PROVE  Escapes(a \o b)
<1>1. PICK s : s = a \o b
  OBVIOUS
<1>2. PICK m, n : m = Len(a) /\ n = Len(b) /\ m \in Nat /\ n \in Nat
  <2>1. Len(a) \in Nat /\ Len(b) \in Nat
    BY LenProperties, Zenon
  <2> QED
    BY <2>1, Zenon
<1>3. Len(s) = m + n /\ (\A j \in 1..m : s[j] = a[j]) /\ (\A j \in 1..n : s[m + j] = b[j])
  <2>1. PiecesOf(s, a, b, m, n)
    BY <1>1, <1>2, PiecesAre
  <2> QED
    BY <2>1, Zenon DEF PiecesOf
<1>4. (\A j \in 1..m : j \in 1..(m + n)) /\ (\A j \in 1..n : m + j \in 1..(m + n))
  BY <1>2
<1>5. (\E j \in 1..m : a[j] = ReverseSolidus) \/ (\E j \in 1..n : b[j] = ReverseSolidus)
  BY <1>2, Zenon DEF Escapes
<1>6. \E j \in 1..(m + n) : s[j] = ReverseSolidus
  BY <1>3, <1>4, <1>5, Zenon
<1> QED
  BY <1>1, <1>3, <1>6, Zenon DEF Escapes

(* Two spellings together spell the two encodings together.                *)
LEMMA SpelledTogether ==
  ASSUME NEW a, NEW b, NEW u, NEW v, SpelledBy(a, u), SpelledBy(b, v)
  PROVE  SpelledBy(a \o b, u \o v)
<1>1. a \in Seq(Byte) /\ b \in Seq(Byte) /\ u \in Seq(Byte) /\ v \in Seq(Byte)
  BY Zenon DEF SpelledBy
<1>2. PICK s, t : s = a \o b /\ t = u \o v
  OBVIOUS
<1>3. s \in Seq(Byte) /\ t \in Seq(Byte) /\ Len(s) = Len(a) + Len(b) /\ Len(t) = Len(u) + Len(v)
  BY <1>1, <1>2, Joined
<1>4. PICK k, l, m, n : k = Len(a) /\ l = Len(b) /\ m = Len(u) /\ n = Len(v)
                        /\ k \in Nat /\ l \in Nat /\ m \in Nat /\ n \in Nat
  <2>1. Len(a) \in Nat /\ Len(b) \in Nat /\ Len(u) \in Nat /\ Len(v) \in Nat
    BY <1>1, LenProperties, Zenon
  <2> QED
    BY <2>1, Zenon
<1>5. (a = u => k = m) /\ (b = v => l = n)
  BY <1>4, Zenon
<1>6. CASE a = u /\ PlainText(u) /\ b = v /\ PlainText(v)
  <2>1. PlainText(t)
    BY <1>1, <1>2, <1>6, PlainTogether
  <2> QED
    BY <1>2, <1>3, <1>6, <2>1, Zenon DEF SpelledBy
<1>7. CASE (Len(a) > Len(u) /\ Escapes(a)) \/ (Len(b) > Len(v) /\ Escapes(b))
  <2>1. Escapes(s)
    BY <1>1, <1>2, <1>7, EscapesTogether
  <2>2. (k > m \/ a = u) /\ (l > n \/ b = v) /\ (k > m \/ l > n)
    BY <1>4, <1>7, Zenon DEF SpelledBy
  <2>3. k + l > m + n
    BY <1>4, <1>5, <2>2
  <2>4. Len(s) > Len(t)
    BY <1>3, <1>4, <2>3, Zenon
  <2> QED
    BY <1>2, <1>3, <2>1, <2>4, Zenon DEF SpelledBy
<1> QED
  BY <1>6, <1>7, Zenon DEF SpelledBy

(* If a concatenation stands somewhere, so do its pieces.                  *)
LEMMA StandTogether ==
  ASSUME NEW a \in Seq(Byte), NEW b \in Seq(Byte), NEW source \in Seq(Byte), NEW i \in Nat,
         Stands(a \o b, source, i)
  PROVE  Stands(a, source, i) /\ Stands(b, source, i + Len(a))
<1>1. PICK s : s = a \o b
  OBVIOUS
<1>2. PICK m, n, l : m = Len(a) /\ n = Len(b) /\ l = Len(source)
                     /\ m \in Nat /\ n \in Nat /\ l \in Nat
  <2>1. Len(a) \in Nat /\ Len(b) \in Nat /\ Len(source) \in Nat
    BY LenProperties, Zenon
  <2> QED
    BY <2>1, Zenon
<1>3. Len(s) = m + n /\ (\A j \in 1..m : s[j] = a[j]) /\ (\A j \in 1..n : s[m + j] = b[j])
  <2>1. PiecesOf(s, a, b, m, n)
    BY <1>1, <1>2, PiecesAre
  <2> QED
    BY <2>1, Zenon DEF PiecesOf
<1>4. i + (m + n) <= l + 1 /\ \A j \in 1..(m + n) : source[i + j - 1] = s[j]
  BY <1>1, <1>2, <1>3, Zenon DEF Stands
<1>5. i + m <= l + 1 /\ (i + m) + n <= l + 1
  BY <1>2, <1>4
<1>6. ASSUME NEW j \in 1..m PROVE source[i + j - 1] = a[j]
  <2>1. j \in 1..(m + n)
    BY <1>2
  <2> QED
    BY <1>3, <1>4, <2>1, Zenon
<1>7. ASSUME NEW j \in 1..n PROVE source[(i + m) + j - 1] = b[j]
  <2>1. m + j \in 1..(m + n) /\ i + (m + j) - 1 = (i + m) + j - 1
    BY <1>2
  <2>2. source[i + (m + j) - 1] = s[m + j]
    BY <1>4, <2>1, Zenon
  <2> QED
    BY <1>3, <2>1, <2>2
<1>8. Stands(a, source, i)
  BY <1>2, <1>5, <1>6, Zenon DEF Stands
<1>9. Stands(b, source, i + m)
  BY <1>2, <1>5, <1>7, Zenon DEF Stands
<1> QED
  BY <1>2, <1>8, <1>9

(* Nothing before a reading leaves it as it is.                            *)
LEMMA AfterNothing ==
  ASSUME NEW k \in Nat \ {0}, NEW rest \in Outcomes
  PROVE  After(Read(<< >>, k), rest) = rest
<1>1. << >> \in Seq(Byte)
  OBVIOUS
<1>2. CASE rest = Throws
  BY <1>1, <1>2, AfterRead
<1>3. CASE rest # Throws
  <2>1. rest.text \in Seq(Byte) /\ rest = Read(rest.text, rest.next)
    BY <1>3, OutcomeIs
  <2>2. << >> \o rest.text = rest.text
    BY <2>1, Joined
  <2>3. After(Read(<< >>, k), rest) = Read(<< >> \o rest.text, rest.next)
    BY <1>1, <1>3, AfterRead
  <2> QED
    BY <2>1, <2>2, <2>3
<1> QED
  BY <1>2, <1>3

(* The encoding of a text grows by that of each character.                 *)
Grows(pre, text) ==
    /\ pre \in [0..Len(text) -> Seq(Byte)] /\ pre[0] = << >>
    /\ \A i \in 1..Len(text) : pre[i] = pre[i - 1] \o Utf8(text[i])

(* The recursive function of InUtf8 exists, and takes its steps.           *)
LEMMA EncodingGrows ==
  ASSUME NEW text \in Seq(CodePoints)
  PROVE  \E pre : Grows(pre, text) /\ InUtf8(text) = pre[Len(text)]
<1> DEFINE n == Len(text)
           D == Seq(Byte)
           first == << >>
           Longer(p, i) == p \o Utf8(text[i])
           Go(f) == [i \in 0..n |-> IF i = 0 THEN first ELSE Longer(f[i - 1], i)]
           F == [i \in 1..n |-> [p \in D |-> Longer(p, i)]]
           c == CHOOSE f : f = Go(f)
<1>1. n \in Nat /\ \A i \in 1..n : text[i] \in CodePoints
  OBVIOUS
<1>2. InUtf8(text) = c[n]
  BY Zenon DEF InUtf8
<1>3. first \in D
  OBVIOUS
<1>4. ASSUME NEW i \in 1..n, NEW p \in D PROVE Longer(p, i) \in D
  <2>1. Utf8(text[i]) \in Seq(Byte)
    BY <1>1, EachCharacter
  <2> QED
    BY <2>1, Joined
<1> HIDE DEF Longer, D, n, first
<1>5. F \in [1..n -> [D -> D]]
  BY <1>4
<1>6. PICK g \in [0..n -> D] : g[0] = first /\ \A i \in 1..n : g[i] = F[i][g[i - 1]]
  <2>1. n \in Nat /\ first \in D /\ F \in [1..n -> [D -> D]]
    BY <1>1, <1>3, <1>5
  <2> HIDE DEF F, Go
  <2> QED
    BY <2>1, Recursion, SMT
<1>7. \A i \in 1..n : g[i] = Longer(g[i - 1], i)
  <2>1. ASSUME NEW i \in 1..n PROVE g[i - 1] \in D
    BY <1>1
  <2> QED
    BY <1>6, <2>1
<1>8. g = Go(g)
  <2>1. ASSUME NEW i \in 0..n
        PROVE  g[i] = IF i = 0 THEN first ELSE Longer(g[i - 1], i)
    BY <1>1, <1>6, <1>7
  <2> QED
    BY <2>1
<1>9. c = Go(c)
  BY <1>8
<1> HIDE DEF c
<1>10. \A i \in 0..n : c[i] = IF i = 0 THEN first ELSE Longer(c[i - 1], i)
  <2>1. ASSUME NEW i \in 0..n
        PROVE  Go(c)[i] = IF i = 0 THEN first ELSE Longer(c[i - 1], i)
    OBVIOUS
  <2> HIDE DEF Go
  <2> QED
    BY <1>9, <2>1
<1>11. c[0] = first /\ \A i \in 1..n : c[i] = Longer(c[i - 1], i)
  BY <1>1, <1>10
<1>12. \A i \in 0..n : c[i] \in D
  <2> DEFINE T == {k \in Nat : k <= n => c[k] \in D}
  <2>1. 0 \in T
    BY <1>3, <1>11
  <2>2. ASSUME NEW k \in Nat, k \in T PROVE k + 1 \in T
    <3> SUFFICES ASSUME k + 1 <= n PROVE c[k + 1] \in D
      OBVIOUS
    <3>1. k + 1 \in 1..n /\ (k + 1) - 1 = k /\ c[k] \in D
      BY <1>1, <2>2
    <3>2. c[k + 1] = Longer(c[k], k + 1)
      BY <1>11, <3>1
    <3> QED
      BY <1>4, <3>1, <3>2
  <2> HIDE DEF T
  <2>3. \A k \in Nat : k \in T
    BY <2>1, <2>2, Induction
  <2> QED
    BY <1>1, <2>3 DEF T
<1>13. c \in [0..n -> D]
  <2>1. c = [i \in 0..n |-> IF i = 0 THEN first ELSE Longer(c[i - 1], i)]
    BY <1>9, Zenon
  <2> HIDE DEF Go
  <2> QED
    BY <1>12, <2>1
<1>14. Grows(c, text)
  BY <1>11, <1>13, Zenon DEF Grows, Longer, D, n, first
<1> QED
  BY <1>2, <1>14, Zenon DEF n

(* So do the spellings, by those of each character.                        *)
Spell(up, text) ==
    /\ up \in [0..Len(text) -> SUBSET Seq(Byte)] /\ up[0] = {<< >>}
    /\ \A i \in 1..Len(text) : up[i] = More(up[i - 1], text[i])

(* A longer spelling is a spelling and one of the next character.          *)
Continues(sp, begun, c) == \E before \in begun, s \in SpellingsOf(c) : sp = before \o s

(* That is what More says.                                                 *)
LEMMA MoreIs ==
  ASSUME NEW begun, NEW c, NEW sp \in More(begun, c)
  PROVE  Continues(sp, begun, c)
BY DEF More, Continues

(* The recursive function of Spellings exists, and takes its steps.        *)
LEMMA SpellingsGrow ==
  ASSUME NEW text \in Seq(CodePoints)
  PROVE  \E up : /\ Spell(up, text)
                 /\ Spellings(text) = {printString(spelling) : spelling \in up[Len(text)]}
<1> DEFINE n == Len(text)
           D == SUBSET Seq(Byte)
           Longer(p, i) == More(p, text[i])
           first == {<< >>}
           Go(f) == [i \in 0..n |-> IF i = 0 THEN first ELSE Longer(f[i - 1], i)]
           F == [i \in 1..n |-> [p \in D |-> Longer(p, i)]]
           up == CHOOSE f : f = Go(f)
<1>1. n \in Nat /\ \A i \in 1..n : text[i] \in CodePoints
  OBVIOUS
<1>2. Spellings(text) = {printString(spelling) : spelling \in up[n]}
  BY Zenon DEF Spellings
<1>3. first \in D
  OBVIOUS
<1>4. ASSUME NEW i \in 1..n, NEW p \in D PROVE Longer(p, i) \in D
  <2>1. SpellingsOf(text[i]) \subseteq Seq(Byte)
    BY <1>1, EachCharacter
  <2>2. ASSUME NEW a \in p, NEW b \in SpellingsOf(text[i]) PROVE a \o b \in Seq(Byte)
    <3>1. a \in Seq(Byte) /\ b \in Seq(Byte)
      BY <2>1
    <3> QED
      BY <3>1, Joined
  <2>3. More(p, text[i]) \subseteq Seq(Byte)
    <3>1. ASSUME NEW s \in More(p, text[i]) PROVE s \in Seq(Byte)
      <4>1. Continues(s, p, text[i])
        BY MoreIs
      <4> QED
        BY <2>2, <4>1, Zenon DEF Continues
    <3> QED
      BY <3>1, Zenon
  <2> QED
    BY <2>3, Zenon
<1> HIDE DEF Longer, D, n, first
<1>5. F \in [1..n -> [D -> D]]
  BY <1>4
<1>6. PICK g \in [0..n -> D] : g[0] = first /\ \A i \in 1..n : g[i] = F[i][g[i - 1]]
  <2>1. n \in Nat /\ first \in D /\ F \in [1..n -> [D -> D]]
    BY <1>1, <1>3, <1>5
  <2> HIDE DEF F, Go
  <2> QED
    BY <2>1, Recursion, SMT
<1>7. \A i \in 1..n : g[i] = Longer(g[i - 1], i)
  <2>1. ASSUME NEW i \in 1..n PROVE g[i - 1] \in D
    BY <1>1
  <2> QED
    BY <1>6, <2>1
<1>8. g = Go(g)
  <2>1. ASSUME NEW i \in 0..n
        PROVE  g[i] = IF i = 0 THEN first ELSE Longer(g[i - 1], i)
    BY <1>1, <1>6, <1>7
  <2> QED
    BY <2>1
<1>9. up = Go(up)
  BY <1>8
<1> HIDE DEF up
<1>10. \A i \in 0..n : up[i] = IF i = 0 THEN first ELSE Longer(up[i - 1], i)
  <2>1. ASSUME NEW i \in 0..n
        PROVE  Go(up)[i] = IF i = 0 THEN first ELSE Longer(up[i - 1], i)
    OBVIOUS
  <2> HIDE DEF Go
  <2> QED
    BY <1>9, <2>1
<1>11. up[0] = first /\ \A i \in 1..n : up[i] = Longer(up[i - 1], i)
  BY <1>1, <1>10
<1>12. \A i \in 0..n : up[i] \in D
  <2> DEFINE T == {k \in Nat : k <= n => up[k] \in D}
  <2>1. 0 \in T
    BY <1>3, <1>11
  <2>2. ASSUME NEW k \in Nat, k \in T PROVE k + 1 \in T
    <3> SUFFICES ASSUME k + 1 <= n PROVE up[k + 1] \in D
      OBVIOUS
    <3>1. k + 1 \in 1..n /\ (k + 1) - 1 = k /\ up[k] \in D
      BY <1>1, <2>2
    <3>2. up[k + 1] = Longer(up[k], k + 1)
      BY <1>11, <3>1
    <3> QED
      BY <1>4, <3>1, <3>2
  <2> HIDE DEF T
  <2>3. \A k \in Nat : k \in T
    BY <2>1, <2>2, Induction
  <2> QED
    BY <1>1, <2>3 DEF T
<1>13. up \in [0..n -> D]
  <2>1. up = [i \in 0..n |-> IF i = 0 THEN first ELSE Longer(up[i - 1], i)]
    BY <1>9, Zenon
  <2> HIDE DEF Go
  <2> QED
    BY <1>12, <2>1
<1>14. Spell(up, text)
  BY <1>11, <1>13, Zenon DEF Spell, Longer, D, n, first
<1> QED
  BY <1>2, <1>14, Zenon DEF n

(* Every spelling of a text is its encoding, or longer and with an escape. *)
LEMMA SpellingsAre ==
  ASSUME NEW text \in Seq(CodePoints), NEW pre, Grows(pre, text), NEW up, Spell(up, text),
         NEW spelling \in up[Len(text)]
  PROVE  SpelledBy(spelling, pre[Len(text)])
<1>1. PICK n : n = Len(text) /\ n \in Nat /\ \A i \in 1..n : text[i] \in CodePoints
  OBVIOUS
<1> DEFINE T == {k \in Nat : k <= n => \A sp \in up[k] : SpelledBy(sp, pre[k])}
<1>2. 0 \in T
  <2>1. SpelledBy(<< >>, << >>)
    <3>1. << >> \in Seq(Byte) /\ 1..Len(<< >>) = {}
      OBVIOUS
    <3>2. PlainText(<< >>)
      BY <3>1, Zenon DEF PlainText, PlainBytes
    <3> QED
      BY <3>1, <3>2, Zenon DEF SpelledBy
  <2>2. up[0] = {<< >>} /\ pre[0] = << >>
    BY Zenon DEF Grows, Spell
  <2> QED
    BY <2>1, <2>2
<1>3. ASSUME NEW k \in Nat, k \in T PROVE k + 1 \in T
  <2> SUFFICES ASSUME k + 1 <= n, NEW sp \in up[k + 1] PROVE SpelledBy(sp, pre[k + 1])
    OBVIOUS
  <2>1. PICK i : i = k + 1 /\ i \in 1..n /\ i - 1 = k
    BY <1>1
  <2>2. PICK c \in CodePoints : c = text[i]
    BY <1>1, <2>1, Zenon
  <2>3. up[i] = More(up[k], c) /\ pre[i] = pre[k] \o Utf8(c)
    BY <1>1, <2>1, <2>2 DEF Grows, Spell
  <2>4. PICK before \in up[k], s \in SpellingsOf(c) : sp = before \o s
    <3>1. sp \in More(up[k], c)
      BY <2>1, <2>3, Zenon
    <3> HIDE DEF T
    <3>2. Continues(sp, up[k], c)
      BY <3>1, MoreIs
    <3> QED
      BY <3>2, Zenon DEF Continues
  <2>5. SpelledBy(before, pre[k])
    <3>1. \A x \in up[k] : SpelledBy(x, pre[k])
      BY <1>1, <1>3, <2>1
    <3> HIDE DEF T
    <3> QED
      BY <2>4, <3>1, Zenon
  <2>6. SpelledBy(s, Utf8(c))
    BY <2>4, EachCharacter, Zenon
  <2>7. SpelledBy(before \o s, pre[k] \o Utf8(c))
    BY <2>5, <2>6, SpelledTogether, Zenon
  <2> QED
    BY <2>1, <2>3, <2>4, <2>7, Zenon
<1> HIDE DEF T
<1>4. n \in T
  BY <1>1, <1>2, <1>3, Induction
<1> QED
  BY <1>1, <1>4 DEF T

(* An encoding has nothing to escape if no character has.                  *)
LEMMA EncodingIsPlain ==
  ASSUME NEW text \in Seq(CodePoints), NEW pre, Grows(pre, text)
  PROVE  /\ pre[Len(text)] \in Seq(Byte)
         /\ PlainText(pre[Len(text)])
              <=> \A i \in 1..Len(text) : text[i] # Quote /\ text[i] # ReverseSolidus
<1>1. PICK n : n = Len(text) /\ n \in Nat /\ \A i \in 1..n : text[i] \in CodePoints
  OBVIOUS
<1> DEFINE Ok(k) == text[k] # Quote /\ text[k] # ReverseSolidus
           T == {k \in Nat : k <= n => /\ pre[k] \in Seq(Byte)
                                       /\ PlainText(pre[k]) <=> \A i \in 1..k : Ok(i)}
<1>2. 0 \in T
  <2>1. << >> \in Seq(Byte) /\ 1..Len(<< >>) = {} /\ 1..0 = {}
    OBVIOUS
  <2>2. PlainText(<< >>)
    BY <2>1, Zenon DEF PlainText, PlainBytes
  <2>3. pre[0] = << >>
    BY Zenon DEF Grows
  <2>4. \A i \in 1..0 : Ok(i)
    BY <2>1
  <2> HIDE DEF Ok
  <2> QED
    BY <2>1, <2>2, <2>3, <2>4, Zenon
<1>3. ASSUME NEW k \in Nat, k \in T PROVE k + 1 \in T
  <2> SUFFICES ASSUME k + 1 <= n
               PROVE  /\ pre[k + 1] \in Seq(Byte)
                      /\ PlainText(pre[k + 1]) <=> \A i \in 1..(k + 1) : Ok(i)
    OBVIOUS
  <2>1. PICK m : m = k + 1 /\ m \in 1..n /\ m - 1 = k
    BY <1>1
  <2>2. PICK c \in CodePoints : c = text[m]
    BY <1>1, <2>1, Zenon
  <2>3. pre[m] = pre[k] \o Utf8(c)
    BY <1>1, <2>1, <2>2 DEF Grows
  <2>4. Utf8(c) \in Seq(Byte) /\ (PlainText(Utf8(c)) <=> Ok(m))
    BY <2>2, EachCharacter, Zenon
  <2>5. pre[k] \in Seq(Byte) /\ (PlainText(pre[k]) <=> \A i \in 1..k : Ok(i))
    <3>1. k <= n
      BY <1>1
    <3> HIDE DEF Ok
    <3> QED
      BY <1>3, <3>1, Zenon
  <2>6. pre[m] \in Seq(Byte)
    BY <2>3, <2>4, <2>5, Joined
  <2>7. PlainText(pre[m]) <=> PlainText(pre[k]) /\ PlainText(Utf8(c))
    BY <2>3, <2>4, <2>5, PlainTogether, Zenon
  <2>8. (\A i \in 1..m : Ok(i)) <=> (\A i \in 1..k : Ok(i)) /\ Ok(m)
    <3>1. \A i : i \in 1..m <=> i \in 1..k \/ i = m
      BY <2>1
    <3> HIDE DEF Ok
    <3> QED
      BY <3>1, Zenon
  <2> HIDE DEF Ok
  <2> QED
    BY <2>1, <2>4, <2>5, <2>6, <2>7, <2>8, Zenon
<1> HIDE DEF T, Ok
<1>4. n \in T
  BY <1>1, <1>2, <1>3, Induction
<1>5. n <= n
  BY <1>1
<1> QED
  BY <1>1, <1>4, <1>5, Zenon DEF T, Ok

-----------------------------------------------------------------------------
(* What is read for a text that stands behind the opening quotation mark.  *)
Refused(text, k) == \E i \in 1..k : is_surrogate(text[i])

(* A text is read as its encoding u up to a position, or refused.          *)
ReadSo(f, refused, u, next) ==
    IF refused THEN f[2] = Throws ELSE f[2] = After(Read(u, 2), f[next])

(* One more character is read as it should be.                             *)
LEMMA OneMoreRead ==
  ASSUME NEW source \in Seq(Byte), NEW f, Reads(source, f), NEW c \in CodePoints,
         NEW s \in SpellingsOf(c), NEW before \in Seq(Byte), NEW u \in Seq(Byte),
         Stands(before \o s, source, 2),
         NEW text, NEW k \in Nat, NEW i, i = k + 1, text[i] = c,
         ReadSo(f, Refused(text, k), u, 2 + Len(before))
  PROVE  ReadSo(f, Refused(text, i), u \o Utf8(c), 2 + Len(before \o s))
<1>0. Refused(text, i) <=> Refused(text, k) \/ is_surrogate(c)
  <2>1. \A j : j \in 1..i <=> j \in 1..k \/ j = i
    OBVIOUS
  <2> QED
    BY <2>1, Zenon DEF Refused
<1>1. s \in Seq(Byte) /\ Utf8(c) \in Seq(Byte)
  BY EachCharacter
<1>2. PICK v, m, l : v = Utf8(c) /\ m = 2 + Len(before) /\ l = 2 + Len(before \o s)
  OBVIOUS
<1>3. m \in Nat /\ m >= 2 /\ l = m + Len(s) /\ m \in Nat \ {0} /\ m + 1 \in Nat \ {0}
  <2>1. Len(before) \in Nat /\ Len(s) \in Nat /\ Len(before \o s) = Len(before) + Len(s)
    BY <1>1, Joined
  <2> QED
    BY <1>2, <2>1
<1>4. Stands(s, source, m)
  <2>1. 2 \in Nat
    OBVIOUS
  <2> QED
    BY <1>1, <1>2, <2>1, StandTogether, Zenon
<1>5. ReadAs(source, f, m, c, s)
  BY <1>3, <1>4, CharacterIsRead
<1>6. CASE Refused(text, k)
  <2>1. f[2] = Throws
    BY <1>6, Zenon DEF ReadSo
  <2> QED
    BY <1>0, <1>6, <2>1, Zenon DEF ReadSo
<1>7. ASSUME ~Refused(text, k) PROVE f[2] = After(Read(u, 2), f[m])
  BY <1>2, <1>7, Zenon DEF ReadSo
<1>8. CASE ~Refused(text, k) /\ is_surrogate(c)
  <2>1. f[m] = Throws
    BY <1>8, <1>5, Zenon DEF ReadAs
  <2>2. f[2] = Throws
    BY <1>7, <1>8, <2>1, Zenon DEF After
  <2> QED
    BY <1>0, <1>8, <2>2, Zenon DEF ReadSo
<1>9. CASE ~Refused(text, k) /\ ~is_surrogate(c)
  <2>1. f[m] = After(Read(v, m + 1), f[l])
    BY <1>2, <1>3, <1>5, <1>9, Zenon DEF ReadAs
  <2>2. f[l] \in Outcomes
    BY <1>1, <1>3, <1>4, StandsAt
  <2>3. PICK r : r = f[l] /\ r \in Outcomes
    BY <2>2, Zenon
  <2>4. 2 \in Nat \ {0}
    OBVIOUS
  <2>5. After(Read(u, 2), After(Read(v, m + 1), r)) = After(Read(u \o v, 2), r)
    <3>1. v \in Seq(Byte)
      BY <1>1, <1>2, Zenon
    <3> QED
      BY <1>3, <2>3, <2>4, <3>1, AfterTwo
  <2>6. f[2] = After(Read(u \o v, 2), f[l])
    BY <1>7, <1>9, <2>1, <2>3, <2>5, Zenon
  <2> QED
    BY <1>0, <1>2, <1>9, <2>6, Zenon DEF ReadSo
<1> QED
  BY <1>6, <1>8, <1>9, Zenon

(* So the whole text is.                                                   *)
LEMMA SpellingIsRead ==
  ASSUME NEW text \in Seq(CodePoints), NEW pre, Grows(pre, text), NEW up, Spell(up, text),
         NEW spelling \in up[Len(text)], NEW source \in Seq(Byte), NEW f, Reads(source, f),
         Stands(spelling, source, 2)
  PROVE  ReadSo(f, Refused(text, Len(text)), pre[Len(text)], 2 + Len(spelling))
<1>1. PICK n : n = Len(text) /\ n \in Nat /\ \A i \in 1..n : text[i] \in CodePoints
  BY LenProperties
<1> DEFINE Goal(k, sp) == Stands(sp, source, 2) =>
                            ReadSo(f, Refused(text, k), pre[k], 2 + Len(sp))
           T == {k \in Nat : k <= n => \A sp \in up[k] : Goal(k, sp)}
<1>2. pre \in [0..n -> Seq(Byte)] /\ up \in [0..n -> SUBSET Seq(Byte)]
  BY <1>1, Zenon DEF Grows, Spell
<1>3. 0 \in T
  <2>1. << >> \in Seq(Byte) /\ 1..0 = {} /\ 2 + Len(<< >>) = 2 /\ 2 \in Nat /\ 2 >= 2
        /\ 2 \in Nat \ {0}
    OBVIOUS
  <2>2. ASSUME Stands(<< >>, source, 2) PROVE ReadSo(f, Refused(text, 0), << >>, 2 + Len(<< >>))
    <3>1. f[2] \in Outcomes
      BY <2>1, <2>2, StandsAt
    <3>2. After(Read(<< >>, 2), f[2]) = f[2]
      BY <2>1, <3>1, AfterNothing
    <3>3. ~Refused(text, 0)
      BY <2>1, Zenon DEF Refused
    <3> QED
      BY <2>1, <3>2, <3>3, Zenon DEF ReadSo
  <2>3. up[0] = {<< >>} /\ pre[0] = << >>
    BY Zenon DEF Grows, Spell
  <2>4. ASSUME NEW sp \in up[0] PROVE Goal(0, sp)
    <3>1. sp = << >>
      BY <2>3
    <3> QED
      BY <2>2, <2>3, <3>1, Zenon
  <2> HIDE DEF Goal
  <2> QED
    BY <2>4
<1>4. ASSUME NEW k \in Nat, k \in T PROVE k + 1 \in T
  <2> SUFFICES ASSUME k + 1 <= n, NEW sp \in up[k + 1], Stands(sp, source, 2)
               PROVE  ReadSo(f, Refused(text, k + 1), pre[k + 1], 2 + Len(sp))
    OBVIOUS
  <2>1. PICK i : i = k + 1 /\ i \in 1..n /\ i - 1 = k /\ k <= n /\ k \in 0..n
    BY <1>1
  <2>2. PICK c \in CodePoints : c = text[i]
    BY <1>1, <2>1, Zenon
  <2>3. up[i] = More(up[k], c) /\ pre[i] = pre[k] \o Utf8(c)
    BY <1>1, <2>1, <2>2 DEF Grows, Spell
  <2>4. PICK before \in up[k], s \in SpellingsOf(c) : sp = before \o s
    <3>1. sp \in More(up[k], c)
      BY <2>1, <2>3, Zenon
    <3> HIDE DEF T
    <3>2. Continues(sp, up[k], c)
      BY <3>1, MoreIs
    <3> QED
      BY <3>2, Zenon DEF Continues
  <2>5. before \in Seq(Byte) /\ pre[k] \in Seq(Byte) /\ s \in Seq(Byte)
    <3>1. up[k] \in SUBSET Seq(Byte) /\ pre[k] \in Seq(Byte)
      BY <1>2, <2>1
    <3>2. s \in Seq(Byte)
      BY <2>4, EachCharacter
    <3> QED
      BY <2>4, <3>1, <3>2
  <2>6. Stands(before \o s, source, 2)
    BY <2>4, Zenon
  <2>7. Stands(before, source, 2)
    <3>1. 2 \in Nat
      OBVIOUS
    <3> QED
      BY <2>5, <2>6, <3>1, StandTogether, Zenon
  <2>8. ReadSo(f, Refused(text, k), pre[k], 2 + Len(before))
    BY <1>4, <2>1, <2>4, <2>7, Zenon
  <2>10. ReadSo(f, Refused(text, i), pre[k] \o Utf8(c), 2 + Len(before \o s))
    <3> HIDE DEF T
    <3> QED
      BY <2>1, <2>2, <2>4, <2>5, <2>6, <2>8, OneMoreRead
  <2>12. ReadSo(f, Refused(text, i), pre[i], 2 + Len(sp))
    BY <2>3, <2>4, <2>10, Zenon
  <2> QED
    BY <2>1, <2>12, Zenon
<1> HIDE DEF T
<1>5. n \in T
  BY <1>1, <1>3, <1>4, Induction
<1>6. n <= n
  BY <1>1
<1>7. Goal(n, spelling)
  <2> HIDE DEF Goal
  <2> QED
    BY <1>1, <1>5, <1>6, Zenon DEF T
<1> QED
  BY <1>1, <1>7, Zenon

-----------------------------------------------------------------------------
(* A string between its quotation marks.                                   *)
Quoted(source, s) ==
    /\ source \in Seq(Byte) /\ Len(source) = Len(s) + 2
    /\ Stands(s, source, 2) /\ source[2 + Len(s)] = Quote
    /\ ReverseSolidus \in ToSet(source) <=> Escapes(s)

(* printString puts a string between quotation marks.                      *)
LEMMA PrintedIs ==
  ASSUME NEW s \in Seq(Byte), NEW source, source = printString(s)
  PROVE  Quoted(source, s)
<1>1. Quote \in Byte /\ ReverseSolidus # Quote
  BY DEF Quote, ReverseSolidus, Byte
<1>2. PICK m : m = Len(s) /\ m \in Nat
  BY LenProperties, Zenon
<1>3. PICK q : q = <<Quote>> /\ q \in Seq(Byte) /\ Len(q) = 1 /\ q[1] = Quote
  <2>1. <<Quote>> \in Seq(Byte) /\ Len(<<Quote>>) = 1 /\ <<Quote>>[1] = Quote
    BY <1>1
  <2> QED
    BY <2>1, Zenon
<1>4. PICK a : a = q \o s
  BY Zenon
<1>5. source = a \o q
  <2>1. source = <<Quote>> \o s \o <<Quote>>
    BY Zenon DEF printString
  <2> QED
    BY <1>3, <1>4, <2>1, Zenon
<1>6. a \in Seq(Byte) /\ Len(a) = 1 + m /\ a[1] = Quote /\ \A j \in 1..m : a[1 + j] = s[j]
  <2>1. PICK k : k = Len(q)
    BY Zenon
  <2>2. a \in Seq(Byte) /\ PiecesOf(a, q, s, k, m)
    BY <1>2, <1>3, <1>4, <2>1, PiecesAre, Joined
  <2>3. k = 1 /\ 1 \in 1..1
    BY <1>3, <2>1
  <2> QED
    BY <1>3, <2>2, <2>3, Zenon DEF PiecesOf
<1>7. /\ source \in Seq(Byte) /\ Len(source) = (1 + m) + 1
      /\ (\A j \in 1..(1 + m) : source[j] = a[j]) /\ source[(1 + m) + 1] = Quote
  <2>1. PICK k, l : k = Len(q) /\ l = Len(a)
    BY Zenon
  <2>2. source \in Seq(Byte) /\ PiecesOf(source, a, q, l, k)
    BY <1>3, <1>5, <1>6, <2>1, PiecesAre, Joined
  <2>3. k = 1 /\ 1 \in 1..1 /\ l = 1 + m
    BY <1>3, <1>6, <2>1
  <2> QED
    BY <1>3, <2>2, <2>3, Zenon DEF PiecesOf
<1>8. (1 + m) + 1 = m + 2 /\ 2 + m = m + 2
  BY <1>2
<1>9. \A j \in 1..m : source[2 + j - 1] = s[j]
  <2>1. ASSUME NEW j \in 1..m PROVE source[2 + j - 1] = s[j]
    <3>1. 1 + j \in 1..(1 + m) /\ 2 + j - 1 = 1 + j
      BY <1>2
    <3> QED
      BY <1>6, <1>7, <3>1, Zenon
  <2> QED
    BY <2>1
<1>10. Stands(s, source, 2)
  <2>1. 2 + m <= (m + 2) + 1
    BY <1>2
  <2> QED
    BY <1>2, <1>7, <1>8, <1>9, <2>1, Zenon DEF Stands
<1>11. ReverseSolidus \in ToSet(source) <=> Escapes(s)
  <2>1. ToSet(source) = {source[j] : j \in 1..(m + 2)}
    <3>1. DOMAIN source = 1..Len(source)
      BY <1>7, LenProperties
    <3> QED
      BY <1>7, <1>8, <3>1 DEF ToSet
  <2>2. ASSUME NEW j \in 1..(m + 2), source[j] = ReverseSolidus PROVE j - 1 \in 1..m
    <3>1. source[1] = Quote
      <4>1. 1 \in 1..(1 + m)
        BY <1>2
      <4> QED
        BY <1>6, <1>7, <4>1, Zenon
    <3>2. j # 1 /\ j # m + 2
      BY <1>1, <1>7, <1>8, <2>2, <3>1, Zenon
    <3> QED
      BY <1>2, <3>2
  <2>3. ASSUME NEW j \in 1..m PROVE 1 + j \in 1..(m + 2) /\ source[1 + j] = s[j]
    <3>1. 2 + j - 1 = 1 + j /\ 1 + j \in 1..(m + 2)
      BY <1>2
    <3> QED
      BY <1>9, <3>1
  <2>4. (\E j \in 1..(m + 2) : source[j] = ReverseSolidus) => \E j \in 1..m : s[j] = ReverseSolidus
    <3>1. ASSUME NEW j \in 1..(m + 2), source[j] = ReverseSolidus
          PROVE  \E i \in 1..m : s[i] = ReverseSolidus
      <4>1. PICK i : i = j - 1 /\ i \in 1..m /\ 1 + i = j
        BY <1>2, <2>2, <3>1
      <4> QED
        BY <2>3, <3>1, <4>1
    <3> QED
      BY <3>1, Zenon
  <2>5. (\E j \in 1..m : s[j] = ReverseSolidus) => \E j \in 1..(m + 2) : source[j] = ReverseSolidus
    BY <2>3, Zenon
  <2>6. Escapes(s) <=> \E j \in 1..m : s[j] = ReverseSolidus
    BY <1>2, Zenon DEF Escapes
  <2>7. ReverseSolidus \in ToSet(source) <=> \E j \in 1..(m + 2) : source[j] = ReverseSolidus
    BY <2>1, Zenon
  <2> QED
    BY <2>4, <2>5, <2>6, <2>7, Zenon
<1> QED
  BY <1>2, <1>7, <1>8, <1>10, <1>11, Zenon DEF Quoted

(* A reading before the end is the whole reading.                          *)
LEMMA AfterEnd ==
  ASSUME NEW u \in Seq(Byte), NEW k \in Nat \ {0}, NEW next \in Nat \ {0}
  PROVE  After(Read(u, k), Read(<< >>, next)) = Read(u, next)
<1>1. << >> \in Seq(Byte) /\ u \o << >> = u
  BY Joined
<1>2. PICK r : r = Read(<< >>, next)
  BY Zenon
<1>3. r \in Outcomes /\ r # Throws /\ r.text = << >> /\ r.next = next
  BY <1>1, <1>2, ReadIsOutcome, ReadIsNoThrow
<1>4. After(Read(u, k), r) = Read(u \o r.text, r.next)
  BY <1>3, AfterRead
<1> QED
  BY <1>1, <1>2, <1>3, <1>4

(* The loop ends at the closing quotation mark.                            *)
Ends(source, f, s) == f[2 + Len(s)] = Read(<< >>, Len(source) + 1)

(* Both loops do.                                                          *)
LEMMA EndOfString ==
  ASSUME NEW source, NEW s \in Seq(Byte), Quoted(source, s), NEW escapes, NEW f,
         Turns(source, escapes, f)
  PROVE  Ends(source, f, s)
<1>1. /\ source \in Seq(Byte) /\ Len(source) = Len(s) + 2 /\ source[2 + Len(s)] = Quote
  BY Zenon DEF Quoted
<1>2. PICK i, n : i = 2 + Len(s) /\ n = Len(source)
  BY Zenon
<1>3. Len(s) \in Nat
  BY LenProperties, Zenon
<1>4. i \in Nat /\ i >= 2 /\ i <= n /\ n \in Nat /\ i = n
  BY <1>1, <1>2, <1>3
<1>5. f[i] = Read(<< >>, i + 1)
  BY <1>1, <1>2, <1>4, TurnOfQuote
<1> QED
  BY <1>2, <1>4, <1>5, Zenon DEF Ends

(* A string is read as u, to its end.                                      *)
AllRead(source, f, u) == f[2] = Read(u, Len(source) + 1)

(* A plain string is read as it stands.                                    *)
LEMMA PlainIsRead ==
  ASSUME NEW source, NEW s \in Seq(Byte), Quoted(source, s), NEW escapes, NEW f,
         Turns(source, escapes, f), PlainText(s)
  PROVE  AllRead(source, f, s)
<1>1. source \in Seq(Byte) /\ Stands(s, source, 2) /\ Len(source) = Len(s) + 2
  BY Zenon DEF Quoted
<1>2. f[2 + Len(s)] = Read(<< >>, Len(source) + 1)
  BY EndOfString, Zenon DEF Ends
<1>3. Len(s) \in Nat
  BY LenProperties, Zenon
<1>4. Len(source) + 1 \in Nat \ {0} /\ 2 \in Nat /\ 2 >= 2 /\ 2 + 1 \in Nat \ {0}
  BY <1>1, <1>3
<1>5. CASE s = << >>
  <2>1. 2 + Len(s) = 2
    BY <1>5
  <2> QED
    BY <1>2, <1>5, <2>1, Zenon DEF AllRead
<1>6. CASE s # << >>
  <2>1. PlainBytes(s, escapes)
    BY Zenon DEF PlainText, PlainBytes
  <2>2. BytesRead(source, escapes, f)
    BY <1>1, AllBytesAreRead, Zenon
  <2>3. f[2] = After(Read(s, 2 + 1), f[2 + Len(s)])
    BY <1>1, <1>4, <1>6, <2>1, <2>2, Zenon DEF BytesRead
  <2>4. PICK next, k : next = Len(source) + 1 /\ k = 2 + 1
                       /\ next \in Nat \ {0} /\ k \in Nat \ {0}
    BY <1>4, Zenon
  <2>5. After(Read(s, k), Read(<< >>, next)) = Read(s, next)
    BY <2>4, AfterEnd
  <2> QED
    BY <1>2, <2>3, <2>4, <2>5, Zenon DEF AllRead
<1> QED
  BY <1>5, <1>6, Zenon

(* What is read is as long as the string only if nothing was escaped.      *)
RunsOut(escapes, u, s) ==
    (~escapes => Len(u) = Len(s)) /\ (Len(u) = Len(s) => PlainBytes(s, escapes))

(* That is so of whatever is read to the end of a string.                  *)
LEMMA ReadRunsOut ==
  ASSUME NEW source, NEW s \in Seq(Byte), Quoted(source, s), NEW escapes, NEW f,
         Turns(source, escapes, f), NEW u \in Seq(Byte), AllRead(source, f, u)
  PROVE  RunsOut(escapes, u, s)
<1>1. source \in Seq(Byte) /\ Stands(s, source, 2) /\ Len(source) = Len(s) + 2
  BY Zenon DEF Quoted
<1>2. PICK m, n, k : m = Len(s) /\ n = Len(source) /\ k = Len(u)
                     /\ m \in Nat /\ n \in Nat /\ k \in Nat
  <2>1. Len(s) \in Nat /\ Len(source) \in Nat /\ Len(u) \in Nat
    BY <1>1, LenProperties, Zenon
  <2> QED
    BY <2>1, Zenon
<1>3. n = m + 2 /\ n >= 1 /\ n + 1 \in Nat \ {0}
  BY <1>1, <1>2
<1>4. Shorter(source, escapes, f[2], 2)
  BY <1>1, <1>2, <1>3, TextIsShorter
<1>5. PICK r : r = f[2]
  BY Zenon
<1>6. r = Read(u, n + 1)
  BY <1>2, <1>5, Zenon DEF AllRead
<1>7. r # Throws /\ r.text = u /\ r.next = n + 1
  BY <1>3, <1>6, ReadIsNoThrow
<1>8. /\ ~escapes => k + 2 + 1 = n + 1
      /\ k + 2 + 1 = n + 1 => \A j \in 2..((n + 1) - 2) :
            source[j] # Quote /\ ~(escapes /\ source[j] = ReverseSolidus)
  <2>1. Shorter(source, escapes, r, 2)
    BY <1>4, <1>5, Zenon
  <2>2. /\ ~escapes => Len(r.text) + 2 + 1 = r.next
        /\ Len(r.text) + 2 + 1 = r.next => \A j \in 2..(r.next - 2) :
              source[j] # Quote /\ ~(escapes /\ source[j] = ReverseSolidus)
    BY <1>7, <2>1, Zenon DEF Shorter
  <2>3. Len(r.text) + 2 + 1 = k + 2 + 1 /\ r.next = n + 1
    BY <1>2, <1>7, Zenon
  <2>4. ~escapes => k + 2 + 1 = n + 1
    BY <2>2, <2>3, Zenon
  <2>5. 2..(r.next - 2) = 2..((n + 1) - 2)
    BY <2>3, Zenon
  <2>6. ASSUME k + 2 + 1 = n + 1, NEW j \in 2..((n + 1) - 2)
        PROVE  source[j] # Quote /\ ~(escapes /\ source[j] = ReverseSolidus)
    <3>1. Len(r.text) + 2 + 1 = r.next
      BY <2>3, <2>6, Zenon
    <3>2. j \in 2..(r.next - 2)
      BY <2>5, <2>6, Zenon
    <3> QED
      BY <2>2, <3>1, <3>2, Zenon
  <2> QED
    BY <2>4, <2>6, Zenon
<1>9. (k + 2 + 1 = n + 1 <=> k = m) /\ (n + 1) - 2 = m + 1
  BY <1>2, <1>3
<1>10. ASSUME k = m PROVE PlainBytes(s, escapes)
  <2>1. ASSUME NEW j \in 1..m PROVE s[j] # Quote /\ ~(escapes /\ s[j] = ReverseSolidus)
    <3>1. PICK i : i = 2 + j - 1 /\ i \in 2..(m + 1)
      BY <1>2
    <3>2. source[i] = s[j]
      BY <1>1, <1>2, <3>1, Zenon DEF Stands
    <3>3. source[i] # Quote /\ ~(escapes /\ source[i] = ReverseSolidus)
      BY <1>8, <1>9, <1>10, <3>1, Zenon
    <3> QED
      BY <3>2, <3>3, Zenon
  <2> QED
    BY <1>2, <2>1, Zenon DEF PlainBytes
<1>11. ~escapes => k = m
  BY <1>8, <1>9, Zenon
<1> QED
  BY <1>2, <1>10, <1>11, Zenon DEF RunsOut

(* There is a function of turns behind the loop.                           *)
LoopIs(source, escapes) ==
    \E f : Turns(source, escapes, f) /\ Loop(source, escapes) = f[2]

(* There is one for every string.                                          *)
LEMMA LoopOfString ==
  ASSUME NEW source, NEW s \in Seq(Byte), Quoted(source, s), NEW escapes
  PROVE  LoopIs(source, escapes)
<1>1. source \in Seq(Byte) /\ Len(source) = Len(s) + 2
  BY Zenon DEF Quoted
<1>2. Len(s) \in Nat
  BY LenProperties, Zenon
<1>3. Len(source) >= 1
  BY <1>1, <1>2
<1> QED
  BY <1>1, <1>3, LoopTurns, Zenon DEF LoopIs

(* However JSON lets a text be spelled, the string is read as the encoding *)
(* of the text, unless it has half a pair of surrogates.                   *)
LEMMA TextsAreFaithful ==
  ASSUME NEW text \in Seq(CodePoints)
  PROVE  Faithful(text)
<1>1. PICK n : n = Len(text) /\ n \in Nat /\ DOMAIN text = 1..n
  <2>1. Len(text) \in Nat /\ DOMAIN text = 1..Len(text)
    BY LenProperties
  <2> QED
    BY <2>1, Zenon
<1>2. PICK pre : Grows(pre, text) /\ InUtf8(text) = pre[n]
  BY <1>1, EncodingGrows, Zenon
<1>3. PICK up : Spell(up, text) /\ Spellings(text) = {printString(spelling) : spelling \in up[n]}
  BY <1>1, SpellingsGrow, Zenon
<1>4. PICK u : u = InUtf8(text) /\ u \in Seq(Byte)
  BY <1>1, <1>2, EncodingIsPlain, Zenon
<1>5. ASSUME NEW source \in Spellings(text)
      PROVE  parseString(source) = IF \E i \in DOMAIN text : is_surrogate(text[i])
                                   THEN Throws ELSE Read(InUtf8(text), Len(source) + 1)
  <2>1. PICK s \in up[n] : source = printString(s)
    BY <1>3
  <2>2. s \in Seq(Byte)
    BY <1>1, <1>2, <1>3, SpellingsAre, Zenon DEF SpelledBy
  <2>3. Quoted(source, s)
    BY <2>1, <2>2, PrintedIs, Zenon
  <2>4. source \in Seq(Byte) /\ Stands(s, source, 2)
    BY <2>3, Zenon DEF Quoted
  <2>5. PICK f : Turns(source, TRUE, f) /\ Loop(source, TRUE) = f[2]
    BY <2>2, <2>3, LoopOfString, Zenon DEF LoopIs
  <2>6. parseString(source) = f[2] /\ Reads(source, f)
    BY <2>5, Zenon DEF parseString, Reads
  <2>7. ReadSo(f, Refused(text, n), u, 2 + Len(s))
    BY <1>1, <1>2, <1>3, <1>4, <2>4, <2>6, SpellingIsRead, Zenon
  <2>8. f[2 + Len(s)] = Read(<< >>, Len(source) + 1)
    BY <2>2, <2>3, <2>5, EndOfString, Zenon DEF Ends
  <2>9. After(Read(u, 2), f[2 + Len(s)]) = Read(u, Len(source) + 1)
    <3>1. Len(source) \in Nat
      BY <2>4, LenProperties, Zenon
    <3>2. 2 \in Nat \ {0} /\ Len(source) + 1 \in Nat \ {0}
      BY <3>1
    <3>3. After(Read(u, 2), Read(<< >>, Len(source) + 1)) = Read(u, Len(source) + 1)
      BY <1>4, <3>2, AfterEnd
    <3> QED
      BY <2>8, <3>3, Zenon
  <2>10. Refused(text, n) <=> \E i \in DOMAIN text : is_surrogate(text[i])
    BY <1>1, Zenon DEF Refused
  <2>11. CASE Refused(text, n)
    BY <2>6, <2>7, <2>10, <2>11, Zenon DEF ReadSo
  <2>12. CASE ~Refused(text, n)
    BY <1>4, <2>6, <2>7, <2>9, <2>10, <2>12, Zenon DEF ReadSo
  <2> QED
    BY <2>11, <2>12, Zenon
<1> QED
  BY <1>5, Zenon DEF Faithful

(* The name of a property is read so if it is spelled without an escape,   *)
(* and only then.                                                          *)
LEMMA NamesAreFaithful ==
  ASSUME NEW text \in Seq(CodePoints)
  PROVE  NamedFaithfully(text)
<1>1. PICK n : n = Len(text)
  BY Zenon
<1>2. PICK pre : Grows(pre, text) /\ InUtf8(text) = pre[n]
  BY <1>1, EncodingGrows, Zenon
<1>3. PICK up : Spell(up, text) /\ Spellings(text) = {printString(spelling) : spelling \in up[n]}
  BY <1>1, SpellingsGrow, Zenon
<1>4. PICK u : u = InUtf8(text) /\ u \in Seq(Byte)
  BY <1>1, <1>2, EncodingIsPlain, Zenon
<1>5. ASSUME NEW source \in Spellings(text)
      PROVE  parseProperty(source) = Read(InUtf8(text), Len(source) + 1)
               <=> ReverseSolidus \notin ToSet(source)
  <2>1. PICK s \in up[n] : source = printString(s)
    BY <1>3
  <2>2. SpelledBy(s, u) /\ s \in Seq(Byte)
    BY <1>1, <1>2, <1>3, <1>4, SpellingsAre, Zenon DEF SpelledBy
  <2>3. Quoted(source, s)
    BY <2>1, <2>2, PrintedIs, Zenon
  <2>4. ReverseSolidus \in ToSet(source) <=> Escapes(s)
    BY <2>3, Zenon DEF Quoted
  <2>5. PICK f : Turns(source, FALSE, f) /\ Loop(source, FALSE) = f[2]
    BY <2>2, <2>3, LoopOfString, Zenon DEF LoopIs
  <2>6. parseProperty(source) = f[2]
    BY <2>5, Zenon DEF parseProperty
  <2>7. ASSUME ~Escapes(s) PROVE AllRead(source, f, u)
    <3>1. s = u /\ PlainText(s)
      BY <2>2, <2>7, Zenon DEF SpelledBy
    <3>2. AllRead(source, f, s)
      BY <2>2, <2>3, <2>5, <3>1, PlainIsRead, Zenon
    <3> QED
      BY <3>1, <3>2, Zenon
  <2>8. ASSUME AllRead(source, f, u) PROVE ~Escapes(s)
    <3>1. RunsOut(FALSE, u, s)
      BY <1>4, <2>2, <2>3, <2>5, <2>8, ReadRunsOut, Zenon
    <3>2. Len(u) = Len(s)
      BY <3>1, Zenon DEF RunsOut
    <3>3. ~(Len(s) > Len(u))
      <4>1. Len(s) \in Nat
        BY <2>2, LenProperties, Zenon
      <4> QED
        BY <3>2, <4>1
    <3>4. PlainText(s)
      BY <2>2, <3>3, Zenon DEF SpelledBy
    <3> QED
      BY <3>4, Zenon DEF PlainText, PlainBytes, Escapes
  <2>9. AllRead(source, f, u) <=> f[2] = Read(InUtf8(text), Len(source) + 1)
    BY <1>4, Zenon DEF AllRead
  <2> QED
    BY <2>4, <2>6, <2>7, <2>8, <2>9, Zenon
<1> QED
  BY <1>5, Zenon DEF NamedFaithfully

(* The printed string of a text is read as the text if that has no quote   *)
(* and no reverse solidus, and only then.                                  *)
LEMMA PrintedAreFaithful ==
  ASSUME NEW text \in Seq(CodePoints)
  PROVE  PrintedFaithfully(text)
<1>1. PICK n : n = Len(text) /\ n \in Nat /\ DOMAIN text = 1..n
  <2>1. Len(text) \in Nat /\ DOMAIN text = 1..Len(text)
    BY LenProperties
  <2> QED
    BY <2>1, Zenon
<1>2. PICK pre : Grows(pre, text) /\ InUtf8(text) = pre[n]
  BY <1>1, EncodingGrows, Zenon
<1>3. PICK u : /\ u = InUtf8(text) /\ u \in Seq(Byte)
               /\ PlainText(u) <=> \A i \in 1..n : text[i] # Quote /\ text[i] # ReverseSolidus
  BY <1>1, <1>2, EncodingIsPlain, Zenon
<1>4. PICK source : source = printString(u)
  BY Zenon
<1>5. Quoted(source, u)
  BY <1>3, <1>4, PrintedIs, Zenon
<1>6. PICK f : Turns(source, TRUE, f) /\ Loop(source, TRUE) = f[2]
  BY <1>3, <1>5, LoopOfString, Zenon DEF LoopIs
<1>7. AllRead(source, f, u) <=> PlainText(u)
  <2>1. ASSUME PlainText(u) PROVE AllRead(source, f, u)
    BY <1>3, <1>5, <1>6, <2>1, PlainIsRead, Zenon
  <2>2. ASSUME AllRead(source, f, u) PROVE PlainText(u)
    <3>1. RunsOut(TRUE, u, u)
      BY <1>3, <1>5, <1>6, <2>2, ReadRunsOut, Zenon
    <3> QED
      BY <3>1, Zenon DEF RunsOut, PlainText
  <2> QED
    BY <2>1, <2>2, Zenon
<1>8. parseString(source) = f[2]
  BY <1>6, Zenon DEF parseString
<1>9. AllRead(source, f, u) <=> parseString(source) = Read(u, Len(u) + 3)
  <2>1. Len(source) + 1 = Len(u) + 3
    <3>1. Len(u) \in Nat
      BY <1>3, LenProperties, Zenon
    <3>2. Len(source) = Len(u) + 2
      BY <1>5, Zenon DEF Quoted
    <3> QED
      BY <3>1, <3>2
  <2> QED
    BY <1>8, <2>1, Zenon DEF AllRead
<1>10. {Quote, ReverseSolidus} \intersect ToSet(text) = {}
         <=> \A i \in 1..n : text[i] # Quote /\ text[i] # ReverseSolidus
  <2>1. ToSet(text) = {text[i] : i \in 1..n}
    BY <1>1, Zenon DEF ToSet
  <2> QED
    BY <2>1
<1>11. parseString(printString(InUtf8(text))) = Read(InUtf8(text), Len(InUtf8(text)) + 3)
         <=> {Quote, ReverseSolidus} \intersect ToSet(text) = {}
  BY <1>3, <1>4, <1>7, <1>9, <1>10, Zenon
<1> QED
  BY <1>11, Zenon DEF PrintedFaithfully

(* Strings and names arrive and leave as the user must expect, whatever    *)
(* texts there are.                                                        *)
THEOREM StringsAreRead == Spec => []StringsArrive
<1>1. Misread = {}
  <2>1. ASSUME NEW text \in Texts
        PROVE  Faithful(text) /\ NamedFaithfully(text) /\ PrintedFaithfully(text)
    <3>1. text \in Seq(CodePoints)
      BY CliConstants
    <3> QED
      BY <3>1, TextsAreFaithful, NamesAreFaithful, PrintedAreFaithful
  <2> QED
    BY <2>1 DEF Misread
<1>2. StringsArrive
  BY <1>1 DEF StringsArrive
<1> QED
  BY <1>2, PTL

=============================================================================
