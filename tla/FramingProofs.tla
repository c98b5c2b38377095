--------------------------- MODULE FramingProofs ----------------------------
(***************************************************************************)
(* Proofs about Framing: a reader that has lost the frame never finds        *)
(* another, so what it decodes is what was written, in that order.           *)
(***************************************************************************)
EXTENDS Framing, TLAPS

-----------------------------------------------------------------------------
(***************************************************************************)
(* Lengths as digits.                                                       *)
(***************************************************************************)

(* What a digit and the rest of a number are. *)
LEMMA DivMod ==
    ASSUME NEW n \in Nat, NEW d, d = n \div Base, NEW r, r = n % Base
    PROVE  d \in Nat /\ r \in Nat /\ r < Base /\ d * Base + r = n
<1>1. Base \in Nat /\ Base > 0
  BY FramingAssumption
<1>2. d \in Nat /\ r \in 0 .. Base - 1
  BY <1>1
<1>3. QED
  BY <1>1, <1>2

(* Multiplying by the base keeps the order. *)
LEMMA Times ==
    ASSUME NEW a \in Nat, NEW b \in Nat
    PROVE  /\ a * Base \in Nat
           /\ a <= b => a * Base <= b * Base
           /\ a * Base < b * Base => a < b
<1>1. Base \in Nat /\ Base > 0
  BY FramingAssumption
<1>2. QED
  BY <1>1

(* Text in one of the first two bytes of a length exceeds the limit. *)
LEMMA Limit ==
    /\ TextByte * Base * Base \in Nat /\ TextByte * Base * Base > MaxLength
    /\ Base * Base * Base \in Nat /\ TextByte * Base * Base <= Base * Base * Base
    /\ TextByte * Base * Base * Base \in Nat /\ TextByte * Base * Base * Base > MaxLength
<1>1. Base \in Nat /\ Base > 0 /\ TextByte \in Nat /\ TextByte <= Base /\ MaxLength \in Nat
      /\ TextByte * Base * Base > MaxLength
  BY FramingAssumption
<1>2. TextByte * Base \in Nat /\ Base * Base \in Nat /\ TextByte * Base <= Base * Base
  BY <1>1, Times
<1>3. /\ TextByte * Base * Base \in Nat /\ Base * Base * Base \in Nat
      /\ TextByte * Base * Base <= Base * Base * Base
  BY <1>2, Times
<1>4. PICK t \in Nat : t = TextByte * Base * Base
  BY <1>3
<1>5. t * Base \in Nat /\ t <= t * Base
  BY <1>1
<1>6. QED
  BY <1>1, <1>3, <1>4, <1>5

(* The four digits of a length are those of the number; the first is 0, and  *)
(* a length of which the last bytes are missing is too small.                *)
LEMMA Digits ==
    ASSUME NEW n \in 0 .. MaxLength
    PROVE  /\ \A k \in 1 .. 4 : Digit(n, k) \in Nat
           /\ ((Digit(n, 1) * Base + Digit(n, 2)) * Base + Digit(n, 3)) * Base
                + Digit(n, 4) = n
           /\ Digit(n, 1) = 0 /\ Digit(n, 2) * Base * Base <= n
           /\ (Digit(n, 2) * Base + Digit(n, 3)) * Base <= n
<1>0. Base \in Nat /\ Base > 0 /\ TextByte \in Nat /\ TextByte < Base /\ MaxLength \in Nat
      /\ n \in Nat
  BY FramingAssumption
<1>1. PICK n1 : n1 = Shift(n)
  OBVIOUS
<1>2. PICK n2 : n2 = Shift(n1)
  OBVIOUS
<1>3. PICK n3 : n3 = Shift(n2)
  OBVIOUS
<1>4. PICK d4 : d4 = n % Base
  OBVIOUS
<1>5. PICK d3 : d3 = n1 % Base
  OBVIOUS
<1>6. PICK d2 : d2 = n2 % Base
  OBVIOUS
<1>7. n1 \in Nat /\ d4 \in Nat /\ d4 < Base /\ n1 * Base + d4 = n
  BY <1>0, <1>1, <1>4, DivMod DEF Shift
<1>8. n2 \in Nat /\ d3 \in Nat /\ d3 < Base /\ n2 * Base + d3 = n1
  BY <1>7, <1>2, <1>5, DivMod DEF Shift
<1>9. n3 \in Nat /\ d2 \in Nat /\ d2 < Base /\ n3 * Base + d2 = n2
  BY <1>8, <1>3, <1>6, DivMod DEF Shift
<1>10. n3 = 0
  <2> SUFFICES ASSUME 1 <= n3 PROVE FALSE
    BY <1>9
  <2>1. Base <= n3 * Base /\ n3 * Base \in Nat
    BY <1>0, <1>9
  <2>2. Base <= n2
    BY <1>0, <1>8, <1>9, <2>1
  <2>3. Base * Base \in Nat /\ Base * Base <= n2 * Base /\ n2 * Base \in Nat
    BY <1>0, <1>8, <2>2, Times
  <2>4. Base * Base <= n1
    BY <1>7, <1>8, <2>3
  <2>5. Base * Base * Base <= n1 * Base /\ n1 * Base \in Nat
    BY <1>7, <2>3, <2>4, Times
  <2>6. QED
    BY <1>0, <1>7, <2>5, Limit
<1>11. n3 % Base = 0
  BY <1>0, <1>10
<1>12. /\ Digit(n, 1) = 0 /\ Digit(n, 2) = d2 /\ Digit(n, 3) = d3 /\ Digit(n, 4) = d4
  BY <1>1, <1>2, <1>3, <1>4, <1>5, <1>6, <1>11 DEF Digit
<1>13. \A k \in 1 .. 4 : Digit(n, k) \in Nat
  BY <1>7, <1>8, <1>9, <1>12
<1>14. n2 = d2 /\ 0 * Base + d2 = d2
  BY <1>0, <1>9, <1>10
<1>15. ((0 * Base + d2) * Base + d3) * Base + d4 = n
  BY <1>7, <1>8, <1>14
<1>16. (d2 * Base + d3) * Base <= n
  <2>1. n1 * Base \in Nat /\ n1 * Base <= n
    BY <1>0, <1>7, Times
  <2>2. QED
    BY <1>8, <1>14, <2>1
<1>17. d2 * Base * Base <= n
  <2>1. d2 * Base \in Nat /\ d2 * Base <= n1
    BY <1>0, <1>8, <1>14, Times
  <2>2. d2 * Base * Base \in Nat /\ d2 * Base * Base <= n1 * Base /\ n1 * Base \in Nat
    BY <1>7, <2>1, Times
  <2>3. QED
    BY <1>0, <1>7, <2>2
<1>18. QED
  BY <1>12, <1>13, <1>15, <1>16, <1>17

(* A length that begins with a byte of text is out of range. *)
LEMMA TextIsTooLong ==
    ASSUME NEW x \in Nat, NEW y \in Nat, NEW z \in Nat
    PROVE  ((TextByte * Base + x) * Base + y) * Base + z > MaxLength
<1>0. Base \in Nat /\ TextByte \in Nat /\ MaxLength \in Nat
  BY FramingAssumption
<1>1. TextByte * Base \in Nat
  BY <1>0, Times
<1>2. PICK a : a = TextByte * Base + x
  OBVIOUS
<1>3. a \in Nat /\ TextByte * Base <= a
  BY <1>1, <1>2
<1>4. TextByte * Base * Base \in Nat /\ a * Base \in Nat /\ TextByte * Base * Base <= a * Base
  BY <1>1, <1>3, Times
<1>5. PICK b : b = a * Base + y
  OBVIOUS
<1>6. b \in Nat /\ TextByte * Base * Base <= b
  BY <1>4, <1>5
<1>7. /\ TextByte * Base * Base * Base \in Nat /\ b * Base \in Nat
      /\ TextByte * Base * Base * Base <= b * Base
  BY <1>4, <1>6, Times
<1>8. b * Base + z > MaxLength
  BY <1>0, <1>7, Limit
<1>9. QED
  BY <1>2, <1>5, <1>8

(* So is one whose second byte is text ... *)
LEMMA SecondIsTooLong ==
    ASSUME NEW d \in Nat, NEW y \in Nat, NEW z \in Nat
    PROVE  ((d * Base + TextByte) * Base + y) * Base + z > MaxLength
<1>0. Base \in Nat /\ TextByte \in Nat /\ MaxLength \in Nat
  BY FramingAssumption
<1>1. PICK a : a = d * Base + TextByte
  OBVIOUS
<1>2. a \in Nat /\ TextByte <= a
  BY <1>0, <1>1, Times
<1>3. TextByte * Base \in Nat /\ a * Base \in Nat /\ TextByte * Base <= a * Base
  BY <1>0, <1>2, Times
<1>4. PICK b : b = a * Base + y
  OBVIOUS
<1>5. b \in Nat /\ TextByte * Base <= b
  BY <1>3, <1>4
<1>6. b * Base \in Nat /\ TextByte * Base * Base <= b * Base
  BY <1>3, <1>5, Times
<1>7. b * Base + z > MaxLength
  BY <1>0, <1>6, Limit
<1>8. QED
  BY <1>1, <1>4, <1>7

(* ... and one of which only the first byte was read, unless it is 0. *)
LEMMA OneIsTooLong ==
    ASSUME NEW d \in Nat
    PROVE  LET l == ((d * Base + 0) * Base + 0) * Base + 0 IN l = 0 \/ l > MaxLength
<1>0. Base \in Nat /\ MaxLength \in Nat
  BY FramingAssumption
<1>1. CASE d = 0
  BY <1>0, <1>1
<1>2. CASE d >= 1
  <2>1. d * Base \in Nat /\ Base <= d * Base
    BY <1>0, <1>2
  <2>2. Base * Base \in Nat /\ d * Base * Base \in Nat /\ Base * Base <= d * Base * Base
    BY <1>0, <2>1, Times
  <2>3. d * Base * Base * Base \in Nat /\ Base * Base * Base <= d * Base * Base * Base
    BY <2>2, Times
  <2>4. ((d * Base + 0) * Base + 0) * Base + 0 = d * Base * Base * Base
    <3>1. d * Base + 0 = d * Base
      BY <2>1
    <3>2. d * Base * Base + 0 = d * Base * Base
      BY <2>2
    <3>3. d * Base * Base * Base + 0 = d * Base * Base * Base
      BY <2>3
    <3>4. QED
      BY <3>1, <3>2, <3>3
  <2>5. QED
    BY <1>0, <2>3, <2>4, Limit
<1>3. QED
  BY <1>1, <1>2

-----------------------------------------------------------------------------
(***************************************************************************)
(* The stream.  Of a byte, M is its message and I its place in it.          *)
(***************************************************************************)
Msgs == {m \in Writers \X Nat : m[2] \in 1 .. Len(Script[m[1]])}

SizeOf(m) == Script[m[1]][m[2]]

Bytes ==
    {b \in [v : Nat, of : Msgs \X Int] :
        /\ b.of[2] \in -3 .. SizeOf(b.of[1])
        /\ b.v = IF b.of[2] <= 0 THEN Digit(SizeOf(b.of[1]), b.of[2] + 4) ELSE TextByte}

M(s, p) == s[p].of[1]
I(s, p) == s[p].of[2]

(* Where the length or the body ends to which the byte belongs. *)
EndOf(s, p) == p - I(s, p) + IF I(s, p) <= 0 THEN 0 ELSE SizeOf(M(s, p))

(* Lengths and bodies are in the stream as a whole, but for the first. *)
Chunks(s) ==
    \A p \in 1 .. Len(s) :
        /\ EndOf(s, p) <= Len(s)
        /\ \A q \in p .. EndOf(s, p) : s[q].of = <<M(s, p), I(s, p) + q - p>>
        /\ EndOf(s, p) < Len(s) => I(s, EndOf(s, p) + 1) \in {-3, 1}

(* No byte is there twice. *)
Unique(s) == \A p, q \in 1 .. Len(s) : s[p].of = s[q].of => p = q

TypeInv ==
    /\ link \in Links
    /\ stream \in Seq(Bytes) /\ arrived \in 0 .. Len(stream)
    /\ next \in [Writers -> Nat \ {0}] /\ half \in [Writers -> BOOLEAN]
    /\ \A w \in Writers : half[w] => next[w] <= Len(Script[w])
    /\ rpc \in {"length", "body", "broken"} /\ want \in Nat
    /\ sent \in Seq(Msgs) /\ delivered \in Seq(Msgs)

(* What is in the stream has been written. *)
StreamInv ==
    /\ Chunks(stream) /\ Unique(stream)
    /\ \A p \in 1 .. Len(stream) :
         LET m == M(stream, p)
         IN  \/ m[2] < next[m[1]]
             \/ m[2] = next[m[1]] /\ half[m[1]] /\ I(stream, p) <= 0

(* Messages are sent once, and their bodies are in the stream in the order  *)
(* in which they were sent.                                                 *)
SentInv ==
    /\ \A k \in 1 .. Len(sent) : sent[k][2] < next[sent[k][1]]
    /\ \A k, l \in 1 .. Len(sent) : sent[k] = sent[l] => k = l
    /\ \A p, q \in 1 .. Len(stream) : \A k, l \in 1 .. Len(sent) :
         stream[p].of = <<sent[k], 1>> /\ stream[q].of = <<sent[l], 1>> /\ p < q => k < l

(* What is delivered was sent first; a body that begins in the stream was    *)
(* sent after it.                                                            *)
DeliveredInv ==
    /\ Len(delivered) <= Len(sent)
    /\ \A k \in 1 .. Len(delivered) : delivered[k] = sent[k]
    /\ \A p \in 1 .. Len(stream) : I(stream, p) = 1 =>
         \E k \in Len(delivered) + 1 .. Len(sent) : sent[k] = M(stream, p)

(* To a tolerant reader there is one writer, whose bodies follow their      *)
(* lengths.                                                                 *)
TolerantInv ==
    link.tolerant =>
        /\ \A p \in 1 .. Len(stream) - 1 :
             I(stream, p) = 0 => stream[p + 1].of = <<M(stream, p), 1>>
        /\ Len(stream) > 0 => \A w \in Writers :
             IF half[w] THEN stream[Len(stream)].of = <<<<w, next[w]>>, 0>>
             ELSE I(stream, Len(stream)) # 0

(***************************************************************************)
(* Where the reader is.                                                     *)
(***************************************************************************)

(* Nothing that was sent has been passed over. *)
Found ==
    \A k \in Len(delivered) + 1 .. Len(sent) :
        \E p \in 1 .. Len(stream) : stream[p].of = <<sent[k], 1>>

AtStart == Len(stream) > 0 => I(stream, 1) \in {-3, 1}

(* The length of m is in the stream, before position p. *)
Opened(s, m, p) == \E q \in 1 .. p - 1 : s[q].of = <<m, -3>>

(* About to read a length, where one begins. *)
AtFrame ==
    /\ rpc = "length" /\ Found /\ AtStart
    /\ \A p \in 1 .. Len(stream) : I(stream, p) = 1 => Opened(stream, M(stream, p), p)
    /\ \A w \in Writers : half[w] => Opened(stream, <<w, next[w]>>, Len(stream) + 1)

(* About to read the body of m, whose length was read; another writer's      *)
(* length may come first.                                                    *)
AtBody(m) ==
    /\ rpc = "body" /\ want = SizeOf(m) /\ Found /\ AtStart
    /\ \A p \in 1 .. Len(stream) :
         I(stream, p) = 1 => M(stream, p) = m \/ Opened(stream, M(stream, p), p)
    /\ \A w \in Writers :
         half[w] => <<w, next[w]>> = m \/ Opened(stream, <<w, next[w]>>, Len(stream) + 1)
    /\ link.tolerant =>
         IF stream = <<>> THEN \A w \in Writers : half[w] /\ m = <<w, next[w]>>
         ELSE stream[1].of = <<m, 1>>

(* About to read a body, amid a length; a tolerant reader will not get past *)
(* the body that follows.                                                   *)
LostBody ==
    /\ rpc = "body" /\ stream # <<>> /\ I(stream, 1) <= 0
    /\ link.tolerant => I(stream, 1) \in {-1, 0} /\ want <= SizeOf(M(stream, 1))

(* About to read a length, amid a body or at most a byte before it. *)
LostLength ==
    /\ rpc = "length" /\ link.tolerant
    /\ IF stream = <<>> THEN \A w \in Writers : half[w] ELSE I(stream, 1) >= 0

ReaderInv ==
    rpc = "broken" \/ AtFrame \/ (\E m \in Msgs : AtBody(m)) \/ LostBody \/ LostLength

Inv == TypeInv /\ StreamInv /\ SentInv /\ DeliveredInv /\ TolerantInv /\ ReaderInv

-----------------------------------------------------------------------------
(***************************************************************************)
(* Messages and bytes.                                                      *)
(***************************************************************************)

(* What is known of a message. *)
LEMMA MsgFacts ==
    ASSUME link \in Links, NEW m \in Msgs
    PROVE  /\ m[1] \in Writers /\ m[2] \in Nat /\ m = <<m[1], m[2]>>
           /\ SizeOf(m) \in Nat /\ SizeOf(m) \in 1 .. MaxLength
<1>1. m[1] \in Writers /\ m[2] \in Nat /\ m = <<m[1], m[2]>> /\ m[2] \in 1 .. Len(Script[m[1]])
  BY DEF Msgs
<1>2. Script[m[1]] \in Seq(1 .. MaxLength)
  BY <1>1, FramingAssumption DEF Script, Writers
<1>3. PICK s \in Seq(1 .. MaxLength) : s = Script[m[1]]
  BY <1>2
<1>4. PICK k \in 1 .. Len(s) : k = m[2]
  BY <1>1, <1>3
<1>5. s[k] \in 1 .. MaxLength /\ k \in DOMAIN s
  <2>1. Len(s) \in Nat /\ DOMAIN s = 1 .. Len(s)
    BY <1>3
  <2>2. k \in DOMAIN s
    BY <1>4, <2>1
  <2>3. ASSUME NEW S, s \in Seq(S) PROVE s[k] \in S
    BY <1>4, <2>3
  <2>4. QED
    BY <1>3, <2>2, <2>3
<1>6. s[k] \in Nat
  BY <1>5, FramingAssumption
<1>7. QED
  BY <1>1, <1>3, <1>4, <1>5, <1>6 DEF SizeOf

(* The message a writer is at. *)
LEMMA WriterAt ==
    ASSUME link \in Links, NEW w \in Writers, NEW k \in Nat \ {0}, k <= Len(Script[w])
    PROVE  <<w, k>> \in Msgs /\ SizeOf(<<w, k>>) = Script[w][k]
<1>1. Script[w] \in Seq(1 .. MaxLength)
  BY FramingAssumption DEF Script, Writers
<1>2. k \in 1 .. Len(Script[w])
  BY <1>1
<1>3. QED
  BY <1>2 DEF Msgs, SizeOf

(* What is known of a byte. *)
LEMMA ByteFacts ==
    ASSUME link \in Links, NEW b \in Bytes
    PROVE  /\ b.of[1] \in Msgs /\ b.of[2] \in Int /\ b.of[2] \in -3 .. SizeOf(b.of[1])
           /\ b.of = <<b.of[1], b.of[2]>>
           /\ b.v \in Nat
           /\ b.of[2] <= 0 => b.v = Digit(SizeOf(b.of[1]), b.of[2] + 4)
           /\ b.of[2] > 0 => b.v = TextByte
BY DEF Bytes

(* c is the length (from -3) or the body (from 1) of m. *)
Chunk(c, m, f) ==
    /\ (f = -3 /\ Len(c) = 4) \/ (f = 1 /\ Len(c) = SizeOf(m))
    /\ \A k \in 1 .. Len(c) : c[k].of = <<m, f + k - 1>>

(* A length is written as a whole ... *)
LEMMA PrefixIsChunk ==
    ASSUME link \in Links, NEW m \in Msgs, NEW c, c = Prefix(m, SizeOf(m))
    PROVE  c \in Seq(Bytes) /\ Chunk(c, m, -3)
<1>1. SizeOf(m) \in 1 .. MaxLength /\ SizeOf(m) \in 0 .. MaxLength /\ SizeOf(m) \in Nat
  BY MsgFacts, FramingAssumption
<1>2. \A k \in 1 .. 4 : Digit(SizeOf(m), k) \in Nat
  BY <1>1, Digits
<1>3. c = [k \in 1 .. 4 |-> [v |-> Digit(SizeOf(m), k), of |-> <<m, k - 4>>]]
  BY DEF Prefix, PrefixLength
<1>4. ASSUME NEW k \in 1 .. 4 PROVE c[k] \in Bytes /\ c[k].of = <<m, -3 + k - 1>>
  <2>1. c[k] = [v |-> Digit(SizeOf(m), k), of |-> <<m, k - 4>>]
    BY <1>3
  <2>2. c[k].v = Digit(SizeOf(m), k) /\ c[k].of = <<m, k - 4>>
        /\ c[k].of[1] = m /\ c[k].of[2] = k - 4
    BY <2>1
  <2>3. c[k] \in [v : Nat, of : Msgs \X Int]
    BY <1>2, <2>1
  <2>4. k - 4 \in -3 .. SizeOf(m) /\ k - 4 <= 0 /\ (k - 4) + 4 = k /\ k - 4 = -3 + k - 1
    BY <1>1
  <2>5. QED
    BY <2>2, <2>3, <2>4 DEF Bytes
<1>5. c \in Seq(Bytes) /\ Len(c) = 4
  BY <1>3, <1>4
<1>6. \A k \in 1 .. Len(c) : c[k].of = <<m, -3 + k - 1>>
  BY <1>4, <1>5
<1>7. QED
  BY <1>5, <1>6 DEF Chunk

(* ... and so is a body. *)
LEMMA BodyIsChunk ==
    ASSUME link \in Links, NEW m \in Msgs, NEW c, c = Body(m, SizeOf(m))
    PROVE  c \in Seq(Bytes) /\ Chunk(c, m, 1)
<1> DEFINE N == SizeOf(m)
<1>1. N \in Nat /\ TextByte \in Nat
  BY MsgFacts, FramingAssumption
<1>2. c = [k \in 1 .. N |-> [v |-> TextByte, of |-> <<m, k>>]]
  BY DEF Body
<1>3. ASSUME NEW k \in 1 .. N PROVE c[k] \in Bytes /\ c[k].of = <<m, 1 + k - 1>>
  <2>1. c[k] = [v |-> TextByte, of |-> <<m, k>>]
    BY <1>2
  <2>2. c[k].v = TextByte /\ c[k].of = <<m, k>> /\ c[k].of[1] = m /\ c[k].of[2] = k
    BY <2>1
  <2>3. c[k] \in [v : Nat, of : Msgs \X Int]
    BY <1>1, <2>1
  <2>4. k \in -3 .. N /\ ~(k <= 0) /\ k = 1 + k - 1
    BY <1>1
  <2>5. QED
    BY <2>2, <2>3, <2>4 DEF Bytes
<1>4. c \in Seq(Bytes) /\ Len(c) = N
  <2> HIDE DEF N
  <2>1. QED
    BY <1>1, <1>2, <1>3
<1>5. QED
  BY <1>3, <1>4 DEF Chunk

-----------------------------------------------------------------------------
(***************************************************************************)
(* The stream grows by a length or a body and is cut anywhere.              *)
(***************************************************************************)

(* Two sequences, one after the other. *)
LEMMA Joined ==
    ASSUME NEW S, NEW s \in Seq(S), NEW c \in Seq(S), NEW t, t = s \o c
    PROVE  /\ t \in Seq(S) /\ Len(t) = Len(s) + Len(c)
           /\ \A p \in 1 .. Len(s) : t[p] = s[p]
           /\ \A p \in Len(s) + 1 .. Len(t) : t[p] = c[p - Len(s)]
OBVIOUS

(* The rest of a sequence. *)
LEMMA Rest ==
    ASSUME NEW S, NEW s \in Seq(S), NEW c \in 0 .. Len(s),
           NEW t, t = SubSeq(s, c + 1, Len(s))
    PROVE  /\ t \in Seq(S) /\ Len(t) = Len(s) - c
           /\ \A p \in 1 .. Len(t) : t[p] = s[p + c]
OBVIOUS

(* Where what a byte belongs to ends. *)
LEMMA EndFacts ==
    ASSUME link \in Links, NEW s \in Seq(Bytes), NEW p \in 1 .. Len(s)
    PROVE  /\ s[p] \in Bytes
           /\ M(s, p) \in Msgs /\ I(s, p) \in Int /\ I(s, p) \in -3 .. SizeOf(M(s, p))
           /\ SizeOf(M(s, p)) \in Nat /\ SizeOf(M(s, p)) > 0
           /\ s[p].of = <<M(s, p), I(s, p)>>
           /\ EndOf(s, p) \in Int /\ EndOf(s, p) >= p
           /\ I(s, p) <= 0 => EndOf(s, p) = p - I(s, p)
           /\ I(s, p) > 0 => EndOf(s, p) = p - I(s, p) + SizeOf(M(s, p))
<1>1. s[p] \in Bytes
  OBVIOUS
<1>2. /\ M(s, p) \in Msgs /\ I(s, p) \in Int /\ I(s, p) \in -3 .. SizeOf(M(s, p))
      /\ s[p].of = <<M(s, p), I(s, p)>>
  BY <1>1, ByteFacts DEF M, I
<1>3. SizeOf(M(s, p)) \in Nat /\ SizeOf(M(s, p)) > 0
  BY <1>2, MsgFacts, FramingAssumption
<1>4. QED
  BY <1>1, <1>2, <1>3 DEF EndOf

(* The length or the body of m is not there yet. *)
Missing(s, m, f) == \A p \in 1 .. Len(s) : M(s, p) # m \/ (f = 1 /\ I(s, p) <= 0)

(* t is s with the length or the body of m appended. *)
Appended(s, c, m, f, t) ==
    /\ t \in Seq(Bytes) /\ Len(t) = Len(s) + Len(c) /\ Len(c) > 0
    /\ \A p \in 1 .. Len(s) : t[p] = s[p]
    /\ \A p \in Len(s) + 1 .. Len(t) : t[p].of = <<m, f + (p - Len(s)) - 1>>
    /\ Chunks(t) /\ Unique(t)

(* A length or a body that is not there yet is written as a whole. *)
LEMMA AppendChunk ==
    ASSUME link \in Links, NEW s \in Seq(Bytes), Chunks(s), Unique(s),
           NEW m \in Msgs, NEW f \in {-3, 1}, NEW c \in Seq(Bytes), Chunk(c, m, f),
           Missing(s, m, f), NEW t, t = s \o c
    PROVE  Appended(s, c, m, f, t)
<1>1. /\ t \in Seq(Bytes) /\ Len(t) = Len(s) + Len(c) /\ Len(s) \in Nat /\ Len(c) \in Nat
      /\ \A p \in 1 .. Len(s) : t[p] = s[p]
      /\ \A p \in Len(s) + 1 .. Len(t) : t[p] = c[p - Len(s)]
  BY Joined
<1>2. SizeOf(m) \in Nat /\ SizeOf(m) > 0
  BY MsgFacts, FramingAssumption
<1>3. /\ f \in Int /\ Len(c) > 0
      /\ (f = -3 /\ Len(c) = 4) \/ (f = 1 /\ Len(c) = SizeOf(m))
      /\ \A k \in 1 .. Len(c) : c[k].of = <<m, f + k - 1>>
  <2>1. /\ (f = -3 /\ Len(c) = 4) \/ (f = 1 /\ Len(c) = SizeOf(m))
        /\ \A k \in 1 .. Len(c) : c[k].of = <<m, f + k - 1>>
    BY DEF Chunk
  <2>2. Len(c) = 4 \/ Len(c) = SizeOf(m)
    BY <2>1
  <2>3. Len(c) > 0
    <3>1. CASE Len(c) = 4
      BY <3>1
    <3>2. CASE Len(c) = SizeOf(m)
      BY <1>2, <3>2, Zenon
    <3>3. QED
      BY <2>2, <3>1, <3>2, Zenon
  <2>4. QED
    BY <2>1, <2>3
<1>4. ASSUME NEW p \in Len(s) + 1 .. Len(t)
      PROVE  t[p].of = <<m, f + (p - Len(s)) - 1>>
  <2>1. p - Len(s) \in 1 .. Len(c)
    BY <1>1
  <2>2. QED
    BY <1>1, <1>3, <2>1
<1>5. Chunks(t)
  <2> SUFFICES ASSUME NEW p \in 1 .. Len(t)
               PROVE  /\ EndOf(t, p) <= Len(t)
                      /\ \A q \in p .. EndOf(t, p) : t[q].of = <<M(t, p), I(t, p) + q - p>>
                      /\ EndOf(t, p) < Len(t) => I(t, EndOf(t, p) + 1) \in {-3, 1}
    BY DEF Chunks
  <2>1. CASE p <= Len(s)
    <3>1. p \in 1 .. Len(s) /\ t[p] = s[p]
      BY <1>1, <2>1
    <3>2. M(t, p) = M(s, p) /\ I(t, p) = I(s, p) /\ EndOf(t, p) = EndOf(s, p)
      BY <3>1 DEF M, I, EndOf
    <3>3. /\ EndOf(s, p) <= Len(s)
          /\ \A q \in p .. EndOf(s, p) : s[q].of = <<M(s, p), I(s, p) + q - p>>
          /\ EndOf(s, p) < Len(s) => I(s, EndOf(s, p) + 1) \in {-3, 1}
      BY <3>1 DEF Chunks
    <3>4. EndOf(s, p) \in Int /\ EndOf(s, p) >= p
      BY <3>1, EndFacts
    <3>5. \A q \in p .. EndOf(s, p) : t[q] = s[q]
      BY <1>1, <3>1, <3>3, <3>4
    <3>6. ASSUME EndOf(s, p) < Len(t) PROVE I(t, EndOf(s, p) + 1) \in {-3, 1}
      <4>1. CASE EndOf(s, p) < Len(s)
        <5>1. EndOf(s, p) + 1 \in 1 .. Len(s)
          BY <1>1, <3>4, <4>1
        <5>2. QED
          BY <1>1, <3>3, <4>1, <5>1 DEF I
      <4>2. CASE EndOf(s, p) = Len(s)
        <5>1. t[Len(s) + 1].of = <<m, f + ((Len(s) + 1) - Len(s)) - 1>>
          BY <1>1, <1>3, <1>4
        <5>2. f + ((Len(s) + 1) - Len(s)) - 1 = f
          BY <1>1, <1>3
        <5>3. QED
          BY <4>2, <5>1, <5>2 DEF I
      <4>3. QED
        BY <1>1, <3>3, <3>4, <4>1, <4>2
    <3>7. EndOf(s, p) <= Len(t)
      BY <1>1, <3>3, <3>4
    <3>8. \A q \in p .. EndOf(s, p) : t[q].of = <<M(s, p), I(s, p) + q - p>>
      BY <3>3, <3>5
    <3>9. QED
      BY <3>2, <3>6, <3>7, <3>8
  <2>2. CASE p > Len(s)
    <3>1. p \in Len(s) + 1 .. Len(t)
      BY <1>1, <2>2
    <3>2. t[p].of = <<m, f + (p - Len(s)) - 1>>
      BY <1>4, <3>1
    <3>3. M(t, p) = m /\ I(t, p) = f + (p - Len(s)) - 1
      BY <3>2 DEF M, I
    <3>4. EndOf(t, p) = Len(t)
      <4>0. f + (p - Len(s)) - 1 \in Int
        BY <1>1, <1>3, <3>1
      <4>1. PICK i \in Int : i = I(t, p)
        BY <3>3, <4>0
      <4>2. EndOf(t, p) = p - i + IF i <= 0 THEN 0 ELSE SizeOf(m)
        BY <3>3, <4>1 DEF EndOf
      <4>3. i = f + (p - Len(s)) - 1 /\ p \in Int /\ p > Len(s) /\ p <= Len(s) + Len(c)
        BY <1>1, <3>1, <3>3, <4>1
      <4>4. CASE f = -3 /\ Len(c) = 4
        BY <1>1, <4>2, <4>3, <4>4
      <4>5. CASE f = 1 /\ Len(c) = SizeOf(m)
        BY <1>1, <1>2, <4>2, <4>3, <4>5
      <4>6. QED
        BY <1>3, <4>4, <4>5
    <3>5. ASSUME NEW q \in p .. Len(t)
          PROVE  t[q].of = <<M(t, p), I(t, p) + q - p>>
      <4>1. q \in Len(s) + 1 .. Len(t)
        BY <1>1, <3>1
      <4>2. f + (q - Len(s)) - 1 = I(t, p) + q - p
        BY <1>1, <1>3, <3>1, <3>3, <4>1
      <4>3. t[q].of = <<m, f + (q - Len(s)) - 1>>
        BY <1>4, <4>1
      <4>4. QED
        BY <3>3, <4>2, <4>3
    <3>6. QED
      BY <1>1, <3>4, <3>5
  <2>3. p <= Len(s) \/ p > Len(s)
    BY <1>1
  <2>4. QED
    BY <2>1, <2>2, <2>3
<1>6. Unique(t)
  <2> SUFFICES ASSUME NEW p \in 1 .. Len(t), NEW q \in 1 .. Len(t), t[p].of = t[q].of
               PROVE  p = q
    BY DEF Unique
  <2>1. ASSUME NEW a \in 1 .. Len(s), NEW b \in Len(s) + 1 .. Len(t) PROVE t[a].of # t[b].of
    <3>1. t[a] = s[a] /\ t[b].of = <<m, f + (b - Len(s)) - 1>>
      BY <1>1, <1>4
    <3>2. f = 1 => f + (b - Len(s)) - 1 > 0
      BY <1>1
    <3>3. s[a].of[1] # m \/ (f = 1 /\ s[a].of[2] <= 0)
      BY DEF Missing, M, I
    <3>4. f + (b - Len(s)) - 1 \in Int
      BY <1>1, <1>3
    <3>5. QED
      BY <3>1, <3>2, <3>3, <3>4
  <2>2. CASE p <= Len(s) /\ q <= Len(s)
    BY <1>1, <2>2 DEF Unique
  <2>3. CASE p > Len(s) /\ q > Len(s)
    <3>1. p \in Len(s) + 1 .. Len(t) /\ q \in Len(s) + 1 .. Len(t)
      BY <1>1, <2>3
    <3>2. t[p].of = <<m, f + (p - Len(s)) - 1>>
      BY <1>4, <3>1
    <3>3. t[q].of = <<m, f + (q - Len(s)) - 1>>
      BY <1>4, <3>1
    <3>4. PICK a : a = f + (p - Len(s)) - 1
      OBVIOUS
    <3>5. PICK b : b = f + (q - Len(s)) - 1
      OBVIOUS
    <3>6. <<m, a>> = <<m, b>>
      BY <3>2, <3>3, <3>4, <3>5
    <3>7. a = b
      BY <3>6
    <3>8. QED
      BY <1>1, <1>3, <3>1, <3>4, <3>5, <3>7
  <2>4. QED
    BY <1>1, <2>1, <2>2, <2>3
<1>7. QED
  BY <1>1, <1>3, <1>4, <1>5, <1>6 DEF Appended

(* The first bytes are taken away. *)
LEMMA Cut ==
    ASSUME link \in Links, NEW s \in Seq(Bytes), Chunks(s), Unique(s),
           NEW c \in 0 .. Len(s), NEW t, t = SubSeq(s, c + 1, Len(s))
    PROVE  Chunks(t) /\ Unique(t)
<1>1. /\ t \in Seq(Bytes) /\ Len(t) = Len(s) - c /\ Len(s) \in Nat /\ Len(t) \in Nat
      /\ \A p \in 1 .. Len(t) : t[p] = s[p + c]
  BY Rest
<1>2. Chunks(t)
  <2> SUFFICES ASSUME NEW p \in 1 .. Len(t)
               PROVE  /\ EndOf(t, p) <= Len(t)
                      /\ \A q \in p .. EndOf(t, p) : t[q].of = <<M(t, p), I(t, p) + q - p>>
                      /\ EndOf(t, p) < Len(t) => I(t, EndOf(t, p) + 1) \in {-3, 1}
    BY DEF Chunks
  <2>1. PICK r \in 1 .. Len(s) : r = p + c
    BY <1>1
  <2>2. t[p] = s[r] /\ M(t, p) = M(s, r) /\ I(t, p) = I(s, r)
    BY <1>1, <2>1 DEF M, I
  <2>3. /\ EndOf(s, r) \in Int /\ EndOf(s, r) >= r /\ I(s, r) \in Int
        /\ SizeOf(M(s, r)) \in Nat
    BY EndFacts
  <2>4. EndOf(t, p) = EndOf(s, r) - c
    <3>1. PICK e \in Int : e = IF I(s, r) <= 0 THEN 0 ELSE SizeOf(M(s, r))
      BY <2>3
    <3>2. EndOf(s, r) = r - I(s, r) + e
      BY <3>1 DEF EndOf
    <3>3. EndOf(t, p) = p - I(s, r) + e
      BY <2>2, <3>1 DEF EndOf
    <3>4. QED
      BY <1>1, <2>1, <2>3, <3>1, <3>2, <3>3
  <2>5. /\ EndOf(s, r) <= Len(s)
        /\ \A q \in r .. EndOf(s, r) : s[q].of = <<M(s, r), I(s, r) + q - r>>
        /\ EndOf(s, r) < Len(s) => I(s, EndOf(s, r) + 1) \in {-3, 1}
    BY DEF Chunks
  <2>6. ASSUME NEW q \in p .. EndOf(t, p)
        PROVE  t[q].of = <<M(t, p), I(t, p) + q - p>>
    <3>1. q + c \in r .. EndOf(s, r) /\ q \in 1 .. Len(t)
      BY <1>1, <2>1, <2>3, <2>4, <2>5
    <3>2. t[q] = s[q + c] /\ s[q + c].of = <<M(s, r), I(s, r) + (q + c) - r>>
      BY <1>1, <2>5, <3>1
    <3>3. I(s, r) + (q + c) - r = I(s, r) + q - p
      BY <1>1, <2>1, <2>3, <3>1
    <3>4. QED
      BY <2>2, <3>2, <3>3
  <2>7. ASSUME EndOf(t, p) < Len(t) PROVE I(t, EndOf(t, p) + 1) \in {-3, 1}
    <3>1. EndOf(t, p) + 1 \in 1 .. Len(t) /\ EndOf(s, r) < Len(s)
          /\ (EndOf(t, p) + 1) + c = EndOf(s, r) + 1
      BY <1>1, <2>1, <2>3, <2>4, <2>7
    <3>2. t[EndOf(t, p) + 1] = s[EndOf(s, r) + 1]
      BY <1>1, <3>1
    <3>3. QED
      BY <2>5, <3>1, <3>2 DEF I
  <2>8. EndOf(t, p) <= Len(t)
    BY <1>1, <2>3, <2>4, <2>5
  <2>9. QED
    BY <2>6, <2>7, <2>8
<1>3. Unique(t)
  <2> SUFFICES ASSUME NEW p \in 1 .. Len(t), NEW q \in 1 .. Len(t), t[p].of = t[q].of
               PROVE  p = q
    BY DEF Unique
  <2>1. p + c \in 1 .. Len(s) /\ q + c \in 1 .. Len(s) /\ s[p + c].of = s[q + c].of
    BY <1>1
  <2>2. p + c = q + c
    BY <2>1 DEF Unique
  <2>3. QED
    BY <1>1, <2>2
<1>4. QED
  BY <1>2, <1>3

(* The link stays. *)
LEMMA Same ==
    ASSUME link' = link
    PROVE  /\ Script' = Script /\ Writers' = Writers /\ Msgs' = Msgs /\ Bytes' = Bytes
           /\ Chunks(stream)' <=> Chunks(stream')
<1>1. Script' = Script /\ Writers' = Writers
  BY DEF Script, Writers
<1>2. Msgs' = Msgs
  BY <1>1 DEF Msgs
<1>3. Bytes' = Bytes
  BY <1>1, <1>2 DEF Bytes, SizeOf
<1>4. Chunks(stream)' <=> Chunks(stream')
  BY <1>1 DEF Chunks, EndOf, SizeOf, M, I
<1>5. QED
  BY <1>1, <1>2, <1>3, <1>4

(* The smaller of two numbers. *)
LEMMA MinOfTwo ==
    ASSUME NEW a \in Nat, NEW b \in Nat
    PROVE  Min({a, b}) \in Nat /\ Min({a, b}) <= a /\ Min({a, b}) <= b
<1>1. \E x \in {a, b} : \A y \in {a, b} : x <= y
  <2>1. CASE a <= b
    BY <2>1
  <2>2. CASE b <= a
    BY <2>2
  <2>3. QED
    BY <2>1, <2>2
<1>2. Min({a, b}) \in {a, b} /\ \A y \in {a, b} : Min({a, b}) <= y
  BY <1>1 DEF Min
<1>3. QED
  BY <1>2

(* What a call of Read returns and what it leaves: the first c bytes. *)
Took(c, got) ==
    /\ c \in Nat /\ c > 0 /\ c <= arrived /\ c <= Len(stream)
    /\ Len(got) = c /\ got \in Seq(Bytes) /\ \A p \in 1 .. c : got[p] = stream[p]
    /\ stream' = SubSeq(stream, c + 1, Len(stream))
    /\ arrived' = arrived - c

(* conn.Read returns at least one byte and at most what was asked for. *)
LEMMA ReadFacts ==
    ASSUME TypeInv, NEW n \in Nat, NEW got \in Readable, Read(n, got)
    PROVE  \E c \in 1 .. n : Took(c, got)
<1>1. /\ stream \in Seq(Bytes) /\ Len(stream) \in Nat /\ arrived \in Nat
      /\ arrived <= Len(stream)
  BY DEF TypeInv
<1>2. PICK k \in 1 .. arrived : got = SubSeq(stream, 1, k)
  BY DEF Readable
<1>3. k \in Nat /\ k > 0 /\ k <= Len(stream)
  BY <1>1, <1>2
<1>4. got \in Seq(Bytes) /\ Len(got) = k /\ \A p \in 1 .. k : got[p] = stream[p]
  BY <1>1, <1>2, <1>3
<1>5. PICK l : l = Min({n, arrived})
  OBVIOUS
<1>6. l \in Nat /\ l <= n /\ l <= arrived
  BY <1>1, <1>5, MinOfTwo
<1>7. Len(SubSeq(stream, 1, l)) = l
  BY <1>1, <1>6
<1>8. k = l
  BY <1>4, <1>5, <1>7 DEF Read
<1>9. k \in 1 .. n /\ k <= arrived
  BY <1>3, <1>6, <1>8
<1>10. stream' = SubSeq(stream, k + 1, Len(stream)) /\ arrived' = arrived - k
  BY <1>4 DEF Read
<1>11. Took(k, got)
  BY <1>3, <1>4, <1>9, <1>10 DEF Took
<1>12. QED
  BY <1>9, <1>11

(* What is left. *)
Left(c) ==
    /\ Len(stream') = Len(stream) - c /\ Len(stream') \in Nat
    /\ \A p \in 1 .. Len(stream') : p + c \in 1 .. Len(stream) /\ stream'[p] = stream[p + c]

(* What the first bytes have no part in is kept when they are read. *)
LEMMA CutKeeps ==
    ASSUME TypeInv, StreamInv, SentInv, TolerantInv, UNCHANGED <<link, next, half, sent>>,
           NEW c, NEW got, Took(c, got)
    PROVE  /\ stream' \in Seq(Bytes)' /\ arrived' \in 0 .. Len(stream')
           /\ Left(c)
           /\ StreamInv' /\ SentInv' /\ TolerantInv'
<1>1. /\ stream \in Seq(Bytes) /\ Len(stream) \in Nat /\ link \in Links
      /\ c \in Nat /\ c \in 0 .. Len(stream) /\ c > 0 /\ c <= arrived /\ arrived \in Nat
      /\ arrived <= Len(stream)
      /\ stream' = SubSeq(stream, c + 1, Len(stream)) /\ arrived' = arrived - c
  BY DEF TypeInv, Took
<1>2. /\ stream' \in Seq(Bytes) /\ Len(stream') = Len(stream) - c
      /\ \A p \in 1 .. Len(stream') : stream'[p] = stream[p + c]
  BY <1>1, Rest
<1>3. Left(c)
  <2>1. Len(stream') \in Nat
    BY <1>1, <1>2
  <2>2. \A p \in 1 .. Len(stream') : p + c \in 1 .. Len(stream)
    BY <1>1, <1>2
  <2>3. QED
    BY <1>2, <2>1, <2>2 DEF Left
<1>4. Chunks(stream') /\ Unique(stream')
  BY <1>1, Cut DEF StreamInv
<1>5. stream' \in Seq(Bytes)' /\ arrived' \in 0 .. Len(stream')
  BY <1>1, <1>2, Same
<1>6. StreamInv'
  <2>1. Chunks(stream)' /\ Unique(stream)'
    BY <1>4, Same DEF Unique
  <2>2. ASSUME NEW p \in 1 .. Len(stream')
        PROVE  LET m == stream'[p].of[1]
               IN  \/ m[2] < next[m[1]]
                   \/ m[2] = next[m[1]] /\ half[m[1]] /\ stream'[p].of[2] <= 0
    <3>1. p + c \in 1 .. Len(stream) /\ stream'[p] = stream[p + c]
      BY <1>3 DEF Left
    <3>2. QED
      BY <3>1 DEF StreamInv, M, I
  <2>3. QED
    BY <2>1, <2>2 DEF StreamInv, M, I
<1>7. SentInv'
  <2>1. ASSUME NEW p \in 1 .. Len(stream'), NEW q \in 1 .. Len(stream'),
               NEW k \in 1 .. Len(sent), NEW l \in 1 .. Len(sent),
               stream'[p].of = <<sent[k], 1>>, stream'[q].of = <<sent[l], 1>>, p < q
        PROVE  k < l
    <3>1. /\ p + c \in 1 .. Len(stream) /\ stream'[p] = stream[p + c]
          /\ q + c \in 1 .. Len(stream) /\ stream'[q] = stream[q + c]
      BY <1>3 DEF Left
    <3>2. p + c < q + c
      BY <1>1, <1>2, <2>1
    <3>3. QED
      BY <2>1, <3>1, <3>2 DEF SentInv
  <2>2. QED
    BY <2>1 DEF SentInv
<1>8. TolerantInv'
  <2> SUFFICES ASSUME link.tolerant
               PROVE  /\ \A p \in 1 .. Len(stream') - 1 : stream'[p].of[2] = 0 =>
                            stream'[p + 1].of = <<stream'[p].of[1], 1>>
                      /\ Len(stream') > 0 => \A w \in Writers :
                            IF half[w]
                            THEN stream'[Len(stream')].of = <<<<w, next[w]>>, 0>>
                            ELSE stream'[Len(stream')].of[2] # 0
    BY Same DEF TolerantInv, M, I
  <2>1. ASSUME NEW p \in 1 .. Len(stream') - 1, stream'[p].of[2] = 0
        PROVE  stream'[p + 1].of = <<stream'[p].of[1], 1>>
    <3>1. p \in 1 .. Len(stream') /\ p + 1 \in 1 .. Len(stream')
      BY <1>1, <1>2
    <3>2. /\ p + c \in 1 .. Len(stream) - 1 /\ (p + 1) + c = (p + c) + 1
      BY <1>1, <1>2
    <3>3. stream'[p] = stream[p + c] /\ stream'[p + 1] = stream[(p + c) + 1]
      BY <1>2, <3>1, <3>2
    <3>4. QED
      BY <2>1, <3>2, <3>3 DEF TolerantInv, M, I
  <2>2. ASSUME Len(stream') > 0
        PROVE  \A w \in Writers :
                   IF half[w] THEN stream'[Len(stream')].of = <<<<w, next[w]>>, 0>>
                   ELSE stream'[Len(stream')].of[2] # 0
    <3>1. Len(stream') \in 1 .. Len(stream') /\ Len(stream') + c = Len(stream) /\ Len(stream) > 0
      BY <1>1, <1>2, <2>2
    <3>2. stream'[Len(stream')] = stream[Len(stream)]
      BY <1>2, <3>1
    <3>3. QED
      BY <3>1, <3>2 DEF TolerantInv, I
  <2>3. QED
    BY <2>1, <2>2
<1>9. QED
  BY <1>3, <1>5, <1>6, <1>7, <1>8

-----------------------------------------------------------------------------
(***************************************************************************)
(* What the reader makes of the bytes.                                      *)
(***************************************************************************)

(* A length that was read is a number, too large if it begins with text, and *)
(* 0 or too large if text follows its first byte.                            *)
LEMMA LengthOfBytes ==
    ASSUME link \in Links, NEW got \in Seq(Bytes), Len(got) > 0
    PROVE  /\ Length(got) \in Nat
           /\ got[1].of[2] >= 1 => Length(got) > MaxLength
           /\ (Len(got) >= 2 => got[2].of[2] >= 1) =>
                Length(got) = 0 \/ Length(got) > MaxLength
<1>1. Len(got) \in Nat /\ Base \in Nat /\ TextByte \in Nat
  BY FramingAssumption
<1>2. \A p \in 1 .. Len(got) : got[p].v \in Nat
  BY ByteFacts
<1>3. PICK a1 : a1 = IF 1 <= Len(got) THEN got[1].v ELSE 0
  OBVIOUS
<1>4. PICK a2 : a2 = IF 2 <= Len(got) THEN got[2].v ELSE 0
  OBVIOUS
<1>5. PICK a3 : a3 = IF 3 <= Len(got) THEN got[3].v ELSE 0
  OBVIOUS
<1>6. PICK a4 : a4 = IF 4 <= Len(got) THEN got[4].v ELSE 0
  OBVIOUS
<1>7. a1 \in Nat /\ a2 \in Nat /\ a3 \in Nat /\ a4 \in Nat
  BY <1>1, <1>2, <1>3, <1>4, <1>5, <1>6
<1>8. Length(got) = ((a1 * Base + a2) * Base + a3) * Base + a4
  BY <1>3, <1>4, <1>5, <1>6 DEF Length
<1>9. Length(got) \in Nat
  <2>1. a1 * Base \in Nat
    BY <1>7, Times
  <2>2. a1 * Base + a2 \in Nat
    BY <1>7, <2>1
  <2>3. (a1 * Base + a2) * Base \in Nat
    BY <2>2, Times
  <2>4. (a1 * Base + a2) * Base + a3 \in Nat
    BY <1>7, <2>3
  <2>5. ((a1 * Base + a2) * Base + a3) * Base \in Nat
    BY <2>4, Times
  <2>6. QED
    BY <1>7, <1>8, <2>5
<1>10. ASSUME got[1].of[2] >= 1 PROVE Length(got) > MaxLength
  <2>1. got[1] \in Bytes
    BY <1>1
  <2>2. got[1].of[2] \in Int /\ (got[1].of[2] > 0 => got[1].v = TextByte)
    BY <2>1, ByteFacts
  <2>3. got[1].v = TextByte
    BY <1>10, <2>2
  <2>4. a1 = TextByte
    BY <1>1, <1>3, <2>3
  <2>5. QED
    BY <1>7, <1>8, <2>4, TextIsTooLong
<1>11. ASSUME Len(got) >= 2 => got[2].of[2] >= 1
       PROVE  Length(got) = 0 \/ Length(got) > MaxLength
  <2>1. CASE Len(got) >= 2
    <3>1. got[2] \in Bytes /\ got[2].of[2] >= 1
      BY <1>1, <1>11, <2>1
    <3>2. got[2].of[2] \in Int /\ (got[2].of[2] > 0 => got[2].v = TextByte)
      BY <3>1, ByteFacts
    <3>3. got[2].v = TextByte
      BY <3>1, <3>2
    <3>4. a2 = TextByte
      BY <1>1, <1>4, <2>1, <3>3
    <3>5. QED
      BY <1>7, <1>8, <3>4, SecondIsTooLong
  <2>2. CASE Len(got) = 1
    <3>1. a2 = 0 /\ a3 = 0 /\ a4 = 0
      BY <1>4, <1>5, <1>6, <2>2
    <3>2. Length(got) = ((a1 * Base + 0) * Base + 0) * Base + 0
      BY <1>8, <3>1
    <3>3. QED
      BY <1>7, <3>2, OneIsTooLong
  <2>3. Len(got) >= 2 \/ Len(got) = 1
    <3>1. PICK n \in Nat : n = Len(got)
      BY <1>1
    <3>2. n > 0
      BY <3>1
    <3>3. n >= 2 \/ n = 1
      BY <3>2
    <3>4. QED
      BY <3>1, <3>3
  <2>4. QED
    BY <2>1, <2>2, <2>3
<1>12. QED
  BY <1>9, <1>10, <1>11

(* The bytes of the length of m, all or the first of them. *)
LEMMA LengthOfPrefix ==
    ASSUME link \in Links, NEW m \in Msgs, NEW got \in Seq(Bytes), NEW c \in 1 .. 4,
           Len(got) = c, \A p \in 1 .. c : got[p].of = <<m, p - 4>>
    PROVE  /\ c = 4 => Length(got) = SizeOf(m)
           /\ c = 1 => Length(got) = 0
           /\ c \in {2, 3} => Length(got) <= SizeOf(m)
<1>0. Base \in Nat
  BY FramingAssumption
<1>1. SizeOf(m) \in 0 .. MaxLength /\ SizeOf(m) \in Nat
  BY MsgFacts, FramingAssumption
<1>2. PICK n \in 0 .. MaxLength : n = SizeOf(m)
  BY <1>1
<1>3. /\ \A k \in 1 .. 4 : Digit(n, k) \in Nat
      /\ ((Digit(n, 1) * Base + Digit(n, 2)) * Base + Digit(n, 3)) * Base + Digit(n, 4) = n
      /\ Digit(n, 1) = 0 /\ Digit(n, 2) * Base * Base <= n
      /\ (Digit(n, 2) * Base + Digit(n, 3)) * Base <= n
  BY Digits
<1>4. ASSUME NEW p \in 1 .. c PROVE got[p].v = Digit(n, p)
  <2>1. got[p] \in Bytes /\ got[p].of[1] = m /\ got[p].of[2] = p - 4
    BY <1>4
  <2>2. p - 4 <= 0 /\ (p - 4) + 4 = p
    OBVIOUS
  <2>3. got[p].v = Digit(SizeOf(m), (p - 4) + 4)
    BY <2>1, <2>2, ByteFacts
  <2>4. QED
    BY <1>2, <2>2, <2>3
<1>5. PICK d1 \in Nat : d1 = Digit(n, 1)
  BY <1>3
<1>6. PICK d2 \in Nat : d2 = Digit(n, 2)
  BY <1>3
<1>7. PICK d3 \in Nat : d3 = Digit(n, 3)
  BY <1>3
<1>8. PICK d4 \in Nat : d4 = Digit(n, 4)
  BY <1>3
<1>9. /\ ((d1 * Base + d2) * Base + d3) * Base + d4 = n
      /\ d1 = 0 /\ d2 * Base * Base <= n /\ (d2 * Base + d3) * Base <= n
      /\ d2 * Base \in Nat /\ d2 * Base * Base \in Nat
      /\ d2 * Base + d3 \in Nat /\ (d2 * Base + d3) * Base \in Nat
  <2>1. d2 * Base \in Nat
    BY Times
  <2>2. d2 * Base * Base \in Nat
    BY <2>1, Times
  <2>3. d2 * Base + d3 \in Nat
    BY <2>1
  <2>4. (d2 * Base + d3) * Base \in Nat
    BY <2>3, Times
  <2>5. QED
    BY <1>3, <1>5, <1>6, <1>7, <1>8, <2>1, <2>2, <2>3, <2>4
<1>10. CASE c = 4
  <2>1. got[1].v = d1 /\ got[2].v = d2 /\ got[3].v = d3 /\ got[4].v = d4
    BY <1>4, <1>5, <1>6, <1>7, <1>8, <1>10
  <2>2. Length(got) = ((d1 * Base + d2) * Base + d3) * Base + d4
    BY <1>10, <2>1 DEF Length
  <2>3. QED
    BY <1>2, <1>9, <1>10, <2>2
<1>11. CASE c = 3
  <2>1. got[1].v = d1 /\ got[2].v = d2 /\ got[3].v = d3
    BY <1>4, <1>5, <1>6, <1>7, <1>11
  <2>2. Length(got) = ((d1 * Base + d2) * Base + d3) * Base + 0
    BY <1>11, <2>1 DEF Length
  <2>3. ((0 * Base + d2) * Base + d3) * Base + 0 = (d2 * Base + d3) * Base
    BY <1>0, <1>9
  <2>4. QED
    BY <1>2, <1>9, <1>11, <2>2, <2>3
<1>12. CASE c = 2
  <2>1. got[1].v = d1 /\ got[2].v = d2
    BY <1>4, <1>5, <1>6, <1>12
  <2>2. Length(got) = ((d1 * Base + d2) * Base + 0) * Base + 0
    BY <1>12, <2>1 DEF Length
  <2>3. ((0 * Base + d2) * Base + 0) * Base + 0 = d2 * Base * Base
    <3>1. 0 * Base + d2 = d2
      BY <1>0
    <3>2. d2 * Base + 0 = d2 * Base /\ d2 * Base * Base + 0 = d2 * Base * Base
      BY <1>9
    <3>3. QED
      BY <3>1, <3>2
  <2>4. QED
    BY <1>2, <1>9, <1>12, <2>2, <2>3
<1>13. CASE c = 1
  <2>1. got[1].v = d1
    BY <1>4, <1>5, <1>13
  <2>2. Length(got) = ((0 * Base + 0) * Base + 0) * Base + 0
    BY <1>9, <1>13, <2>1 DEF Length
  <2>3. QED
    BY <1>0, <1>13, <2>2
<1>14. QED
  BY <1>10, <1>11, <1>12, <1>13

(* The whole body of m decodes. *)
LEMMA BodyDecodes ==
    ASSUME link \in Links, NEW m \in Msgs, NEW got \in Seq(Bytes), Len(got) = SizeOf(m),
           \A p \in 1 .. SizeOf(m) : got[p].of = <<m, p>>
    PROVE  Decodes(got, SizeOf(m))
<1>1. PICK n \in Nat : n = SizeOf(m)
  BY MsgFacts
<1>2. got = [p \in 1 .. n |-> got[p]]
  BY <1>1
<1>3. ASSUME NEW p \in 1 .. n PROVE got[p] = [v |-> TextByte, of |-> <<m, p>>]
  <2>1. got[p] \in Bytes /\ got[p].of = <<m, p>> /\ got[p].of[2] = p /\ p > 0
    BY <1>1, <1>3
  <2>2. got[p].v = TextByte
    BY <2>1, ByteFacts
  <2>3. got[p] \in [v : Nat, of : Msgs \X Int]
    BY <2>1 DEF Bytes
  <2>4. QED
    BY <2>1, <2>2, <2>3
<1>4. got = Body(m, n)
  BY <1>2, <1>3 DEF Body
<1>5. \E w \in Writers : \E k \in DOMAIN Script[w] : m = <<w, k>>
  <2>1. m[1] \in Writers /\ m = <<m[1], m[2]>> /\ m[2] \in 1 .. Len(Script[m[1]])
    BY DEF Msgs
  <2>2. Script[m[1]] \in Seq(1 .. MaxLength)
    BY <2>1, FramingAssumption DEF Script, Writers
  <2>3. m[2] \in DOMAIN Script[m[1]]
    BY <2>1, <2>2
  <2>4. QED
    BY <2>1, <2>3
<1>6. PICK w \in Writers : \E k \in DOMAIN Script[w] : m = <<w, k>>
  BY <1>5
<1>7. PICK k \in DOMAIN Script[w] : m = <<w, k>>
  BY <1>6
<1>8. SizeOf(m) = Script[w][k]
  BY <1>7 DEF SizeOf
<1>9. QED
  BY <1>1, <1>4, <1>7, <1>8 DEF Decodes

(* What decodes is the whole body of some message. *)
LEMMA DecodedIsBody ==
    ASSUME link \in Links, NEW got \in Seq(Bytes), NEW n, Decodes(got, n)
    PROVE  \E m \in Msgs : /\ Len(got) = n /\ n = SizeOf(m)
                           /\ \A p \in 1 .. n : got[p].of = <<m, p>>
<1>0. PICK w \in Writers : \E k \in DOMAIN Script[w] : got = Body(<<w, k>>, Script[w][k])
  BY DEF Decodes
<1>1. PICK k \in DOMAIN Script[w] : got = Body(<<w, k>>, Script[w][k])
  BY <1>0
<1>2. Script[w] \in Seq(1 .. MaxLength)
  BY <1>1, FramingAssumption DEF Script, Writers
<1>3. k \in Nat \ {0} /\ k <= Len(Script[w])
  BY <1>1, <1>2
<1>4. PICK m \in Msgs : m = <<w, k>> /\ SizeOf(m) = Script[w][k]
  BY <1>1, <1>3, WriterAt
<1>5. PICK l \in Nat : l = SizeOf(m)
  BY MsgFacts
<1>6. got = [p \in 1 .. l |-> [v |-> TextByte, of |-> <<m, p>>]]
  BY <1>1, <1>4, <1>5 DEF Body
<1>7. Len(got) = l
  BY <1>6
<1>8. n = l
  BY <1>7 DEF Decodes
<1>9. \A p \in 1 .. n : got[p].of = <<m, p>>
  BY <1>6, <1>8
<1>10. QED
  BY <1>5, <1>7, <1>8, <1>9

-----------------------------------------------------------------------------
(***************************************************************************)
(* A length is written.                                                     *)
(***************************************************************************)

(* The length of a message stays before a place in a stream that grows. *)
LEMMA OpenedGrows ==
    ASSUME NEW s, NEW t, NEW m, NEW p \in Nat, NEW r \in Nat, Len(s) \in Nat, p <= r,
           p <= Len(s) + 1, \A q \in 1 .. Len(s) : t[q] = s[q], Opened(s, m, p)
    PROVE  Opened(t, m, r)
<1>1. PICK q \in 1 .. p - 1 : s[q].of = <<m, -3>>
  BY DEF Opened
<1>2. q \in 1 .. Len(s) /\ q \in 1 .. r - 1
  BY <1>1
<1>3. t[q].of = <<m, -3>>
  BY <1>1, <1>2
<1>4. QED
  BY <1>2, <1>3 DEF Opened

(* The length of m is now the end of the stream. *)
GrewLength(m) ==
    /\ Len(stream) \in Nat /\ Len(stream') = Len(stream) + 4
    /\ \A p \in 1 .. Len(stream) : stream'[p] = stream[p]
    /\ \A p \in Len(stream) + 1 .. Len(stream') :
         stream'[p].of[1] = m /\ stream'[p].of[2] = p - Len(stream')
    /\ stream'[Len(stream) + 1].of = <<m, -3>> /\ stream'[Len(stream')].of = <<m, 0>>

(* writeMessage: the call of Write for the length. *)
LEMMA LengthGrows ==
    ASSUME Inv, NEW w \in Writers, WriteLength(w)
    PROVE  /\ <<w, next[w]>> \in Msgs /\ GrewLength(<<w, next[w]>>)
           /\ stream' \in Seq(Bytes) /\ Chunks(stream') /\ Unique(stream')
<1>0. TypeInv /\ StreamInv
  BY DEF Inv
<1>1. /\ link \in Links /\ stream \in Seq(Bytes) /\ next[w] \in Nat \ {0}
      /\ next[w] <= Len(Script[w]) /\ ~half[w] /\ Len(stream) \in Nat
  BY <1>0 DEF TypeInv, WriteLength
<1>2. PICK m \in Msgs : m = <<w, next[w]>> /\ SizeOf(m) = Script[w][next[w]]
  BY <1>1, WriterAt
<1>3. PICK c : c = Prefix(m, SizeOf(m))
  OBVIOUS
<1>4. c \in Seq(Bytes) /\ Chunk(c, m, -3)
  BY <1>1, <1>3, PrefixIsChunk
<1>5. stream' = stream \o c
  BY <1>2, <1>3 DEF WriteLength, Write
<1>6. ASSUME NEW p \in 1 .. Len(stream) PROVE M(stream, p) # m
  <2>1. \/ M(stream, p)[2] < next[M(stream, p)[1]]
        \/ half[M(stream, p)[1]]
    BY <1>0 DEF StreamInv
  <2>2. m[1] = w /\ m[2] = next[w] /\ ~(m[2] < next[m[1]]) /\ ~half[m[1]]
    BY <1>1, <1>2
  <2>3. QED
    BY <2>1, <2>2
<1>7. PICK f \in {-3, 1} : f = -3
  OBVIOUS
<1>8. /\ stream' \in Seq(Bytes) /\ Len(stream') = Len(stream) + Len(c)
      /\ \A p \in 1 .. Len(stream) : stream'[p] = stream[p]
      /\ \A p \in Len(stream) + 1 .. Len(stream') :
           stream'[p].of = <<m, f + (p - Len(stream)) - 1>>
      /\ Chunks(stream') /\ Unique(stream')
  <2>1. Chunk(c, m, f) /\ Chunks(stream) /\ Unique(stream)
    BY <1>0, <1>4, <1>7 DEF StreamInv
  <2>2. Missing(stream, m, f)
    BY <1>6 DEF Missing
  <2>3. Appended(stream, c, m, f, stream \o c)
    BY <1>1, <1>4, <2>1, <2>2, AppendChunk
  <2>4. QED
    BY <1>5, <2>3 DEF Appended
<1>9. Len(c) = 4
  BY <1>4 DEF Chunk
<1>10. Len(stream') = Len(stream) + 4
  BY <1>8, <1>9
<1>11. ASSUME NEW p \in Len(stream) + 1 .. Len(stream')
       PROVE  stream'[p].of = <<m, p - Len(stream')>>
  <2>1. stream'[p].of = <<m, -3 + (p - Len(stream)) - 1>>
    BY <1>7, <1>8, <1>11
  <2>2. -3 + (p - Len(stream)) - 1 = p - Len(stream')
    BY <1>1, <1>10
  <2>3. QED
    BY <2>1, <2>2
<1>12. stream'[Len(stream) + 1].of = <<m, -3>>
  <2>1. Len(stream) + 1 \in Len(stream) + 1 .. Len(stream') /\ (Len(stream) + 1) - Len(stream') = -3
    BY <1>1, <1>10
  <2>2. stream'[Len(stream) + 1].of = <<m, (Len(stream) + 1) - Len(stream')>>
    BY <1>11, <2>1
  <2>3. QED
    BY <2>1, <2>2
<1>13. stream'[Len(stream')].of = <<m, 0>>
  <2>1. Len(stream') \in Len(stream) + 1 .. Len(stream') /\ Len(stream') - Len(stream') = 0
    BY <1>1, <1>10
  <2>2. stream'[Len(stream')].of = <<m, Len(stream') - Len(stream')>>
    BY <1>11, <2>1
  <2>3. QED
    BY <2>1, <2>2
<1>14. ASSUME NEW p \in Len(stream) + 1 .. Len(stream')
       PROVE  stream'[p].of[1] = m /\ stream'[p].of[2] = p - Len(stream')
  BY <1>11, <1>14
<1>15. GrewLength(m)
  BY <1>1, <1>8, <1>10, <1>12, <1>13, <1>14 DEF GrewLength
<1>16. QED
  BY <1>2, <1>8, <1>15

(* A step that writes a length keeps the invariant. *)
LEMMA WriteLengthKeeps ==
    ASSUME Inv, NEW w \in Writers, WriteLength(w)
    PROVE  Inv'
<1>0. TypeInv /\ StreamInv /\ SentInv /\ DeliveredInv /\ TolerantInv /\ ReaderInv
  BY DEF Inv
<1>1. PICK m : m = <<w, next[w]>>
  OBVIOUS
<1>2. /\ m \in Msgs /\ GrewLength(m) /\ m[1] = w /\ m[2] = next[w]
      /\ stream' \in Seq(Bytes) /\ Chunks(stream') /\ Unique(stream')
  BY <1>1, LengthGrows
<1>3. /\ UNCHANGED <<link, arrived, next, rpc, want, sent, delivered>>
      /\ half' = [half EXCEPT ![w] = TRUE] /\ ~half[w] /\ next[w] <= Len(Script[w])
  BY DEF WriteLength
<1>4. /\ Script' = Script /\ Writers' = Writers /\ Msgs' = Msgs /\ Bytes' = Bytes
      /\ Chunks(stream)' <=> Chunks(stream')
  BY <1>3, Same
<1>5. /\ Len(stream) \in Nat /\ Len(stream') \in Nat /\ Len(stream') = Len(stream) + 4
      /\ \A p \in 1 .. Len(stream) : stream'[p] = stream[p]
      /\ \A p \in Len(stream) + 1 .. Len(stream') :
           stream'[p].of[1] = m /\ stream'[p].of[2] = p - Len(stream')
      /\ stream'[Len(stream) + 1].of = <<m, -3>> /\ stream'[Len(stream')].of = <<m, 0>>
  BY <1>2 DEF GrewLength
<1>6. ASSUME NEW p \in 1 .. Len(stream'), stream'[p].of[2] = 1
      PROVE  p \in 1 .. Len(stream) /\ stream'[p] = stream[p]
  <2>1. CASE p \in Len(stream) + 1 .. Len(stream')
    <3>1. p - Len(stream') = 1
      BY <1>5, <1>6, <2>1
    <3>2. QED
      BY <1>5, <2>1, <3>1
  <2>2. QED
    BY <1>5, <2>1
<1>7. \A x \in Writers : half'[x] = (half[x] \/ x = w)
  BY <1>0, <1>3 DEF TypeInv
<1>8. TypeInv'
  <2>1. half' \in [Writers -> BOOLEAN]
    BY <1>0, <1>3 DEF TypeInv
  <2>2. \A x \in Writers : half'[x] => next[x] <= Len(Script[x])
    BY <1>0, <1>3, <1>7 DEF TypeInv
  <2>3. arrived \in 0 .. Len(stream')
    BY <1>0, <1>5 DEF TypeInv
  <2>4. QED
    BY <1>0, <1>2, <1>3, <1>4, <2>1, <2>2, <2>3 DEF TypeInv
<1>9. StreamInv'
  <2>1. Chunks(stream)' /\ Unique(stream)'
    BY <1>2, <1>4 DEF Unique
  <2>2. ASSUME NEW p \in 1 .. Len(stream')
        PROVE  LET n == stream'[p].of[1]
               IN  \/ n[2] < next[n[1]]
                   \/ n[2] = next[n[1]] /\ half'[n[1]] /\ stream'[p].of[2] <= 0
    <3>1. CASE p \in 1 .. Len(stream)
      <4>1. stream'[p] = stream[p]
        BY <1>5, <3>1
      <4>2. stream[p].of[1] \in Msgs
        BY <1>0, <3>1, EndFacts DEF TypeInv, M
      <4>3. stream[p].of[1][1] \in Writers
        BY <4>2 DEF Msgs
      <4>4. QED
        BY <1>0, <1>7, <3>1, <4>1, <4>3 DEF StreamInv, M, I
    <3>2. CASE p \in Len(stream) + 1 .. Len(stream')
      <4>1. stream'[p].of[1] = m /\ stream'[p].of[2] = p - Len(stream')
        BY <1>5, <3>2
      <4>2. p - Len(stream') <= 0
        BY <1>5, <3>2
      <4>3. QED
        BY <1>2, <1>7, <4>1, <4>2
    <3>3. QED
      BY <1>5, <3>1, <3>2
  <2>3. QED
    BY <1>3, <2>1, <2>2 DEF StreamInv, M, I
<1>10. SentInv'
  <2>1. ASSUME NEW p \in 1 .. Len(stream'), NEW q \in 1 .. Len(stream'),
               NEW k \in 1 .. Len(sent), NEW l \in 1 .. Len(sent),
               stream'[p].of = <<sent[k], 1>>, stream'[q].of = <<sent[l], 1>>, p < q
        PROVE  k < l
    <3>1. stream'[p].of[2] = 1 /\ stream'[q].of[2] = 1
      BY <2>1
    <3>2. /\ p \in 1 .. Len(stream) /\ stream'[p] = stream[p]
          /\ q \in 1 .. Len(stream) /\ stream'[q] = stream[q]
      BY <1>6, <3>1
    <3>3. QED
      BY <1>0, <2>1, <3>2 DEF SentInv
  <2>2. QED
    BY <1>0, <1>3, <2>1 DEF SentInv
<1>11. DeliveredInv'
  <2>1. ASSUME NEW p \in 1 .. Len(stream'), stream'[p].of[2] = 1
        PROVE  \E k \in Len(delivered) + 1 .. Len(sent) : sent[k] = stream'[p].of[1]
    <3>1. p \in 1 .. Len(stream) /\ stream'[p] = stream[p]
      BY <1>6, <2>1
    <3>2. QED
      BY <1>0, <2>1, <3>1 DEF DeliveredInv, M, I
  <2>2. QED
    BY <1>0, <1>3, <2>1 DEF DeliveredInv, M, I
<1>12. TolerantInv'
  <2> SUFFICES ASSUME link.tolerant
               PROVE  /\ \A p \in 1 .. Len(stream') - 1 : stream'[p].of[2] = 0 =>
                            stream'[p + 1].of = <<stream'[p].of[1], 1>>
                      /\ \A x \in Writers :
                            IF half'[x]
                            THEN stream'[Len(stream')].of = <<<<x, next[x]>>, 0>>
                            ELSE stream'[Len(stream')].of[2] # 0
    BY <1>3, <1>4 DEF TolerantInv, M, I
  <2>1. \A x \in Writers : x = w
    BY <1>0, FramingAssumption DEF TypeInv, Writers, Script
  <2>2. ASSUME NEW p \in 1 .. Len(stream') - 1, stream'[p].of[2] = 0
        PROVE  stream'[p + 1].of = <<stream'[p].of[1], 1>>
    <3>1. CASE p \in 1 .. Len(stream) - 1
      <4>1. p \in 1 .. Len(stream) /\ p + 1 \in 1 .. Len(stream)
        BY <1>5, <3>1
      <4>2. stream'[p] = stream[p] /\ stream'[p + 1] = stream[p + 1]
        BY <1>5, <4>1
      <4>3. QED
        BY <1>0, <2>2, <3>1, <4>2 DEF TolerantInv, M, I
    <3>2. CASE p = Len(stream)
      <4>1. Len(stream) > 0 /\ stream'[p] = stream[p]
        BY <1>5, <3>2
      <4>2. stream[Len(stream)].of[2] # 0
        BY <1>0, <1>3, <4>1 DEF TolerantInv, I
      <4>3. QED
        BY <2>2, <3>2, <4>1, <4>2
    <3>3. CASE p \in Len(stream) + 1 .. Len(stream') - 1
      <4>1. p \in Len(stream) + 1 .. Len(stream')
        BY <1>5, <3>3
      <4>2. stream'[p].of[2] = p - Len(stream')
        BY <1>5, <4>1
      <4>3. p - Len(stream') # 0
        BY <1>5, <3>3
      <4>4. QED
        BY <2>2, <4>2, <4>3
    <3>4. QED
      BY <1>5, <3>1, <3>2, <3>3
  <2>3. ASSUME NEW x \in Writers
        PROVE  half'[x] /\ stream'[Len(stream')].of = <<<<x, next[x]>>, 0>>
    BY <1>1, <1>5, <1>7, <2>1
  <2>4. QED
    BY <2>2, <2>3
<1>13. ReaderInv'
  <2>1. Found => Found'
    <3> SUFFICES ASSUME Found, NEW k \in Len(delivered) + 1 .. Len(sent)
                 PROVE  \E p \in 1 .. Len(stream') : stream'[p].of = <<sent[k], 1>>
      BY <1>3 DEF Found
    <3>1. PICK p \in 1 .. Len(stream) : stream[p].of = <<sent[k], 1>>
      BY DEF Found
    <3>2. p \in 1 .. Len(stream') /\ stream'[p].of = <<sent[k], 1>>
      BY <1>5, <3>1
    <3>3. QED
      BY <3>2
  <2>2. stream # <<>> => Len(stream) > 0 /\ stream'[1] = stream[1]
    <3>1. stream # <<>> => Len(stream) > 0
      BY <1>0, <1>5 DEF TypeInv
    <3>2. QED
      BY <1>5, <3>1
  <2>3. stream' # <<>> /\ Len(stream') > 0
    BY <1>5
  <2>4. stream = <<>> => stream'[1].of[2] = -3
    BY <1>5
  <2>5. AtStart => AtStart'
    BY <2>2, <2>4 DEF AtStart, I
  <2>6. ASSUME NEW p \in 1 .. Len(stream), NEW n, Opened(stream, n, p)
        PROVE  Opened(stream', n, p)
    BY <1>5, <2>6, OpenedGrows
  <2>7. ASSUME NEW n, Opened(stream, n, Len(stream) + 1)
        PROVE  Opened(stream', n, Len(stream') + 1)
    <3>1. Len(stream) + 1 \in Nat /\ Len(stream') + 1 \in Nat /\ Len(stream) + 1 <= Len(stream') + 1
      BY <1>5
    <3>2. QED
      BY <1>5, <2>7, <3>1, OpenedGrows
  <2>8. Opened(stream', m, Len(stream') + 1)
    <3>1. Len(stream) + 1 \in 1 .. (Len(stream') + 1) - 1
      BY <1>5
    <3>2. QED
      BY <1>5, <3>1 DEF Opened
  <2>9. CASE rpc = "broken"
    BY <1>3, <2>9 DEF ReaderInv
  <2>10. CASE AtFrame
    <3>1. ASSUME NEW p \in 1 .. Len(stream'), stream'[p].of[2] = 1
          PROVE  Opened(stream', stream'[p].of[1], p)
      <4>1. p \in 1 .. Len(stream) /\ stream'[p] = stream[p]
        BY <1>6, <3>1
      <4>2. Opened(stream, stream[p].of[1], p)
        BY <2>10, <3>1, <4>1 DEF AtFrame, M, I
      <4>3. QED
        BY <2>6, <4>1, <4>2
    <3>2. ASSUME NEW x \in Writers, half'[x]
          PROVE  Opened(stream', <<x, next[x]>>, Len(stream') + 1)
      <4>1. CASE x = w
        BY <1>1, <2>8, <4>1
      <4>2. CASE half[x]
        BY <2>7, <2>10, <4>2 DEF AtFrame
      <4>3. QED
        BY <1>7, <3>2, <4>1, <4>2
    <3>3. AtFrame'
      BY <1>3, <1>4, <2>1, <2>5, <2>10, <3>1, <3>2 DEF AtFrame, M, I, Opened
    <3>4. QED
      BY <3>3 DEF ReaderInv
  <2>11. ASSUME NEW b \in Msgs, AtBody(b) PROVE ReaderInv'
    <3>1. ASSUME NEW p \in 1 .. Len(stream'), stream'[p].of[2] = 1
          PROVE  stream'[p].of[1] = b \/ Opened(stream', stream'[p].of[1], p)
      <4>1. p \in 1 .. Len(stream) /\ stream'[p] = stream[p]
        BY <1>6, <3>1
      <4>2. stream[p].of[1] = b \/ Opened(stream, stream[p].of[1], p)
        BY <2>11, <3>1, <4>1 DEF AtBody, M, I
      <4>3. QED
        BY <2>6, <4>1, <4>2
    <3>2. ASSUME NEW x \in Writers, half'[x]
          PROVE  <<x, next[x]>> = b \/ Opened(stream', <<x, next[x]>>, Len(stream') + 1)
      <4>1. CASE x = w
        BY <1>1, <2>8, <4>1
      <4>2. CASE half[x]
        BY <2>7, <2>11, <4>2 DEF AtBody
      <4>3. QED
        BY <1>7, <3>2, <4>1, <4>2
    <3>3. link.tolerant => stream'[1].of = <<b, 1>>
      <4>1. link.tolerant => stream # <<>> /\ stream[1].of = <<b, 1>>
        BY <1>3, <2>11 DEF AtBody
      <4>2. QED
        BY <2>2, <4>1
    <3>4. want = SizeOf(b) /\ rpc = "body" /\ Found /\ AtStart
      BY <2>11 DEF AtBody
    <3>5. want' = SizeOf(b)'
      BY <1>3, <1>4, <3>4 DEF SizeOf
    <3>6. AtBody(b)'
      BY <1>3, <1>4, <2>1, <2>3, <2>5, <3>1, <3>2, <3>3, <3>4, <3>5 DEF AtBody, M, I, Opened
    <3>7. QED
      BY <1>4, <3>6 DEF ReaderInv
  <2>12. CASE LostBody
    <3>1. stream # <<>> /\ stream'[1] = stream[1]
      BY <2>2, <2>12 DEF LostBody
    <3>2. LostBody'
      BY <1>3, <1>4, <2>3, <2>12, <3>1 DEF LostBody, M, I, SizeOf
    <3>3. QED
      BY <3>2 DEF ReaderInv
  <2>13. CASE LostLength
    <3>1. stream # <<>>
      BY <1>3, <2>13 DEF LostLength
    <3>2. LostLength'
      BY <1>3, <2>2, <2>3, <2>13, <3>1 DEF LostLength, I
    <3>3. QED
      BY <3>2 DEF ReaderInv
  <2>14. QED
    BY <1>0, <2>9, <2>10, <2>11, <2>12, <2>13 DEF ReaderInv
<1>14. QED
  BY <1>8, <1>9, <1>10, <1>11, <1>12, <1>13 DEF Inv

-----------------------------------------------------------------------------
(***************************************************************************)
(* A body is written.                                                       *)
(***************************************************************************)

(* The body of m is now the end of the stream. *)
GrewBody(m) ==
    /\ Len(stream) \in Nat /\ Len(stream') \in Nat /\ Len(stream') > Len(stream)
    /\ \A p \in 1 .. Len(stream) : stream'[p] = stream[p]
    /\ \A p \in Len(stream) + 1 .. Len(stream') :
         stream'[p].of[1] = m /\ stream'[p].of[2] = p - Len(stream)
    /\ stream'[Len(stream) + 1].of = <<m, 1>>

(* writeMessage: the call of Write for the body. *)
LEMMA BodyGrows ==
    ASSUME Inv, NEW w \in Writers, WriteBody(w)
    PROVE  /\ <<w, next[w]>> \in Msgs /\ GrewBody(<<w, next[w]>>)
           /\ stream' \in Seq(Bytes) /\ Chunks(stream') /\ Unique(stream')
<1>0. TypeInv /\ StreamInv
  BY DEF Inv
<1>1. /\ link \in Links /\ stream \in Seq(Bytes) /\ next[w] \in Nat \ {0}
      /\ half[w] /\ next[w] <= Len(Script[w]) /\ Len(stream) \in Nat
  BY <1>0 DEF TypeInv, WriteBody
<1>2. PICK m \in Msgs : m = <<w, next[w]>> /\ SizeOf(m) = Script[w][next[w]]
  BY <1>1, WriterAt
<1>3. PICK c : c = Body(m, SizeOf(m))
  OBVIOUS
<1>4. c \in Seq(Bytes) /\ Chunk(c, m, 1)
  BY <1>1, <1>3, BodyIsChunk
<1>5. stream' = stream \o c
  BY <1>2, <1>3 DEF WriteBody, Write
<1>6. ASSUME NEW p \in 1 .. Len(stream) PROVE M(stream, p) # m \/ I(stream, p) <= 0
  <2>1. \/ M(stream, p)[2] < next[M(stream, p)[1]]
        \/ I(stream, p) <= 0
    BY <1>0 DEF StreamInv
  <2>2. m[1] = w /\ m[2] = next[w] /\ ~(m[2] < next[m[1]])
    BY <1>1, <1>2
  <2>3. QED
    BY <2>1, <2>2
<1>7. PICK f \in {-3, 1} : f = 1
  OBVIOUS
<1>8. /\ stream' \in Seq(Bytes) /\ Len(stream') = Len(stream) + Len(c) /\ Len(c) > 0
      /\ \A p \in 1 .. Len(stream) : stream'[p] = stream[p]
      /\ \A p \in Len(stream) + 1 .. Len(stream') :
           stream'[p].of = <<m, f + (p - Len(stream)) - 1>>
      /\ Chunks(stream') /\ Unique(stream')
  <2>1. Chunk(c, m, f) /\ Chunks(stream) /\ Unique(stream)
    BY <1>0, <1>4, <1>7 DEF StreamInv
  <2>2. Missing(stream, m, f)
    BY <1>6, <1>7 DEF Missing
  <2>3. Appended(stream, c, m, f, stream \o c)
    BY <1>1, <1>4, <2>1, <2>2, AppendChunk
  <2>4. QED
    BY <1>5, <2>3 DEF Appended
<1>9. Len(stream') \in Nat /\ Len(stream') > Len(stream)
  BY <1>1, <1>4, <1>8
<1>10. ASSUME NEW p \in Len(stream) + 1 .. Len(stream')
       PROVE  stream'[p].of = <<m, p - Len(stream)>>
  <2>1. stream'[p].of = <<m, 1 + (p - Len(stream)) - 1>>
    BY <1>7, <1>8, <1>10
  <2>2. 1 + (p - Len(stream)) - 1 = p - Len(stream)
    BY <1>1, <1>9
  <2>3. QED
    BY <2>1, <2>2
<1>11. stream'[Len(stream) + 1].of = <<m, 1>>
  <2>1. Len(stream) + 1 \in Len(stream) + 1 .. Len(stream') /\ (Len(stream) + 1) - Len(stream) = 1
    BY <1>1, <1>9
  <2>2. stream'[Len(stream) + 1].of = <<m, (Len(stream) + 1) - Len(stream)>>
    BY <1>10, <2>1
  <2>3. QED
    BY <2>1, <2>2
<1>12. ASSUME NEW p \in Len(stream) + 1 .. Len(stream')
       PROVE  stream'[p].of[1] = m /\ stream'[p].of[2] = p - Len(stream)
  BY <1>10, <1>12
<1>13. GrewBody(m)
  BY <1>1, <1>8, <1>9, <1>11, <1>12 DEF GrewBody
<1>14. QED
  BY <1>2, <1>8, <1>13

(* A step that writes a body keeps the invariant. *)
LEMMA WriteBodyKeeps ==
    ASSUME Inv, NEW w \in Writers, WriteBody(w)
    PROVE  Inv'
<1>0. TypeInv /\ StreamInv /\ SentInv /\ DeliveredInv /\ TolerantInv /\ ReaderInv
  BY DEF Inv
<1>1. PICK m : m = <<w, next[w]>>
  OBVIOUS
<1>2. /\ m \in Msgs /\ GrewBody(m) /\ m[1] = w /\ m[2] = next[w]
      /\ stream' \in Seq(Bytes) /\ Chunks(stream') /\ Unique(stream')
  BY <1>1, BodyGrows
<1>3. /\ UNCHANGED <<link, arrived, rpc, want, delivered>>
      /\ half' = [half EXCEPT ![w] = FALSE] /\ next' = [next EXCEPT ![w] = @ + 1]
      /\ half[w] /\ sent' = Append(sent, m)
  BY <1>1 DEF WriteBody
<1>4. /\ Script' = Script /\ Writers' = Writers /\ Msgs' = Msgs /\ Bytes' = Bytes
      /\ Chunks(stream)' <=> Chunks(stream')
  BY <1>3, Same
<1>5. /\ Len(stream) \in Nat /\ Len(stream') \in Nat /\ Len(stream') > Len(stream)
      /\ \A p \in 1 .. Len(stream) : stream'[p] = stream[p]
      /\ \A p \in Len(stream) + 1 .. Len(stream') :
           stream'[p].of[1] = m /\ stream'[p].of[2] = p - Len(stream)
      /\ stream'[Len(stream) + 1].of = <<m, 1>>
  BY <1>2 DEF GrewBody
<1>6. ASSUME NEW p \in 1 .. Len(stream'), stream'[p].of[2] = 1
      PROVE  \/ p \in 1 .. Len(stream) /\ stream'[p] = stream[p]
             \/ p = Len(stream) + 1 /\ stream'[p].of[1] = m
  <2>1. CASE p \in Len(stream) + 1 .. Len(stream')
    <3>1. p - Len(stream) = 1 /\ stream'[p].of[1] = m
      BY <1>5, <1>6, <2>1
    <3>2. QED
      BY <1>5, <2>1, <3>1
  <2>2. CASE p \in 1 .. Len(stream)
    BY <1>5, <2>2
  <2>3. QED
    BY <1>5, <2>1, <2>2
<1>7. /\ \A x \in Writers : half'[x] = (half[x] /\ x # w)
      /\ \A x \in Writers : next[x] \in Nat /\ next'[x] = IF x = w THEN next[x] + 1 ELSE next[x]
  BY <1>0, <1>3 DEF TypeInv
<1>8. /\ sent \in Seq(Msgs) /\ Len(sent) \in Nat /\ sent' \in Seq(Msgs)
      /\ Len(sent') = Len(sent) + 1 /\ sent'[Len(sent) + 1] = m
      /\ \A k \in 1 .. Len(sent) : sent'[k] = sent[k]
  BY <1>0, <1>2, <1>3 DEF TypeInv
<1>9. TypeInv'
  <2>1. half' \in [Writers -> BOOLEAN] /\ next' \in [Writers -> Nat \ {0}]
    BY <1>0, <1>3 DEF TypeInv
  <2>2. \A x \in Writers : half'[x] => next'[x] <= Len(Script[x])
    BY <1>0, <1>7 DEF TypeInv
  <2>3. arrived \in 0 .. Len(stream')
    BY <1>0, <1>5 DEF TypeInv
  <2>4. QED
    BY <1>0, <1>2, <1>3, <1>4, <1>8, <2>1, <2>2, <2>3 DEF TypeInv
<1>10. \A k \in 1 .. Len(sent) : sent[k] \in Msgs /\ sent[k] # m
  <2> SUFFICES ASSUME NEW k \in 1 .. Len(sent) PROVE sent[k] \in Msgs /\ sent[k] # m
    OBVIOUS
  <2>1. sent[k] \in Msgs
    BY <1>8
  <2>2. sent[k][2] < next[sent[k][1]]
    BY <1>0 DEF SentInv
  <2>3. ~(m[2] < next[m[1]])
    BY <1>2, <1>7
  <2>4. QED
    BY <2>1, <2>2, <2>3
<1>11. StreamInv'
  <2>1. Chunks(stream)' /\ Unique(stream)'
    BY <1>2, <1>4 DEF Unique
  <2>2. ASSUME NEW p \in 1 .. Len(stream')
        PROVE  LET n == stream'[p].of[1]
               IN  \/ n[2] < next'[n[1]]
                   \/ n[2] = next'[n[1]] /\ half'[n[1]] /\ stream'[p].of[2] <= 0
    <3>1. CASE p \in 1 .. Len(stream)
      <4>1. stream'[p] = stream[p]
        BY <1>5, <3>1
      <4>2. PICK n \in Msgs : n = stream[p].of[1]
        BY <1>0, <3>1, EndFacts DEF TypeInv, M
      <4>3. n[1] \in Writers /\ n[2] \in Nat
        BY <4>2 DEF Msgs
      <4>4. \/ n[2] < next[n[1]]
            \/ n[2] = next[n[1]] /\ half[n[1]] /\ stream[p].of[2] <= 0
        BY <1>0, <3>1, <4>2 DEF StreamInv, M, I
      <4>5. next[n[1]] \in Nat /\ next'[n[1]] = IF n[1] = w THEN next[n[1]] + 1 ELSE next[n[1]]
        BY <1>7, <4>3
      <4>6. \/ n[2] < next'[n[1]]
            \/ n[2] = next'[n[1]] /\ half[n[1]] /\ n[1] # w /\ stream[p].of[2] <= 0
        BY <4>3, <4>4, <4>5
      <4>7. QED
        BY <1>7, <4>1, <4>2, <4>3, <4>6
    <3>2. CASE p \in Len(stream) + 1 .. Len(stream')
      <4>1. stream'[p].of[1] = m
        BY <1>5, <3>2
      <4>2. m[2] < next'[m[1]]
        BY <1>2, <1>7
      <4>3. QED
        BY <4>1, <4>2
    <3>3. QED
      BY <1>5, <3>1, <3>2
  <2>3. QED
    BY <2>1, <2>2 DEF StreamInv, M, I
<1>12. SentInv'
  <2>1. ASSUME NEW k \in 1 .. Len(sent') PROVE sent'[k][2] < next'[sent'[k][1]]
    <3>1. CASE k \in 1 .. Len(sent)
      <4>1. sent'[k] = sent[k] /\ sent[k] \in Msgs /\ sent[k][2] < next[sent[k][1]]
        BY <1>0, <1>8, <1>10, <3>1 DEF SentInv
      <4>2. PICK n \in Msgs : n = sent[k]
        BY <4>1
      <4>3. n[1] \in Writers /\ n[2] \in Nat
        BY <4>2 DEF Msgs
      <4>4. next[n[1]] \in Nat /\ next'[n[1]] = IF n[1] = w THEN next[n[1]] + 1 ELSE next[n[1]]
        BY <1>7, <4>3
      <4>5. n[2] < next'[n[1]]
        BY <4>1, <4>2, <4>3, <4>4
      <4>6. QED
        BY <4>1, <4>2, <4>5
    <3>2. CASE k = Len(sent) + 1
      <4>1. m[2] < next'[m[1]]
        BY <1>2, <1>7
      <4>2. QED
        BY <1>8, <3>2, <4>1
    <3>3. QED
      BY <1>8, <3>1, <3>2
  <2>2. ASSUME NEW k \in 1 .. Len(sent'), NEW l \in 1 .. Len(sent'), sent'[k] = sent'[l]
        PROVE  k = l
    <3>1. CASE k \in 1 .. Len(sent) /\ l \in 1 .. Len(sent)
      BY <1>0, <1>8, <2>2, <3>1 DEF SentInv
    <3>2. CASE k = Len(sent) + 1 /\ l \in 1 .. Len(sent)
      BY <1>8, <1>10, <2>2, <3>2
    <3>3. CASE l = Len(sent) + 1 /\ k \in 1 .. Len(sent)
      BY <1>8, <1>10, <2>2, <3>3
    <3>4. QED
      BY <1>8, <3>1, <3>2, <3>3
  <2>3. ASSUME NEW p \in 1 .. Len(stream'), NEW q \in 1 .. Len(stream'),
               NEW k \in 1 .. Len(sent'), NEW l \in 1 .. Len(sent'),
               stream'[p].of = <<sent'[k], 1>>, stream'[q].of = <<sent'[l], 1>>, p < q
        PROVE  k < l
    <3>1. /\ stream'[p].of[2] = 1 /\ stream'[p].of[1] = sent'[k]
          /\ stream'[q].of[2] = 1 /\ stream'[q].of[1] = sent'[l]
      BY <2>3
    <3>2. p \in 1 .. Len(stream) /\ stream'[p] = stream[p]
      BY <1>5, <1>6, <2>3, <3>1
    <3>3. k \in 1 .. Len(sent)
      <4>1. SUFFICES ASSUME k = Len(sent) + 1 PROVE FALSE
        BY <1>8
      <4>2. stream[p].of[1] = m /\ stream[p].of[2] = 1
        BY <1>8, <3>1, <3>2, <4>1
      <4>3. m[2] < next[m[1]] \/ 1 <= 0
        BY <1>0, <3>2, <4>2 DEF StreamInv, M, I
      <4>4. QED
        BY <1>2, <1>7, <4>3
    <3>4. CASE l = Len(sent) + 1
      BY <1>8, <3>3, <3>4
    <3>5. CASE l \in 1 .. Len(sent)
      <4>1. sent'[l] # m
        BY <1>8, <1>10, <3>5
      <4>2. q \in 1 .. Len(stream) /\ stream'[q] = stream[q]
        BY <1>6, <3>1, <4>1
      <4>3. stream[p].of = <<sent[k], 1>> /\ stream[q].of = <<sent[l], 1>>
        BY <1>8, <2>3, <3>2, <3>3, <3>5, <4>2
      <4>4. QED
        BY <1>0, <2>3, <3>2, <3>3, <3>5, <4>2, <4>3 DEF SentInv
    <3>6. QED
      BY <1>8, <3>4, <3>5
  <2>4. QED
    BY <2>1, <2>2, <2>3 DEF SentInv
<1>13. DeliveredInv'
  <2>1. /\ Len(delivered) \in Nat /\ Len(delivered) <= Len(sent)
        /\ \A k \in 1 .. Len(delivered) : delivered[k] = sent[k]
    BY <1>0 DEF DeliveredInv, TypeInv
  <2>2. Len(delivered) <= Len(sent') /\ \A k \in 1 .. Len(delivered) : delivered[k] = sent'[k]
    BY <1>8, <2>1
  <2>3. ASSUME NEW p \in 1 .. Len(stream'), stream'[p].of[2] = 1
        PROVE  \E k \in Len(delivered) + 1 .. Len(sent') : sent'[k] = stream'[p].of[1]
    <3>1. CASE p \in 1 .. Len(stream) /\ stream'[p] = stream[p]
      <4>1. PICK k \in Len(delivered) + 1 .. Len(sent) : sent[k] = stream[p].of[1]
        BY <1>0, <2>3, <3>1 DEF DeliveredInv, M, I
      <4>2. k \in 1 .. Len(sent) /\ k \in Len(delivered) + 1 .. Len(sent')
        BY <1>8, <2>1, <4>1
      <4>3. QED
        BY <1>8, <3>1, <4>1, <4>2
    <3>2. CASE stream'[p].of[1] = m
      <4>1. Len(sent) + 1 \in Len(delivered) + 1 .. Len(sent')
        BY <1>8, <2>1
      <4>2. QED
        BY <1>8, <3>2, <4>1
    <3>3. QED
      BY <1>6, <2>3, <3>1, <3>2
  <2>4. QED
    BY <1>3, <2>2, <2>3 DEF DeliveredInv, M, I
<1>14. TolerantInv'
  <2> SUFFICES ASSUME link.tolerant
               PROVE  /\ \A p \in 1 .. Len(stream') - 1 : stream'[p].of[2] = 0 =>
                            stream'[p + 1].of = <<stream'[p].of[1], 1>>
                      /\ \A x \in Writers :
                            ~half'[x] /\ stream'[Len(stream')].of[2] # 0
    BY <1>3, <1>4 DEF TolerantInv, M, I
  <2>1. \A x \in Writers : x = w
    BY <1>0, FramingAssumption DEF TypeInv, Writers, Script
  <2>2. ASSUME NEW p \in 1 .. Len(stream') - 1, stream'[p].of[2] = 0
        PROVE  stream'[p + 1].of = <<stream'[p].of[1], 1>>
    <3>1. CASE p \in 1 .. Len(stream) - 1
      <4>1. p \in 1 .. Len(stream) /\ p + 1 \in 1 .. Len(stream)
        BY <1>5, <3>1
      <4>2. stream'[p] = stream[p] /\ stream'[p + 1] = stream[p + 1]
        BY <1>5, <4>1
      <4>3. QED
        BY <1>0, <2>2, <3>1, <4>2 DEF TolerantInv, M, I
    <3>2. CASE p = Len(stream)
      <4>1. Len(stream) > 0 /\ stream'[p] = stream[p]
        BY <1>5, <3>2
      <4>2. stream[Len(stream)].of = <<m, 0>>
        BY <1>0, <1>1, <1>3, <4>1 DEF TolerantInv
      <4>3. QED
        BY <1>5, <3>2, <4>1, <4>2
    <3>3. CASE p \in Len(stream) + 1 .. Len(stream') - 1
      <4>1. p \in Len(stream) + 1 .. Len(stream')
        BY <1>5, <3>3
      <4>2. stream'[p].of[2] = p - Len(stream)
        BY <1>5, <4>1
      <4>3. p - Len(stream) # 0
        BY <1>5, <3>3
      <4>4. QED
        BY <2>2, <4>2, <4>3
    <3>4. QED
      BY <1>5, <3>1, <3>2, <3>3
  <2>3. stream'[Len(stream')].of[2] # 0
    <3>1. Len(stream') \in Len(stream) + 1 .. Len(stream') /\ Len(stream') - Len(stream) # 0
      BY <1>5
    <3>2. QED
      BY <1>5, <3>1
  <2>4. QED
    BY <1>7, <2>1, <2>2, <2>3
<1>15. ReaderInv'
  <2>1. Found => Found'
    <3> SUFFICES ASSUME Found, NEW k \in Len(delivered) + 1 .. Len(sent')
                 PROVE  \E p \in 1 .. Len(stream') : stream'[p].of = <<sent'[k], 1>>
      BY <1>3 DEF Found
    <3>1. CASE k = Len(sent) + 1
      <4>1. Len(stream) + 1 \in 1 .. Len(stream')
        BY <1>5
      <4>2. QED
        BY <1>5, <1>8, <3>1, <4>1
    <3>2. CASE k \in Len(delivered) + 1 .. Len(sent)
      <4>1. PICK p \in 1 .. Len(stream) : stream[p].of = <<sent[k], 1>>
        BY <3>2 DEF Found
      <4>2. k \in 1 .. Len(sent)
        BY <1>0, <1>8, <3>2 DEF TypeInv
      <4>3. p \in 1 .. Len(stream') /\ stream'[p].of = <<sent'[k], 1>>
        BY <1>5, <1>8, <4>1, <4>2
      <4>4. QED
        BY <4>3
    <3>3. QED
      BY <1>0, <1>8, <3>1, <3>2 DEF TypeInv
  <2>2. stream # <<>> => Len(stream) > 0 /\ stream'[1] = stream[1]
    <3>1. stream # <<>> => Len(stream) > 0
      BY <1>0, <1>5 DEF TypeInv
    <3>2. QED
      BY <1>5, <3>1
  <2>3. stream' # <<>> /\ Len(stream') > 0
    BY <1>5
  <2>4. stream = <<>> => stream'[1].of = <<m, 1>>
    BY <1>5
  <2>5. AtStart => AtStart'
    BY <2>2, <2>4 DEF AtStart, I
  <2>6. ASSUME NEW p \in 1 .. Len(stream) + 1, NEW n, Opened(stream, n, p)
        PROVE  Opened(stream', n, p)
    BY <1>5, <2>6, OpenedGrows
  <2>7. ASSUME NEW n, Opened(stream, n, Len(stream) + 1)
        PROVE  Opened(stream', n, Len(stream') + 1)
    <3>1. Len(stream) + 1 \in Nat /\ Len(stream') + 1 \in Nat /\ Len(stream) + 1 <= Len(stream') + 1
      BY <1>5
    <3>2. QED
      BY <1>5, <2>7, <3>1, OpenedGrows
  <2>8. Len(stream) + 1 \in 1 .. Len(stream) + 1
    BY <1>5
  <2>9. CASE rpc = "broken"
    BY <1>3, <2>9 DEF ReaderInv
  <2>10. CASE AtFrame
    <3>1. ASSUME NEW p \in 1 .. Len(stream'), stream'[p].of[2] = 1
          PROVE  Opened(stream', stream'[p].of[1], p)
      <4>1. CASE p \in 1 .. Len(stream) /\ stream'[p] = stream[p]
        <5>1. Opened(stream, stream[p].of[1], p) /\ p \in 1 .. Len(stream) + 1
          BY <1>5, <2>10, <3>1, <4>1 DEF AtFrame, M, I
        <5>2. QED
          BY <2>6, <4>1, <5>1
      <4>2. CASE p = Len(stream) + 1 /\ stream'[p].of[1] = m
        <5>1. Opened(stream, m, p)
          BY <1>1, <1>3, <2>10, <4>2 DEF AtFrame
        <5>2. QED
          BY <2>6, <2>8, <4>2, <5>1
      <4>3. QED
        BY <1>6, <3>1, <4>1, <4>2
    <3>2. ASSUME NEW x \in Writers, half'[x]
          PROVE  Opened(stream', <<x, next'[x]>>, Len(stream') + 1)
      <4>1. half[x] /\ next'[x] = next[x]
        BY <1>7, <3>2
      <4>2. QED
        BY <2>7, <2>10, <4>1 DEF AtFrame
    <3>3. AtFrame'
      BY <1>3, <1>4, <2>1, <2>5, <2>10, <3>1, <3>2 DEF AtFrame, M, I, Opened
    <3>4. QED
      BY <3>3 DEF ReaderInv
  <2>11. ASSUME NEW b \in Msgs, AtBody(b) PROVE ReaderInv'
    <3>1. ASSUME NEW p \in 1 .. Len(stream'), stream'[p].of[2] = 1
          PROVE  stream'[p].of[1] = b \/ Opened(stream', stream'[p].of[1], p)
      <4>1. CASE p \in 1 .. Len(stream) /\ stream'[p] = stream[p]
        <5>1. p \in 1 .. Len(stream) + 1
              /\ (stream[p].of[1] = b \/ Opened(stream, stream[p].of[1], p))
          BY <1>5, <2>11, <3>1, <4>1 DEF AtBody, M, I
        <5>2. QED
          BY <2>6, <4>1, <5>1
      <4>2. CASE p = Len(stream) + 1 /\ stream'[p].of[1] = m
        <5>1. m = b \/ Opened(stream, m, p)
          BY <1>1, <1>3, <2>11, <4>2 DEF AtBody
        <5>2. QED
          BY <2>6, <2>8, <4>2, <5>1
      <4>3. QED
        BY <1>6, <3>1, <4>1, <4>2
    <3>2. ASSUME NEW x \in Writers, half'[x]
          PROVE  <<x, next'[x]>> = b \/ Opened(stream', <<x, next'[x]>>, Len(stream') + 1)
      <4>1. half[x] /\ next'[x] = next[x]
        BY <1>7, <3>2
      <4>2. QED
        BY <2>7, <2>11, <4>1 DEF AtBody
    <3>3. link.tolerant => stream'[1].of = <<b, 1>>
      <4>1. link.tolerant /\ stream = <<>> => m = b
        BY <1>1, <2>11 DEF AtBody
      <4>2. link.tolerant /\ stream # <<>> => stream[1].of = <<b, 1>>
        BY <2>11 DEF AtBody
      <4>3. QED
        BY <2>2, <2>4, <4>1, <4>2
    <3>4. want = SizeOf(b) /\ rpc = "body" /\ Found /\ AtStart
      BY <2>11 DEF AtBody
    <3>5. want' = SizeOf(b)'
      BY <1>3, <1>4, <3>4 DEF SizeOf
    <3>6. AtBody(b)'
      BY <1>3, <1>4, <2>1, <2>3, <2>5, <3>1, <3>2, <3>3, <3>4, <3>5 DEF AtBody, M, I, Opened
    <3>7. QED
      BY <1>4, <3>6 DEF ReaderInv
  <2>12. CASE LostBody
    <3>1. stream # <<>> /\ stream'[1] = stream[1]
      BY <2>2, <2>12 DEF LostBody
    <3>2. LostBody'
      BY <1>3, <1>4, <2>3, <2>12, <3>1 DEF LostBody, M, I, SizeOf
    <3>3. QED
      BY <3>2 DEF ReaderInv
  <2>13. CASE LostLength
    <3>1. stream'[1].of[2] >= 0
      <4>1. CASE stream = <<>>
        <5>1. stream'[1].of[2] = 1
          BY <2>4, <4>1
        <5>2. QED
          BY <5>1
      <4>2. CASE stream # <<>>
        BY <2>2, <2>13, <4>2 DEF LostLength, I
      <4>3. QED
        BY <4>1, <4>2
    <3>2. LostLength'
      BY <1>3, <2>3, <2>13, <3>1 DEF LostLength, I
    <3>3. QED
      BY <3>2 DEF ReaderInv
  <2>14. QED
    BY <1>0, <2>9, <2>10, <2>11, <2>12, <2>13 DEF ReaderInv
<1>16. QED
  BY <1>9, <1>11, <1>12, <1>13, <1>14, <1>15 DEF Inv

-----------------------------------------------------------------------------
(***************************************************************************)
(* The reader.                                                              *)
(***************************************************************************)

(* Bytes that arrive change nothing else. *)
LEMMA ArriveKeeps ==
    ASSUME Inv, UNCHANGED <<link, stream, next, half, rpc, want, sent, delivered>>,
           arrived' \in 0 .. Len(stream)
    PROVE  Inv'
<1>0. TypeInv /\ StreamInv /\ SentInv /\ DeliveredInv /\ TolerantInv /\ ReaderInv
  BY DEF Inv
<1>1. /\ Script' = Script /\ Writers' = Writers /\ Msgs' = Msgs /\ Bytes' = Bytes
      /\ Chunks(stream)' <=> Chunks(stream')
  BY Same
<1>2. TypeInv'
  BY <1>0, <1>1 DEF TypeInv
<1>3. StreamInv'
  BY <1>0, <1>1 DEF StreamInv, Unique, M, I
<1>4. SentInv' /\ DeliveredInv'
  <2>1. SentInv'
    <3>1. \A k \in 1 .. Len(sent') : sent'[k][2] < next'[sent'[k][1]]
      BY <1>0 DEF SentInv
    <3>2. \A k, l \in 1 .. Len(sent') : sent'[k] = sent'[l] => k = l
      BY <1>0 DEF SentInv
    <3>3. \A p, q \in 1 .. Len(stream') : \A k, l \in 1 .. Len(sent') :
            stream'[p].of = <<sent'[k], 1>> /\ stream'[q].of = <<sent'[l], 1>> /\ p < q => k < l
      <4>1. stream' = stream /\ sent' = sent
        OBVIOUS
      <4>2. \A p, q \in 1 .. Len(stream) : \A k, l \in 1 .. Len(sent) :
              stream[p].of = <<sent[k], 1>> /\ stream[q].of = <<sent[l], 1>> /\ p < q => k < l
        BY <1>0, Zenon DEF SentInv
      <4>3. QED
        BY <4>1, <4>2, Zenon
    <3>4. QED
      BY <3>1, <3>2, <3>3 DEF SentInv
  <2>2. DeliveredInv'
    BY <1>0 DEF DeliveredInv, M, I
  <2>3. QED
    BY <2>1, <2>2
<1>5. TolerantInv'
  BY <1>0, <1>1 DEF TolerantInv, M, I
<1>6. ReaderInv'
  <2>1. AtFrame => AtFrame'
    BY <1>1 DEF AtFrame, Found, AtStart, Opened, M, I
  <2>2. ASSUME NEW b \in Msgs, AtBody(b) PROVE AtBody(b)'
    BY <1>1, <2>2 DEF AtBody, Found, AtStart, Opened, M, I, SizeOf
  <2>3. LostBody => LostBody'
    BY <1>1 DEF LostBody, M, I, SizeOf
  <2>4. LostLength => LostLength'
    BY <1>1 DEF LostLength, I
  <2>5. (\E b \in Msgs : AtBody(b)) => (\E b \in Msgs : AtBody(b))'
    BY <1>1, <2>2
  <2>6. QED
    BY <1>0, <2>1, <2>3, <2>4, <2>5 DEF ReaderInv
<1>7. QED
  BY <1>2, <1>3, <1>4, <1>5, <1>6 DEF Inv

(* A length is read: where one begins it is the length of the next body, and *)
(* in the middle of a body it is out of range.                              *)
LEMMA ReadLengthKeeps ==
    ASSUME Inv, ReadLength
    PROVE  Inv'
<1>0. TypeInv /\ StreamInv /\ SentInv /\ DeliveredInv /\ TolerantInv /\ ReaderInv
  BY DEF Inv
<1>1. PICK got \in Readable : /\ Read(4, got) /\ want' = Length(got)
        /\ rpc' = IF Length(got) \in 1 .. MaxLength THEN "body" ELSE "broken"
  BY DEF ReadLength, PrefixLength
<1>2. rpc = "length" /\ UNCHANGED <<link, next, half, sent, delivered>>
  BY DEF ReadLength
<1>3. PICK c \in 1 .. 4 : Took(c, got)
  BY <1>0, <1>1, ReadFacts
<1>4. /\ c \in Nat /\ c <= Len(stream) /\ Len(got) = c /\ got \in Seq(Bytes)
      /\ \A p \in 1 .. c : got[p] = stream[p]
  BY <1>3 DEF Took
<1>5. /\ stream' \in Seq(Bytes)' /\ arrived' \in 0 .. Len(stream')
      /\ Left(c) /\ StreamInv' /\ SentInv' /\ TolerantInv'
  BY <1>0, <1>2, <1>3, CutKeeps
<1>6. /\ Len(stream') = Len(stream) - c /\ Len(stream') \in Nat
      /\ \A p \in 1 .. Len(stream') : p + c \in 1 .. Len(stream) /\ stream'[p] = stream[p + c]
  BY <1>5 DEF Left
<1>7. /\ Script' = Script /\ Writers' = Writers /\ Msgs' = Msgs /\ Bytes' = Bytes
  BY <1>2, Same
<1>8. link \in Links /\ stream \in Seq(Bytes) /\ Len(stream) \in Nat /\ Len(stream) > 0
      /\ 1 \in 1 .. Len(stream) /\ got[1] = stream[1]
  BY <1>0, <1>4 DEF TypeInv
<1>9. /\ Length(got) \in Nat
      /\ stream[1].of[2] >= 1 => Length(got) > MaxLength
      /\ (Len(got) >= 2 => got[2].of[2] >= 1) => Length(got) = 0 \/ Length(got) > MaxLength
  BY <1>4, <1>8, LengthOfBytes
<1>10. TypeInv'
  BY <1>0, <1>1, <1>2, <1>5, <1>7, <1>9 DEF TypeInv
<1>11. DeliveredInv'
  <2>1. ASSUME NEW p \in 1 .. Len(stream'), stream'[p].of[2] = 1
        PROVE  \E k \in Len(delivered) + 1 .. Len(sent) : sent[k] = stream'[p].of[1]
    <3>1. p + c \in 1 .. Len(stream) /\ stream'[p] = stream[p + c]
      BY <1>6
    <3>2. QED
      BY <1>0, <2>1, <3>1 DEF DeliveredInv, M, I
  <2>2. QED
    BY <1>0, <1>2, <2>1 DEF DeliveredInv, M, I
<1>12. ReaderInv'
  <2>1. CASE rpc' = "broken"
    BY <2>1 DEF ReaderInv
  <2>2. CASE rpc' = "body" /\ AtFrame
    <3>1. PICK m \in Msgs : m = M(stream, 1)
      BY <1>8, EndFacts
    <3>2. I(stream, 1) = -3
      <4>1. I(stream, 1) \in {-3, 1}
        BY <1>8, <2>2 DEF AtFrame, AtStart
      <4>2. ASSUME I(stream, 1) = 1 PROVE FALSE
        <5>1. Opened(stream, M(stream, 1), 1)
          BY <1>8, <2>2, <4>2 DEF AtFrame
        <5>2. QED
          BY <5>1 DEF Opened
      <4>3. QED
        BY <4>1, <4>2
    <3>3. EndOf(stream, 1) = 4
      <4>1. EndOf(stream, 1) = 1 - (-3)
        BY <1>8, <3>2, EndFacts
      <4>2. QED
        BY <4>1
    <3>4. /\ Len(stream) >= 4
          /\ \A q \in 1 .. 4 : stream[q].of = <<m, -3 + q - 1>>
          /\ 4 < Len(stream) => I(stream, 4 + 1) \in {-3, 1}
      <4>1. /\ EndOf(stream, 1) <= Len(stream)
            /\ \A q \in 1 .. EndOf(stream, 1) :
                 stream[q].of = <<M(stream, 1), I(stream, 1) + q - 1>>
            /\ EndOf(stream, 1) < Len(stream) => I(stream, EndOf(stream, 1) + 1) \in {-3, 1}
        BY <1>0, <1>8 DEF StreamInv, Chunks
      <4>2. QED
        BY <1>8, <3>1, <3>2, <3>3, <4>1
    <3>5. \A q \in 1 .. 4 : stream[q].of = <<m, q - 4>>
      <4> SUFFICES ASSUME NEW q \in 1 .. 4 PROVE stream[q].of = <<m, q - 4>>
        OBVIOUS
      <4>1. stream[q].of = <<m, -3 + q - 1>> /\ -3 + q - 1 = q - 4
        BY <3>4
      <4>2. QED
        BY <4>1
    <3>6. /\ c = 4 => Length(got) = SizeOf(m)
          /\ c = 1 => Length(got) = 0
          /\ c \in {2, 3} => Length(got) <= SizeOf(m)
      <4>1. ASSUME NEW p \in 1 .. c PROVE got[p].of = <<m, p - 4>>
        <5>1. p \in 1 .. 4 /\ got[p] = stream[p]
          BY <1>4
        <5>2. QED
          BY <3>5, <5>1
      <4>2. QED
        BY <1>4, <1>8, <4>1, LengthOfPrefix
    <3>7. CASE c < 4
      <4>1. Len(stream') > 0 /\ 1 \in 1 .. Len(stream') /\ stream'[1] = stream[1 + c]
        BY <1>4, <1>6, <3>4, <3>7
      <4>2. stream'[1].of = <<m, (1 + c) - 4>>
        <5>1. 1 + c \in 1 .. 4
          BY <3>7
        <5>2. QED
          BY <3>5, <4>1, <5>1
      <4>3. (1 + c) - 4 <= 0 /\ (c \in {2, 3} => (1 + c) - 4 \in {-1, 0})
        BY <3>7
      <4>4. c \in {2, 3}
        <5>1. Length(got) # 0
          BY <1>1, <2>2
        <5>2. QED
          BY <3>6, <3>7, <5>1
      <4>5. stream' # <<>>
        BY <4>1
      <4>6. stream'[1].of[1] = m /\ stream'[1].of[2] = (1 + c) - 4
        BY <4>2
      <4>7. stream'[1].of[2] \in {-1, 0} /\ want' <= SizeOf(m)
        BY <1>1, <3>6, <4>3, <4>4, <4>6
      <4>8. stream'[1].of[2] <= 0
        BY <4>3, <4>6
      <4>9. LostBody'
        BY <1>2, <1>7, <2>2, <4>5, <4>6, <4>7, <4>8 DEF LostBody, M, I, SizeOf
      <4>10. QED
        BY <4>9 DEF ReaderInv
    <3>8. CASE c = 4
      <4>1. ASSUME NEW k \in Len(delivered) + 1 .. Len(sent)
            PROVE  \E p \in 1 .. Len(stream') : stream'[p].of = <<sent[k], 1>>
        <5>1. PICK p \in 1 .. Len(stream) : stream[p].of = <<sent[k], 1>>
          BY <2>2 DEF AtFrame, Found
        <5>2. ~(p \in 1 .. 4)
          <6>1. SUFFICES ASSUME p \in 1 .. 4 PROVE FALSE
            OBVIOUS
          <6>2. stream[p].of[2] = p - 4 /\ stream[p].of[2] = 1
            BY <3>5, <5>1, <6>1
          <6>3. p - 4 # 1
            BY <6>1
          <6>4. QED
            BY <6>2, <6>3
        <5>3. p - 4 \in 1 .. Len(stream') /\ (p - 4) + c = p
          BY <1>6, <1>8, <3>8, <5>2
        <5>4. stream'[p - 4] = stream[p]
          BY <1>6, <5>3
        <5>5. QED
          BY <5>1, <5>3, <5>4
      <4>2. Len(stream') > 0 => stream'[1].of[2] \in {-3, 1}
        <5>1. SUFFICES ASSUME Len(stream') > 0 PROVE stream'[1].of[2] \in {-3, 1}
          OBVIOUS
        <5>2. 4 < Len(stream) /\ 1 \in 1 .. Len(stream') /\ 1 + c = 4 + 1
          BY <1>6, <1>8, <3>8, <5>1
        <5>3. stream'[1] = stream[4 + 1]
          BY <1>6, <5>2
        <5>4. QED
          BY <3>4, <5>2, <5>3 DEF I
      <4>3. ASSUME NEW n, NEW p \in 1 .. Len(stream') + 1, Opened(stream, n, p + 4)
            PROVE  n = m \/ Opened(stream', n, p)
        <5>1. PICK q \in 1 .. (p + 4) - 1 : stream[q].of = <<n, -3>>
          BY <4>3 DEF Opened
        <5>2. CASE q \in 1 .. 4
          <6>1. stream[q].of = <<m, q - 4>>
            BY <3>5, <5>2
          <6>2. QED
            BY <5>1, <6>1
        <5>3. CASE ~(q \in 1 .. 4)
          <6>1. q - 4 \in 1 .. p - 1 /\ q - 4 \in 1 .. Len(stream') /\ (q - 4) + c = q
            BY <1>6, <3>8, <5>1, <5>3
          <6>2. stream'[q - 4] = stream[q]
            BY <1>6, <6>1
          <6>3. QED
            BY <5>1, <6>1, <6>2 DEF Opened
        <5>4. QED
          BY <5>2, <5>3
      <4>4. ASSUME NEW p \in 1 .. Len(stream'), stream'[p].of[2] = 1
            PROVE  stream'[p].of[1] = m \/ Opened(stream', stream'[p].of[1], p)
        <5>1. p + 4 \in 1 .. Len(stream) /\ stream'[p] = stream[p + 4]
          BY <1>6, <3>8
        <5>2. Opened(stream, stream[p + 4].of[1], p + 4)
          BY <2>2, <4>4, <5>1 DEF AtFrame, M, I
        <5>3. p \in 1 .. Len(stream') + 1
          BY <1>6
        <5>4. QED
          BY <4>3, <5>1, <5>2, <5>3
      <4>5. ASSUME NEW x \in Writers, half[x]
            PROVE  \/ <<x, next[x]>> = m
                   \/ Opened(stream', <<x, next[x]>>, Len(stream') + 1)
        <5>1. Opened(stream, <<x, next[x]>>, Len(stream) + 1)
          BY <2>2, <4>5 DEF AtFrame
        <5>2. Len(stream) + 1 = (Len(stream') + 1) + 4 /\ Len(stream') + 1 \in 1 .. Len(stream') + 1
          BY <1>6, <1>8, <3>8
        <5>3. QED
          BY <4>3, <5>1, <5>2
      <4>6. stream[4].of = <<m, 0>>
        BY <3>5
      <4>7. ASSUME link.tolerant, stream' = <<>>, NEW x \in Writers
            PROVE  half[x] /\ m = <<x, next[x]>>
        <5>1. Len(stream) = 4
          BY <1>6, <1>8, <3>8, <4>7
        <5>2. IF half[x] THEN stream[4].of = <<<<x, next[x]>>, 0>> ELSE stream[4].of[2] # 0
          BY <1>0, <1>8, <4>7, <5>1 DEF TolerantInv, I
        <5>3. QED
          BY <4>6, <5>2
      <4>8. ASSUME link.tolerant, stream' # <<>> PROVE stream'[1].of = <<m, 1>>
        <5>1. Len(stream') > 0
          BY <1>5, <1>6, <4>8
        <5>2. 4 \in 1 .. Len(stream) - 1 /\ 1 \in 1 .. Len(stream') /\ 1 + c = 4 + 1
          BY <1>6, <1>8, <3>8, <5>1
        <5>3. stream'[1] = stream[4 + 1]
          BY <1>6, <5>2
        <5>4. stream[4 + 1].of = <<stream[4].of[1], 1>>
          BY <1>0, <4>6, <4>8, <5>2 DEF TolerantInv, M, I
        <5>5. QED
          BY <4>6, <5>3, <5>4
      <4>9. want' = SizeOf(m)'
        BY <1>1, <1>7, <3>6, <3>8 DEF SizeOf
      <4>10. Found' /\ AtStart'
        BY <1>2, <4>1, <4>2 DEF Found, AtStart, I
      <4>11. AtBody(m)'
        BY <1>2, <1>7, <2>2, <4>4, <4>5, <4>7, <4>8, <4>9, <4>10 DEF AtBody, M, I, Opened
      <4>12. QED
        BY <1>7, <4>11 DEF ReaderInv
    <3>9. QED
      BY <3>7, <3>8
  <2>3. CASE LostLength
    <3>1. stream # <<>>
      BY <1>8
    <3>2. stream[1].of[2] >= 0 /\ stream[1].of[2] \in Int
      BY <1>8, <2>3, <3>1, EndFacts DEF LostLength, I
    <3>3. Length(got) = 0 \/ Length(got) > MaxLength
      <4>1. CASE stream[1].of[2] >= 1
        BY <1>9, <4>1
      <4>2. CASE stream[1].of[2] = 0
        <5>1. ASSUME Len(got) >= 2 PROVE got[2].of[2] >= 1
          <6>1. 1 \in 1 .. Len(stream) - 1 /\ got[2] = stream[1 + 1]
            BY <1>4, <1>8, <5>1
          <6>2. stream[1 + 1].of = <<M(stream, 1), 1>>
            BY <1>0, <2>3, <4>2, <6>1 DEF TolerantInv, LostLength, I
          <6>3. got[2].of[2] = 1
            BY <6>1, <6>2
          <6>4. QED
            BY <6>3
        <5>2. QED
          BY <1>9, <5>1
      <4>3. QED
        BY <3>2, <4>1, <4>2
    <3>4. ~(Length(got) \in 1 .. MaxLength)
      BY <1>9, <3>3, FramingAssumption
    <3>5. QED
      BY <1>1, <2>1, <3>4
  <2>4. rpc' = "body" \/ rpc' = "broken"
    BY <1>1
  <2>5. AtFrame \/ LostLength
    BY <1>0, <1>2 DEF ReaderInv, AtBody, LostBody
  <2>6. QED
    BY <2>1, <2>2, <2>3, <2>4, <2>5
<1>13. QED
  BY <1>5, <1>10, <1>11, <1>12 DEF Inv

(* A body is read: one that decodes is the next that was sent. *)
LEMMA ReadBodyKeeps ==
    ASSUME Inv, ReadBody
    PROVE  Inv'
<1>0. TypeInv /\ StreamInv /\ SentInv /\ DeliveredInv /\ TolerantInv /\ ReaderInv
  BY DEF Inv
<1>1. PICK got \in Readable :
        /\ Read(want, got)
        /\ IF Decodes(got, want)
           THEN /\ delivered' = Append(delivered, got[1].of[1])
                /\ rpc' = "length"
           ELSE /\ rpc' = IF link.tolerant THEN "length" ELSE "broken"
                /\ UNCHANGED delivered
  BY DEF ReadBody
<1>2. rpc = "body" /\ UNCHANGED <<link, want, next, half, sent>>
  BY DEF ReadBody
<1>3. PICK c \in 1 .. want : Took(c, got)
  BY <1>0, <1>1, ReadFacts DEF TypeInv
<1>4. /\ want \in Nat /\ c \in Nat /\ c > 0 /\ c <= want /\ c <= Len(stream)
      /\ Len(got) = c /\ got \in Seq(Bytes) /\ \A p \in 1 .. c : got[p] = stream[p]
  BY <1>0, <1>3 DEF Took, TypeInv
<1>5. /\ stream' \in Seq(Bytes)' /\ arrived' \in 0 .. Len(stream')
      /\ Left(c) /\ StreamInv' /\ SentInv' /\ TolerantInv'
  BY <1>0, <1>2, <1>3, CutKeeps
<1>6. /\ Len(stream') = Len(stream) - c /\ Len(stream') \in Nat
      /\ \A p \in 1 .. Len(stream') : p + c \in 1 .. Len(stream) /\ stream'[p] = stream[p + c]
  BY <1>5 DEF Left
<1>7. /\ Script' = Script /\ Writers' = Writers /\ Msgs' = Msgs /\ Bytes' = Bytes
  BY <1>2, Same
<1>8. /\ link \in Links /\ stream \in Seq(Bytes) /\ Len(stream) \in Nat /\ Len(stream) > 0
      /\ 1 \in 1 .. Len(stream) /\ got[1] = stream[1] /\ stream # <<>>
      /\ sent \in Seq(Msgs) /\ delivered \in Seq(Msgs)
      /\ Len(sent) \in Nat /\ Len(delivered) \in Nat
  BY <1>0, <1>4 DEF TypeInv
<1>9. LostBody \/ \E b \in Msgs : AtBody(b)
  BY <1>0, <1>2 DEF ReaderInv, AtFrame, LostLength
<1>10. CASE ~Decodes(got, want)
  <2>1. delivered' = delivered /\ rpc' = IF link.tolerant THEN "length" ELSE "broken"
    BY <1>1, <1>10
  <2>2. TypeInv'
    BY <1>0, <1>2, <1>5, <1>7, <2>1 DEF TypeInv
  <2>3. DeliveredInv'
    <3>1. ASSUME NEW p \in 1 .. Len(stream'), stream'[p].of[2] = 1
          PROVE  \E k \in Len(delivered) + 1 .. Len(sent) : sent[k] = stream'[p].of[1]
      <4>1. p + c \in 1 .. Len(stream) /\ stream'[p] = stream[p + c]
        BY <1>6
      <4>2. QED
        BY <1>0, <3>1, <4>1 DEF DeliveredInv, M, I
    <3>2. QED
      BY <1>0, <1>2, <2>1, <3>1 DEF DeliveredInv, M, I
  <2>4. CASE ~link.tolerant
    <3>1. rpc' = "broken"
      BY <2>1, <2>4
    <3>2. QED
      BY <1>5, <2>2, <2>3, <3>1 DEF Inv, ReaderInv
  <2>5. CASE link.tolerant
    <3>1. ASSUME NEW b \in Msgs, AtBody(b) PROVE LostLength'
      <4>1. stream[1].of = <<b, 1>> /\ want = SizeOf(b)
        BY <1>8, <2>5, <3>1 DEF AtBody
      <4>2. M(stream, 1) = b /\ I(stream, 1) = 1
        BY <4>1 DEF M, I
      <4>3. EndOf(stream, 1) = want
        <5>1. EndOf(stream, 1) = 1 - 1 + SizeOf(b)
          BY <1>8, <4>2, EndFacts
        <5>2. QED
          BY <1>4, <4>1, <5>1
      <4>4. want <= Len(stream) /\ \A q \in 1 .. want : stream[q].of = <<b, 1 + q - 1>>
        BY <1>0, <1>8, <4>2, <4>3 DEF StreamInv, Chunks
      <4>5. \A q \in 1 .. want : stream[q].of = <<b, q>>
        <5> SUFFICES ASSUME NEW q \in 1 .. want PROVE stream[q].of = <<b, q>>
          OBVIOUS
        <5>1. stream[q].of = <<b, 1 + q - 1>> /\ 1 + q - 1 = q
          BY <1>4, <4>4
        <5>2. QED
          BY <5>1
      <4>6. c < want
        <5>1. SUFFICES ASSUME c = want PROVE FALSE
          BY <1>4
        <5>2. Len(got) = SizeOf(b) /\ \A p \in 1 .. SizeOf(b) : got[p].of = <<b, p>>
          BY <1>4, <4>1, <4>5, <5>1
        <5>3. Decodes(got, SizeOf(b))
          BY <1>4, <1>8, <5>2, BodyDecodes
        <5>4. QED
          BY <1>10, <4>1, <5>3
      <4>7. 1 + c \in 1 .. want /\ 1 \in 1 .. Len(stream')
        BY <1>4, <1>6, <4>4, <4>6
      <4>8. stream'[1].of = <<b, 1 + c>>
        BY <1>6, <4>5, <4>7
      <4>9. stream'[1].of[2] >= 0 /\ stream' # <<>>
        BY <1>4, <4>7, <4>8
      <4>10. QED
        BY <1>2, <2>1, <2>5, <4>9 DEF LostLength, I
    <3>2. ASSUME LostBody PROVE LostLength'
      <4>1. I(stream, 1) \in {-1, 0} /\ want <= SizeOf(M(stream, 1))
        BY <2>5, <3>2 DEF LostBody
      <4>2. PICK b \in Msgs : b = M(stream, 1)
        BY <1>8, EndFacts
      <4>3. SizeOf(b) \in Nat
        BY <1>8, MsgFacts
      <4>4. PICK z \in 1 .. 2 : I(stream, 1) = 1 - z
        BY <4>1
      <4>5. z \in 1 .. Len(stream) /\ stream[z].of = <<b, 0>>
        <5>1. I(stream, 1) <= 0 /\ I(stream, 1) \in Int
          BY <4>1
        <5>2. EndOf(stream, 1) = 1 - (1 - z)
          BY <1>8, <4>4, <5>1, EndFacts
        <5>3. EndOf(stream, 1) = z
          BY <5>2
        <5>4. EndOf(stream, 1) <= Len(stream)
              /\ \A q \in 1 .. EndOf(stream, 1) : stream[q].of = <<M(stream, 1), I(stream, 1) + q - 1>>
          BY <1>0, <1>8 DEF StreamInv, Chunks
        <5>5. z \in 1 .. EndOf(stream, 1) /\ (1 - z) + z - 1 = 0
          BY <5>3
        <5>6. stream[z].of = <<b, (1 - z) + z - 1>>
          BY <4>2, <4>4, <5>4, <5>5
        <5>7. QED
          BY <1>8, <5>3, <5>4, <5>5, <5>6
      <4>6. ASSUME z < Len(stream)
            PROVE  /\ stream[z + 1].of = <<b, 1>> /\ z + SizeOf(b) <= Len(stream)
                   /\ \A q \in z + 1 .. z + SizeOf(b) : stream[q].of = <<b, q - z>>
        <5>1. z \in 1 .. Len(stream) - 1 /\ z + 1 \in 1 .. Len(stream)
          BY <1>8, <4>5, <4>6
        <5>2. stream[z].of[1] = b /\ stream[z].of[2] = 0
          BY <4>5
        <5>3. stream[z + 1].of = <<b, 1>>
          BY <1>0, <2>5, <5>1, <5>2 DEF TolerantInv, M, I
        <5>4. M(stream, z + 1) = b /\ I(stream, z + 1) = 1 /\ I(stream, z + 1) > 0
          BY <5>3 DEF M, I
        <5>5. EndOf(stream, z + 1) = (z + 1) - I(stream, z + 1) + SizeOf(M(stream, z + 1))
          BY <1>8, <5>1, <5>4, EndFacts
        <5>6. EndOf(stream, z + 1) = z + SizeOf(b)
          BY <4>3, <5>4, <5>5
        <5>7. /\ EndOf(stream, z + 1) <= Len(stream)
              /\ \A q \in z + 1 .. EndOf(stream, z + 1) :
                   stream[q].of = <<M(stream, z + 1), I(stream, z + 1) + q - (z + 1)>>
          BY <1>0, <5>1 DEF StreamInv, Chunks
        <5>8. ASSUME NEW q \in z + 1 .. z + SizeOf(b) PROVE stream[q].of = <<b, q - z>>
          <6>1. stream[q].of = <<b, 1 + q - (z + 1)>>
            BY <5>4, <5>6, <5>7
          <6>2. 1 + q - (z + 1) = q - z
            BY <4>3
          <6>3. QED
            BY <6>1, <6>2
        <5>9. QED
          BY <5>3, <5>6, <5>7, <5>8
      <4>7. CASE c < z
        <5>1. c = 1 /\ z = 2
          BY <1>4, <4>7
        <5>2. 1 \in 1 .. Len(stream') /\ 1 + c = z
          BY <1>6, <1>8, <4>5, <5>1
        <5>3. stream'[1].of[2] = 0 /\ stream' # <<>>
          BY <1>6, <4>5, <5>2
        <5>4. QED
          BY <1>2, <2>1, <2>5, <5>3 DEF LostLength, I
      <4>8. CASE c >= z /\ Len(stream') = 0
        <5>1. c = Len(stream)
          BY <1>4, <1>6, <1>8, <4>8
        <5>2. z = Len(stream)
          <6>1. SUFFICES ASSUME z < Len(stream) PROVE FALSE
            BY <1>8, <4>5
          <6>2. z + SizeOf(b) <= Len(stream)
            BY <4>6, <6>1
          <6>3. c <= SizeOf(b)
            BY <1>4, <4>1, <4>2, <4>3
          <6>4. QED
            BY <1>8, <4>3, <5>1, <6>2, <6>3
        <5>3. stream[Len(stream)].of[2] = 0
          BY <4>5, <5>2
        <5>4. \A x \in Writers : half[x]
          BY <1>0, <1>8, <2>5, <5>3 DEF TolerantInv, I
        <5>5. stream' = <<>>
          BY <1>5, <4>8
        <5>6. QED
          BY <1>2, <1>7, <2>1, <2>5, <5>4, <5>5 DEF LostLength
      <4>9. CASE c >= z /\ Len(stream') > 0
        <5>1. 1 \in 1 .. Len(stream') /\ stream'[1] = stream[1 + c] /\ z < Len(stream)
          BY <1>4, <1>6, <1>8, <4>9
        <5>2. c <= SizeOf(b)
          BY <1>4, <4>1, <4>2, <4>3
        <5>3. 1 + c \in z + 1 .. z + SizeOf(b)
          BY <1>4, <4>3, <4>9, <5>2
        <5>4. stream'[1].of = <<b, (1 + c) - z>>
          BY <4>6, <5>1, <5>3
        <5>5. (1 + c) - z >= 0
          BY <1>4, <4>9
        <5>6. stream'[1].of[2] >= 0 /\ stream' # <<>>
          BY <4>9, <5>4, <5>5
        <5>7. QED
          BY <1>2, <2>1, <2>5, <5>6 DEF LostLength, I
      <4>10. QED
        BY <1>4, <1>6, <4>7, <4>8, <4>9
    <3>3. LostLength'
      BY <1>9, <3>1, <3>2
    <3>4. QED
      BY <1>5, <2>2, <2>3, <3>3 DEF Inv, ReaderInv
  <2>6. QED
    BY <2>4, <2>5
<1>11. CASE Decodes(got, want)
  <2>1. PICK m \in Msgs : /\ c = want /\ want = SizeOf(m)
                          /\ \A p \in 1 .. want : got[p].of = <<m, p>>
    BY <1>4, <1>8, <1>11, DecodedIsBody
  <2>2. \A p \in 1 .. c : stream[p].of = <<m, p>> /\ stream[p].of[1] = m /\ stream[p].of[2] = p
    BY <1>4, <2>1
  <2>3. M(stream, 1) = m /\ I(stream, 1) = 1 /\ stream[1].of = <<m, 1>>
    BY <1>4, <2>2 DEF M, I
  <2>4. delivered' = Append(delivered, m) /\ rpc' = "length"
    BY <1>1, <1>8, <1>11, <2>3 DEF M
  <2>5. PICK b \in Msgs : AtBody(b)
    <3>1. ~LostBody
      BY <2>3 DEF LostBody
    <3>2. QED
      BY <1>9, <3>1
  <2>6. b = m
    <3>1. ~Opened(stream, M(stream, 1), 1)
      BY DEF Opened
    <3>2. QED
      BY <1>8, <2>3, <2>5, <3>1 DEF AtBody
  <2>7. /\ Len(delivered) <= Len(sent)
        /\ \A k \in 1 .. Len(delivered) : delivered[k] = sent[k]
        /\ \A p \in 1 .. Len(stream) : stream[p].of[2] = 1 =>
             \E k \in Len(delivered) + 1 .. Len(sent) : sent[k] = stream[p].of[1]
    BY <1>0 DEF DeliveredInv, M, I
  <2>8. PICK k \in Len(delivered) + 1 .. Len(sent) : sent[k] = m
    BY <1>8, <2>3, <2>7 DEF M, I
  <2>9. k = Len(delivered) + 1
    <3>1. PICK l \in Len(delivered) + 1 .. Len(sent) : l = Len(delivered) + 1
      BY <1>8, <2>8
    <3>2. PICK p \in 1 .. Len(stream) : stream[p].of = <<sent[l], 1>>
      BY <2>5 DEF AtBody, Found
    <3>3. k \in 1 .. Len(sent) /\ l \in 1 .. Len(sent)
      BY <1>8, <2>8, <3>1
    <3>4. CASE p = 1
      <4>1. sent[l] = m
        BY <2>3, <3>2, <3>4
      <4>2. l = k
        BY <1>0, <2>8, <3>3, <4>1 DEF SentInv
      <4>3. QED
        BY <3>1, <4>2
    <3>5. CASE p > 1
      <4>1. stream[1].of = <<sent[k], 1>> /\ 1 < p
        BY <2>3, <2>8, <3>5
      <4>2. k < l
        BY <1>0, <1>8, <3>2, <3>3, <4>1 DEF SentInv
      <4>3. QED
        BY <1>8, <2>8, <3>1, <4>2
    <3>6. QED
      BY <3>2, <3>4, <3>5
  <2>10. /\ delivered' \in Seq(Msgs) /\ Len(delivered') = Len(delivered) + 1
         /\ delivered'[Len(delivered) + 1] = m
         /\ \A j \in 1 .. Len(delivered) : delivered'[j] = delivered[j]
    BY <1>8, <2>4
  <2>11. TypeInv'
    BY <1>0, <1>2, <1>5, <1>7, <2>4, <2>10 DEF TypeInv
  <2>12. ASSUME NEW p \in 1 .. Len(stream')
         PROVE  /\ p + c \in 1 .. Len(stream) /\ stream'[p] = stream[p + c]
                /\ stream[p + c].of # <<m, 1>>
    <3>1. p + c \in 1 .. Len(stream) /\ stream'[p] = stream[p + c]
      BY <1>6
    <3>2. p + c # 1
      BY <1>4, <1>6
    <3>3. stream[p + c].of # stream[1].of
      BY <1>0, <1>8, <3>1, <3>2 DEF StreamInv, Unique
    <3>4. QED
      BY <2>3, <3>1, <3>3
  <2>13. DeliveredInv'
    <3>1. Len(delivered') <= Len(sent)
      BY <1>8, <2>8, <2>9, <2>10
    <3>2. ASSUME NEW j \in 1 .. Len(delivered') PROVE delivered'[j] = sent[j]
      <4>1. CASE j \in 1 .. Len(delivered)
        BY <2>7, <2>10, <4>1
      <4>2. CASE j = Len(delivered) + 1
        BY <2>8, <2>9, <2>10, <4>2
      <4>3. QED
        BY <1>8, <2>10, <4>1, <4>2
    <3>3. ASSUME NEW p \in 1 .. Len(stream'), stream'[p].of[2] = 1
          PROVE  \E j \in Len(delivered') + 1 .. Len(sent) : sent[j] = stream'[p].of[1]
      <4>1. /\ p + c \in 1 .. Len(stream) /\ stream'[p] = stream[p + c]
            /\ stream[p + c].of # <<m, 1>> /\ stream[p + c].of[2] = 1
        BY <2>12, <3>3
      <4>2. PICK j \in Len(delivered) + 1 .. Len(sent) : sent[j] = stream[p + c].of[1]
        BY <2>7, <4>1
      <4>3. stream[p + c].of = <<stream[p + c].of[1], stream[p + c].of[2]>>
        BY <1>8, <4>1, EndFacts DEF M, I
      <4>4. sent[j] # m
        BY <4>1, <4>2, <4>3
      <4>5. j # Len(delivered) + 1
        BY <2>8, <2>9, <4>4
      <4>6. j \in Len(delivered') + 1 .. Len(sent)
        BY <1>8, <2>10, <4>2, <4>5
      <4>7. QED
        BY <4>1, <4>2, <4>6
    <3>4. QED
      BY <1>2, <3>1, <3>2, <3>3 DEF DeliveredInv, M, I
  <2>14. Found'
    <3> SUFFICES ASSUME NEW j \in Len(delivered') + 1 .. Len(sent)
                 PROVE  \E p \in 1 .. Len(stream') : stream'[p].of = <<sent[j], 1>>
      BY <1>2 DEF Found
    <3>1. j \in Len(delivered) + 1 .. Len(sent) /\ j # k /\ j \in 1 .. Len(sent) /\ k \in 1 .. Len(sent)
      BY <1>8, <2>8, <2>9, <2>10
    <3>2. PICK p \in 1 .. Len(stream) : stream[p].of = <<sent[j], 1>>
      BY <2>5, <3>1 DEF AtBody, Found
    <3>3. sent[j] # m
      BY <1>0, <2>8, <3>1 DEF SentInv
    <3>4. ~(p \in 1 .. c)
      <4>1. SUFFICES ASSUME p \in 1 .. c PROVE FALSE
        OBVIOUS
      <4>2. stream[p].of[1] = m
        BY <2>2, <4>1
      <4>3. stream[p].of[1] = sent[j]
        BY <3>2
      <4>4. QED
        BY <3>3, <4>2, <4>3
    <3>5. p - c \in 1 .. Len(stream') /\ (p - c) + c = p
      BY <1>4, <1>6, <1>8, <3>2, <3>4
    <3>6. stream'[p - c] = stream[p]
      BY <1>6, <3>5
    <3>7. QED
      BY <3>2, <3>5, <3>6
  <2>15. AtStart'
    <3>1. SUFFICES ASSUME Len(stream') > 0 PROVE stream'[1].of[2] \in {-3, 1}
      BY DEF AtStart, I
    <3>2. EndOf(stream, 1) = c
      <4>1. EndOf(stream, 1) = 1 - 1 + SizeOf(m)
        BY <1>8, <2>3, EndFacts
      <4>2. QED
        BY <1>4, <2>1, <4>1
    <3>3. c < Len(stream) /\ 1 \in 1 .. Len(stream') /\ 1 + c = c + 1
      BY <1>4, <1>6, <1>8, <3>1
    <3>4. I(stream, c + 1) \in {-3, 1}
      BY <1>0, <1>8, <3>2, <3>3 DEF StreamInv, Chunks
    <3>5. stream'[1] = stream[c + 1]
      BY <1>6, <3>3
    <3>6. QED
      BY <3>4, <3>5 DEF I
  <2>16. ASSUME NEW n, NEW p \in 1 .. Len(stream') + 1, Opened(stream, n, p + c)
         PROVE  Opened(stream', n, p)
    <3>1. PICK q \in 1 .. (p + c) - 1 : stream[q].of = <<n, -3>>
      BY <2>16 DEF Opened
    <3>2. ~(q \in 1 .. c)
      <4>1. SUFFICES ASSUME q \in 1 .. c PROVE FALSE
        OBVIOUS
      <4>2. stream[q].of[2] = q /\ stream[q].of[2] = -3
        BY <2>2, <3>1, <4>1
      <4>3. QED
        BY <4>1, <4>2
    <3>3. q - c \in 1 .. p - 1 /\ q - c \in 1 .. Len(stream') /\ (q - c) + c = q
      BY <1>4, <1>6, <3>1, <3>2
    <3>4. stream'[q - c] = stream[q]
      BY <1>6, <3>3
    <3>5. QED
      BY <3>1, <3>3, <3>4 DEF Opened
  <2>17. ASSUME NEW p \in 1 .. Len(stream'), stream'[p].of[2] = 1
         PROVE  Opened(stream', stream'[p].of[1], p)
    <3>1. /\ p + c \in 1 .. Len(stream) /\ stream'[p] = stream[p + c]
          /\ stream[p + c].of # <<m, 1>> /\ stream[p + c].of[2] = 1
      BY <2>12, <2>17
    <3>2. stream[p + c].of = <<stream[p + c].of[1], stream[p + c].of[2]>>
      BY <1>8, <3>1, EndFacts DEF M, I
    <3>3. stream[p + c].of[1] # m
      BY <3>1, <3>2
    <3>4. Opened(stream, stream[p + c].of[1], p + c)
      BY <2>5, <2>6, <3>1, <3>3 DEF AtBody, M, I
    <3>5. p \in 1 .. Len(stream') + 1
      BY <1>6
    <3>6. QED
      BY <2>16, <3>1, <3>4, <3>5
  <2>18. ASSUME NEW x \in Writers, half[x]
         PROVE  Opened(stream', <<x, next[x]>>, Len(stream') + 1)
    <3>1. <<x, next[x]>> # m
      <4>1. m[2] < next[m[1]] \/ I(stream, 1) <= 0
        BY <1>0, <1>8, <2>3 DEF StreamInv
      <4>2. m[2] < next[m[1]]
        BY <2>3, <4>1
      <4>3. next[x] \in Nat
        BY <1>0 DEF TypeInv
      <4>4. QED
        BY <4>2, <4>3
    <3>2. Opened(stream, <<x, next[x]>>, Len(stream) + 1)
      BY <2>5, <2>6, <2>18, <3>1 DEF AtBody
    <3>3. Len(stream) + 1 = (Len(stream') + 1) + c /\ Len(stream') + 1 \in 1 .. Len(stream') + 1
      BY <1>4, <1>6, <1>8
    <3>4. QED
      BY <2>16, <3>2, <3>3
  <2>19. AtFrame'
    BY <1>2, <1>7, <2>4, <2>14, <2>15, <2>17, <2>18 DEF AtFrame, M, I, Opened
  <2>20. QED
    BY <1>5, <2>11, <2>13, <2>19 DEF Inv, ReaderInv
<1>12. QED
  BY <1>10, <1>11

-----------------------------------------------------------------------------
(***************************************************************************)
(* The theorem.                                                             *)
(***************************************************************************)

(* The connection is new: nothing is written, nothing read. *)
LEMMA InitInv == Init => Inv
<1> SUFFICES ASSUME Init PROVE Inv
  OBVIOUS
<1>1. /\ link \in Links /\ stream = <<>> /\ arrived = 0 /\ rpc = "length" /\ want = 0
      /\ next = [w \in Writers |-> 1] /\ half = [w \in Writers |-> FALSE]
      /\ sent = <<>> /\ delivered = <<>> /\ Len(stream) = 0 /\ Len(sent) = 0
      /\ Len(delivered) = 0
  BY DEF Init
<1>2. TypeInv
  BY <1>1 DEF TypeInv
<1>3. StreamInv
  BY <1>1 DEF StreamInv, Chunks, Unique
<1>4. SentInv /\ DeliveredInv
  BY <1>1 DEF SentInv, DeliveredInv
<1>5. TolerantInv
  BY <1>1 DEF TolerantInv
<1>6. AtFrame
  BY <1>1 DEF AtFrame, Found, AtStart
<1>7. QED
  BY <1>2, <1>3, <1>4, <1>5, <1>6 DEF Inv, ReaderInv

(* What has been delivered is the beginning of what was sent. *)
LEMMA InvImplies == Inv => NothingForged
<1> SUFFICES ASSUME Inv PROVE NothingForged
  OBVIOUS
<1>1. /\ sent \in Seq(Msgs) /\ delivered \in Seq(Msgs) /\ Len(delivered) <= Len(sent)
      /\ \A k \in 1 .. Len(delivered) : delivered[k] = sent[k]
  BY DEF Inv, TypeInv, DeliveredInv
<1>2. Len(delivered) \in Nat /\ Len(sent) \in Nat
  BY <1>1
<1>3. delivered = SubSeq(sent, 1, Len(delivered))
  BY <1>1, <1>2
<1>4. QED
  BY <1>1, <1>2, <1>3 DEF NothingForged, IsPrefix

(* For every base, limit and set of links: whatever pieces the stream arrives *)
(* in and however the writers interleave, readMessage and readMsg return what *)
(* writeMessage and writeMsg wrote, in that order and without a gap, and a    *)
(* reader that has lost the frame decodes nothing more.                       *)
THEOREM NothingIsForged == Spec => []NothingForged
<1>1. Inv /\ [Next]_vars => Inv'
  <2> SUFFICES ASSUME Inv, [Next]_vars PROVE Inv'
    OBVIOUS
  <2>1. ASSUME NEW w \in Writers, WriteLength(w) PROVE Inv'
    BY <2>1, WriteLengthKeeps
  <2>2. ASSUME NEW w \in Writers, WriteBody(w) PROVE Inv'
    BY <2>2, WriteBodyKeeps
  <2>3. CASE Arrive
    <3>1. PICK n \in arrived + 1 .. Len(stream) : arrived' = n
      BY <2>3 DEF Arrive
    <3>2. arrived' \in 0 .. Len(stream)
      BY <3>1 DEF Inv, TypeInv
    <3>3. QED
      BY <2>3, <3>2, ArriveKeeps DEF Arrive
  <2>4. CASE ReadLength
    BY <2>4, ReadLengthKeeps
  <2>5. CASE ReadBody
    BY <2>5, ReadBodyKeeps
  <2>6. CASE UNCHANGED vars
    <3>1. UNCHANGED <<link, stream, next, half, rpc, want, sent, delivered>>
          /\ arrived' \in 0 .. Len(stream)
      BY <2>6 DEF vars, Inv, TypeInv
    <3>2. QED
      BY <3>1, ArriveKeeps
  <2>7. QED
    BY <2>1, <2>2, <2>3, <2>4, <2>5, <2>6 DEF Next, Writer, Reader, Terminated
<1>2. QED
  BY <1>1, InitInv, InvImplies, PTL DEF Spec

=============================================================================
