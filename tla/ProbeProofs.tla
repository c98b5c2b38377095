---------------------------- MODULE ProbeProofs -----------------------------
(***************************************************************************)
(* Proofs about Probe: the header survives the bytes, so the receiver tells  *)
(* the probes of its test from everything else that reaches its socket, and  *)
(* its result is about just the probes that were read; and the sender's      *)
(* result is about the packets that were written.                            *)
(***************************************************************************)
EXTENDS Probe, SlicesProofs, TLAPS

-----------------------------------------------------------------------------
(***************************************************************************)
(* The bytes of a number.                                                   *)
(***************************************************************************)

(* What a digit and the rest of a number are. *)
LEMMA DivMod ==
    ASSUME NEW v \in Nat, NEW d, d = v \div Base, NEW r, r = v % Base
    PROVE  d \in Nat /\ r \in Nat /\ d * Base + r = v
<1>1. Base \in Nat /\ Base > 0
  BY ProbeAssumption
<1>2. d \in Nat /\ r \in Nat
  BY <1>1
<1>3. QED
  BY <1>1, <1>2

(* s is v shifted by 0, 1, ... 8 bytes. *)
Shifts(s, v) ==
    /\ \A k \in 0 .. 8 : s[k] \in Nat /\ s[k] = ShiftRight(v, k)
    /\ s[0] = v
    /\ \A k \in 1 .. 8 : s[k] = s[k - 1] \div Base

(* ShiftRight drops a byte after the other. *)
LEMMA ShiftRightSteps ==
    ASSUME NEW v \in Nat
    PROVE  \E s : Shifts(s, v)
<1> DEFINE N == 8
           A == Nat
           G == [x \in A \X (1 .. N) |-> x[1] \div Base]
           Body(g, n) == IF n = 0 THEN v ELSE g[n - 1] \div Base
           Solves(g) == g = [n \in 0 .. N |-> Body(g, n)]
           c == CHOOSE g : Solves(g)
<1>1. \A k : ShiftRight(v, k) = c[k]
  BY DEF ShiftRight
<1> HIDE DEF c
<1>2. G \in [A \X (1 .. N) -> A]
  BY DivMod
<1>3. PICK f \in [0 .. N -> A] : Iterates(f, v, N, G)
  <2> HIDE DEF A, N, G
  <2>1. v \in A /\ N \in Nat
    BY DEF A, N
  <2>2. QED
    BY <1>2, <2>1, RecursionExists
<1>4. f[0] = v /\ \A n \in 1 .. N : f[n] = f[n - 1] \div Base
  <2>1. f[0] = v /\ \A n \in 1 .. N : f[n] = G[<<f[n - 1], n>>]
    BY <1>3 DEF Iterates
  <2>2. ASSUME NEW n \in 1 .. N PROVE f[n] = f[n - 1] \div Base
    <3>1. f[n - 1] \in A
      OBVIOUS
    <3>2. G[<<f[n - 1], n>>] = f[n - 1] \div Base
      BY <3>1
    <3>3. QED
      BY <2>1, <3>2
  <2>3. QED
    BY <2>1, <2>2
<1>5. Solves(f)
  <2>1. ASSUME NEW n \in 0 .. N PROVE f[n] = Body(f, n)
    BY <1>4
  <2>2. f = [n \in 0 .. N |-> f[n]]
    OBVIOUS
  <2>3. QED
    <3> HIDE DEF Body
    <3>1. QED
      BY <2>1, <2>2
<1>6. Solves(c)
  <2> HIDE DEF Solves
  <2>1. QED
    BY <1>5 DEF c
<1>7. \A n \in 0 .. N : c[n] = Body(c, n)
  <2> HIDE DEF Body
  <2>1. QED
    BY <1>6
<1>8. c[0] = v /\ \A n \in 1 .. N : c[n] = c[n - 1] \div Base
  BY <1>7
<1>9. \A n \in 0 .. N : c[n] = f[n]
  <2>1. \A n \in 1 .. N : c[n - 1] \in A => c[n] = G[<<c[n - 1], n>>]
    BY <1>8
  <2>2. QED
    <3> HIDE DEF A, N, G
    <3>1. v \in A /\ N \in Nat
      BY DEF A, N
    <3>2. QED
      BY <1>3, <1>8, <2>1, <3>1, RecursionUnique, SMTT(30)
<1>10. QED
  BY <1>1, <1>8, <1>9 DEF Shifts

(* The w bytes of data from o are those of v, the most significant first. *)
Written(data, o, w, v) == \A k \in 0 .. w - 1 : data[o + k] = Byte(v, w - 1 - k)

(* A byte of a number is a number. *)
LEMMA ByteNat ==
    ASSUME NEW v \in Nat, NEW k \in 0 .. 8
    PROVE  Byte(v, k) \in Nat
<1>1. PICK s : Shifts(s, v)
  BY ShiftRightSteps
<1>2. ShiftRight(v, k) \in Nat
  BY <1>1 DEF Shifts
<1>3. QED
  BY <1>2, DivMod DEF Byte

(* u is what has been read of the w bytes of data from o after 0, 1, ... w  *)
(* of them.                                                                 *)
Reads(u, data, o, w) ==
    /\ \A n \in 0 .. w : u[n] \in Nat
    /\ u[0] = 0
    /\ \A n \in 1 .. w : u[n] = u[n - 1] * Base + data[o + n - 1]
    /\ Uint(data, o, w) = u[w]

(* Uint takes in a byte after the other. *)
LEMMA UintSteps ==
    ASSUME NEW data, NEW o \in Nat, NEW w \in Nat,
           \A n \in 1 .. w : data[o + n - 1] \in Nat
    PROVE  \E u : Reads(u, data, o, w)
<1> DEFINE A == Nat
           z == 0
           G == [x \in A \X (1 .. w) |-> x[1] * Base + data[o + x[2] - 1]]
           Body(g, n) == IF n = 0 THEN 0 ELSE g[n - 1] * Base + data[o + n - 1]
           Solves(g) == g = [n \in 0 .. w |-> Body(g, n)]
           c == CHOOSE g : Solves(g)
<1>1. Uint(data, o, w) = c[w]
  BY DEF Uint
<1> HIDE DEF c
<1>a. \A a, b \in Nat : a * Base + b \in Nat
  BY ProbeAssumption
<1>2. G \in [A \X (1 .. w) -> A]
  <2>1. ASSUME NEW x \in A \X (1 .. w) PROVE x[1] * Base + data[o + x[2] - 1] \in A
    <3>1. x[1] \in Nat /\ data[o + x[2] - 1] \in Nat
      OBVIOUS
    <3>2. QED
      BY <1>a, <3>1
  <2>2. QED
    BY <2>1
<1>3. PICK f \in [0 .. w -> A] : Iterates(f, z, w, G)
  <2>1. z \in A
    OBVIOUS
  <2> HIDE DEF A, G, z
  <2>2. QED
    BY <1>2, <2>1, RecursionExists
<1>4. f[0] = 0 /\ \A n \in 1 .. w : f[n] = f[n - 1] * Base + data[o + n - 1]
  <2>1. f[0] = 0 /\ \A n \in 1 .. w : f[n] = G[<<f[n - 1], n>>]
    BY <1>3 DEF Iterates
  <2>2. ASSUME NEW n \in 1 .. w PROVE f[n] = f[n - 1] * Base + data[o + n - 1]
    <3>1. <<f[n - 1], n>> \in A \X (1 .. w)
      OBVIOUS
    <3>2. G[<<f[n - 1], n>>] = f[n - 1] * Base + data[o + n - 1]
      BY <3>1
    <3>3. QED
      BY <2>1, <3>2
  <2>3. QED
    BY <2>1, <2>2
<1>5. Solves(f)
  <2>1. ASSUME NEW n \in 0 .. w PROVE f[n] = Body(f, n)
    <3>1. CASE n = 0
      BY <1>4, <3>1
    <3>2. CASE n # 0
      <4>1. n \in 1 .. w
        BY <3>2
      <4>2. QED
        BY <1>4, <3>2, <4>1
    <3>3. QED
      BY <3>1, <3>2
  <2>2. f = [n \in 0 .. w |-> f[n]]
    OBVIOUS
  <2>3. QED
    <3> HIDE DEF Body
    <3>1. QED
      BY <2>1, <2>2
<1>6. Solves(c)
  <2> HIDE DEF Solves
  <2>1. QED
    BY <1>5 DEF c
<1>7. \A n \in 0 .. w : c[n] = Body(c, n)
  <2> HIDE DEF Body
  <2>1. QED
    BY <1>6
<1>8. c[0] = 0 /\ \A n \in 1 .. w : c[n] = c[n - 1] * Base + data[o + n - 1]
  <2>1. ASSUME NEW n \in 1 .. w PROVE c[n] = c[n - 1] * Base + data[o + n - 1]
    <3>1. n # 0 /\ c[n] = Body(c, n)
      BY <1>7
    <3>2. QED
      BY <3>1
  <2>2. QED
    BY <1>7, <2>1
<1>9. \A n \in 0 .. w : c[n] = f[n]
  <2>1. \A n \in 1 .. w : c[n - 1] \in A => c[n] = G[<<c[n - 1], n>>]
    <3>1. ASSUME NEW n \in 1 .. w, c[n - 1] \in A PROVE c[n] = G[<<c[n - 1], n>>]
      <4>1. <<c[n - 1], n>> \in A \X (1 .. w)
        BY <3>1
      <4>2. G[<<c[n - 1], n>>] = c[n - 1] * Base + data[o + n - 1]
        BY <4>1
      <4>3. QED
        BY <1>8, <4>2
    <3>2. QED
      BY <3>1
  <2>2. z \in A /\ c[0] = z
    BY <1>8
  <2>3. QED
    <3> HIDE DEF A, G, z
    <3>1. QED
      BY <1>3, <2>1, <2>2, RecursionUnique
<1>10. QED
  BY <1>1, <1>8, <1>9 DEF Reads

(* Bytes that are numbers stand for a number. *)
LEMMA UintNat ==
    ASSUME NEW data, NEW o \in Nat, NEW w \in Nat,
           \A n \in 1 .. w : data[o + n - 1] \in Nat
    PROVE  Uint(data, o, w) \in Nat
<1>1. PICK u : Reads(u, data, o, w)
  BY UintSteps
<1>2. QED
  BY <1>1 DEF Reads

(* A number that fits into w bytes is read as it was written. *)
LEMMA RoundTrip ==
    ASSUME NEW data, NEW o \in Nat, NEW w \in 0 .. 8, NEW v, Fits(v, w),
           Written(data, o, w, v)
    PROVE  Uint(data, o, w) = v
<1>1. v \in Nat
  BY DEF Fits
<1>2. PICK s : Shifts(s, v)
  BY <1>1, ShiftRightSteps
<1>3. s[0] = v /\ s[w] = 0 /\ (\A k \in 0 .. 8 : s[k] \in Nat)
      /\ \A k \in 1 .. 8 : s[k] = s[k - 1] \div Base
  BY <1>2 DEF Shifts, Fits
<1>4. \A n \in 1 .. w : data[o + n - 1] = s[w - n] % Base
  <2>1. ASSUME NEW n \in 1 .. w PROVE data[o + n - 1] = s[w - n] % Base
    <3>1. /\ n - 1 \in 0 .. w - 1 /\ o + (n - 1) = o + n - 1 /\ w - 1 - (n - 1) = w - n
          /\ w - n \in 0 .. 8
      OBVIOUS
    <3>2. data[o + (n - 1)] = Byte(v, w - 1 - (n - 1))
      BY <3>1 DEF Written
    <3>3. ShiftRight(v, w - n) = s[w - n]
      BY <1>2, <3>1 DEF Shifts
    <3>4. QED
      BY <3>1, <3>2, <3>3 DEF Byte
  <2>2. QED
    BY <2>1
<1>5. \A n \in 1 .. w : data[o + n - 1] \in Nat
  <2>1. ASSUME NEW n \in 1 .. w PROVE data[o + n - 1] \in Nat
    <3>1. s[w - n] \in Nat /\ data[o + n - 1] = s[w - n] % Base
      BY <1>3, <1>4
    <3>2. QED
      BY <3>1, DivMod
  <2>2. QED
    BY <2>1
<1>6. PICK u : Reads(u, data, o, w)
  <2>1. w \in Nat
    OBVIOUS
  <2>2. QED
    BY <1>5, <2>1, UintSteps
<1> DEFINE P == {n \in Nat : n <= w => u[n] = s[w - n]}
<1>7. 0 \in P
  BY <1>3, <1>6 DEF Reads
<1>8. ASSUME NEW n \in Nat, n \in P PROVE n + 1 \in P
  <2> SUFFICES ASSUME n + 1 <= w PROVE u[n + 1] = s[w - (n + 1)]
    OBVIOUS
  <2>1. /\ n + 1 \in 1 .. w /\ (n + 1) - 1 = n /\ u[n] = s[w - n]
        /\ w - n \in 1 .. 8 /\ (w - n) - 1 = w - (n + 1) /\ w - (n + 1) \in 0 .. 8
    BY <1>8
  <2>2. u[n + 1] = u[(n + 1) - 1] * Base + data[o + (n + 1) - 1]
    BY <1>6, <2>1 DEF Reads
  <2>3. data[o + (n + 1) - 1] = s[w - (n + 1)] % Base
    BY <1>4, <2>1
  <2>4. s[w - n] = s[(w - n) - 1] \div Base
    BY <1>3, <2>1
  <2>5. s[w - (n + 1)] \in Nat
    BY <1>3, <2>1
  <2>6. s[w - n] * Base + data[o + (n + 1) - 1] = s[w - (n + 1)]
    BY <2>1, <2>3, <2>4, <2>5, DivMod
  <2>7. QED
    BY <2>1, <2>2, <2>6
<1>9. Nat \subseteq P
  <2> HIDE DEF P
  <2>1. QED
    BY <1>7, <1>8, Induction
<1>10. u[w] = s[0]
  <2>1. w \in P /\ w - w = 0
    BY <1>9
  <2>2. QED
    BY <2>1
<1>11. QED
  BY <1>3, <1>6, <1>10 DEF Reads

-----------------------------------------------------------------------------
(***************************************************************************)
(* The header.                                                              *)
(***************************************************************************)

(* MarshalBinary writes a field of the header at its offset, and nothing     *)
(* else there.                                                              *)
LEMMA Marshalled ==
    ASSUME NEW h \in Header, NEW m, m = MarshalBinary(h)
    PROVE  /\ \A b \in 0 .. 47 : m[b] \in Nat
           /\ Written(m, 0, 1, h.Version) /\ Written(m, 4, 4, h.SessionID)
           /\ Written(m, 8, 4, h.TestID) /\ Written(m, 12, 1, h.Direction)
           /\ Written(m, 13, 1, h.Family) /\ Written(m, 18, 4, h.Sequence)
<1>1. \A b \in 0 .. 47 : m[b] =
        CASE b = 0          -> Byte(h.Version, 0)
          [] b \in 4 .. 7   -> Byte(h.SessionID, 7 - b)
          [] b \in 8 .. 11  -> Byte(h.TestID, 11 - b)
          [] b = 12         -> Byte(h.Direction, 0)
          [] b = 13         -> Byte(h.Family, 0)
          [] b \in 14 .. 15 -> Byte(h.UDPPort, 15 - b)
          [] b \in 16 .. 17 -> Byte(h.PayloadSize, 17 - b)
          [] b \in 18 .. 21 -> Byte(h.Sequence, 21 - b)
          [] b \in 22 .. 29 -> Byte(h.SendUnixNano, 29 - b)
          [] OTHER          -> 0
  BY DEF MarshalBinary, ProbeHeaderSize
<1>2. /\ h.Version \in Nat /\ h.SessionID \in Nat /\ h.TestID \in Nat
      /\ h.Direction \in Nat /\ h.Family \in Nat /\ h.UDPPort \in Nat
      /\ h.PayloadSize \in Nat /\ h.Sequence \in Nat /\ h.SendUnixNano \in Nat
  BY DEF Header
<1>3. ASSUME NEW b \in 0 .. 47 PROVE m[b] \in Nat
  <2>1. \A v \in Nat, k \in 0 .. 8 : Byte(v, k) \in Nat
    BY ByteNat
  <2>2. QED
    BY <1>1, <1>2, <2>1
<1>4. Written(m, 0, 1, h.Version)
  BY <1>1 DEF Written
<1>5. Written(m, 4, 4, h.SessionID)
  <2>1. ASSUME NEW k \in 0 .. 3 PROVE m[4 + k] = Byte(h.SessionID, 4 - 1 - k)
    <3>1. 4 + k \in 4 .. 7 /\ 4 + k \in 0 .. 47 /\ 7 - (4 + k) = 4 - 1 - k
      OBVIOUS
    <3>2. QED
      BY <1>1, <3>1
  <2>2. QED
    BY <2>1 DEF Written
<1>6. Written(m, 8, 4, h.TestID)
  <2>1. ASSUME NEW k \in 0 .. 3 PROVE m[8 + k] = Byte(h.TestID, 4 - 1 - k)
    <3>1. 8 + k \in 8 .. 11 /\ 8 + k \in 0 .. 47 /\ 11 - (8 + k) = 4 - 1 - k
      OBVIOUS
    <3>2. QED
      BY <1>1, <3>1
  <2>2. QED
    BY <2>1 DEF Written
<1>7. Written(m, 12, 1, h.Direction)
  BY <1>1 DEF Written
<1>8. Written(m, 13, 1, h.Family)
  BY <1>1 DEF Written
<1>9. Written(m, 18, 4, h.Sequence)
  <2>1. ASSUME NEW k \in 0 .. 3 PROVE m[18 + k] = Byte(h.Sequence, 4 - 1 - k)
    <3>1. 18 + k \in 18 .. 21 /\ 18 + k \in 0 .. 47 /\ 21 - (18 + k) = 4 - 1 - k
      OBVIOUS
    <3>2. QED
      BY <1>1, <3>1
  <2>2. QED
    BY <2>1 DEF Written
<1>10. QED
  BY <1>3, <1>4, <1>5, <1>6, <1>7, <1>8, <1>9

(* What UnmarshalBinary makes of the bytes of a header: a header, and of     *)
(* every field that fits, the same.                                          *)
LEMMA HeaderSurvives ==
    ASSUME NEW h \in Header, NEW g, g = UnmarshalBinary(MarshalBinary(h))
    PROVE  /\ g \in Header
           /\ Fits(h.Version, 1) => g.Version = h.Version
           /\ Fits(h.Direction, 1) => g.Direction = h.Direction
           /\ Fits(h.Family, 1) => g.Family = h.Family
           /\ Fits(h.SessionID, 4) => g.SessionID = h.SessionID
           /\ Fits(h.TestID, 4) => g.TestID = h.TestID
           /\ Fits(h.Sequence, 4) => g.Sequence = h.Sequence
<1>1. PICK m : m = MarshalBinary(h)
  OBVIOUS
<1>2. /\ \A b \in 0 .. 47 : m[b] \in Nat
      /\ Written(m, 0, 1, h.Version) /\ Written(m, 4, 4, h.SessionID)
      /\ Written(m, 8, 4, h.TestID) /\ Written(m, 12, 1, h.Direction)
      /\ Written(m, 13, 1, h.Family) /\ Written(m, 18, 4, h.Sequence)
  BY <1>1, Marshalled
<1>3. ASSUME NEW o \in 0 .. 22, NEW w \in 0 .. 8 PROVE Uint(m, o, w) \in Nat
  <2>1. \A n \in 1 .. w : m[o + n - 1] \in Nat
    BY <1>2
  <2>2. o \in Nat /\ w \in Nat
    OBVIOUS
  <2>3. QED
    BY <2>1, <2>2, UintNat
<1>4. g = [Version     |-> Uint(m, 0, 1),  SessionID    |-> Uint(m, 4, 4),
           TestID      |-> Uint(m, 8, 4),  Direction    |-> Uint(m, 12, 1),
           Family      |-> Uint(m, 13, 1), UDPPort      |-> Uint(m, 14, 2),
           PayloadSize |-> Uint(m, 16, 2), Sequence     |-> Uint(m, 18, 4),
           SendUnixNano |-> Uint(m, 22, 8)]
  BY <1>1 DEF UnmarshalBinary
<1>5. g \in Header
  <2>1. /\ Uint(m, 0, 1) \in Nat /\ Uint(m, 4, 4) \in Nat /\ Uint(m, 8, 4) \in Nat
        /\ Uint(m, 12, 1) \in Nat /\ Uint(m, 13, 1) \in Nat /\ Uint(m, 14, 2) \in Nat
        /\ Uint(m, 16, 2) \in Nat /\ Uint(m, 18, 4) \in Nat /\ Uint(m, 22, 8) \in Nat
    BY <1>3
  <2>2. QED
    BY <1>4, <2>1 DEF Header
<1>6. Fits(h.Version, 1) => Uint(m, 0, 1) = h.Version
  BY <1>2, RoundTrip
<1>7. Fits(h.Direction, 1) => Uint(m, 12, 1) = h.Direction
  BY <1>2, RoundTrip
<1>8. Fits(h.Family, 1) => Uint(m, 13, 1) = h.Family
  BY <1>2, RoundTrip
<1>9. Fits(h.SessionID, 4) => Uint(m, 4, 4) = h.SessionID
  BY <1>2, RoundTrip
<1>10. Fits(h.TestID, 4) => Uint(m, 8, 4) = h.TestID
  BY <1>2, RoundTrip
<1>11. Fits(h.Sequence, 4) => Uint(m, 18, 4) = h.Sequence
  BY <1>2, RoundTrip
<1>12. QED
  BY <1>4, <1>5, <1>6, <1>7, <1>8, <1>9, <1>10, <1>11

(* 0 and 1, the values of a direction and a family, fit into a byte. *)
LEMMA BitFits == Fits(0, 1) /\ Fits(1, 1)
<1>1. ASSUME NEW v \in {0, 1} PROVE ShiftRight(v, 1) = 0
  <2>1. v \in Nat
    OBVIOUS
  <2>2. PICK s : Shifts(s, v)
    BY <2>1, ShiftRightSteps
  <2>3. s[0] = v /\ s[1] = ShiftRight(v, 1) /\ s[1] = s[1 - 1] \div Base
    BY <2>2 DEF Shifts
  <2>4. ShiftRight(v, 1) = v \div Base
    BY <2>3
  <2>5. Base \in Nat /\ Base > 1
    BY ProbeAssumption
  <2>6. v \div Base = 0
    BY <2>5
  <2>7. QED
    BY <2>4, <2>6
<1>2. QED
  BY <1>1 DEF Fits

-----------------------------------------------------------------------------
(***************************************************************************)
(* The least and the greatest of the sequence numbers.  R is "less" in the  *)
(* one loop and "greater" in the other, as a set of pairs.                  *)
(***************************************************************************)
Strict(R) ==
    /\ \A x \in Nat : <<x, x>> \notin R
    /\ \A x, y, z \in Nat : <<x, y>> \notin R /\ <<y, z>> \notin R => <<x, z>> \notin R
    /\ \A x, y \in Nat : <<x, y>> \in R => <<y, x>> \notin R

(* f is what the loop over s holds after 1, 2, ... Len(s) elements. *)
Holds(f, s, R) ==
    /\ \A k \in 1 .. Len(s) : f[k] \in Nat
    /\ f[1] = s[1]
    /\ \A k \in 2 .. Len(s) : f[k] = IF <<s[k], f[k - 1]>> \in R THEN s[k] ELSE f[k - 1]

(* m is in T, and none of T beats it. *)
Unbeaten(m, T, R) == m \in T /\ \A x \in T : <<x, m>> \notin R

(* There is such an f. *)
LEMMA HoldsExists ==
    ASSUME NEW s \in Seq(Nat), s # <<>>, NEW R
    PROVE  \E f : Holds(f, s, R)
<1> DEFINE N == Len(s)
           A == Nat
           a == s[1]
           G == [x \in A \X (1 .. N) |->
                    IF x[2] > 1 /\ <<s[x[2]], x[1]>> \in R THEN s[x[2]] ELSE x[1]]
<1>1. N \in Nat /\ N > 0 /\ a \in A /\ \A k \in 1 .. N : s[k] \in Nat
  OBVIOUS
<1>2. G \in [A \X (1 .. N) -> A]
  BY <1>1
<1>3. PICK f \in [0 .. N -> A] : Iterates(f, a, N, G)
  <2> HIDE DEF A, N, G, a
  <2>1. QED
    BY <1>1, <1>2, RecursionExists
<1>4. ASSUME NEW k \in 1 .. N
      PROVE  f[k] = IF k > 1 /\ <<s[k], f[k - 1]>> \in R THEN s[k] ELSE f[k - 1]
  <2>1. <<f[k - 1], k>> \in A \X (1 .. N)
    BY <1>1, SMTT(30)
  <2>2. f[k] = G[<<f[k - 1], k>>]
    BY <1>3 DEF Iterates
  <2>3. QED
    BY <2>1, <2>2
<1>5. f[0] = s[1]
  BY <1>3 DEF Iterates
<1>6. f[1] = s[1]
  <2>1. 1 \in 1 .. N /\ f[1 - 1] = s[1]
    BY <1>1, <1>5
  <2>2. QED
    BY <1>4, <2>1
<1>7. ASSUME NEW k \in 2 .. N
      PROVE  f[k] = IF <<s[k], f[k - 1]>> \in R THEN s[k] ELSE f[k - 1]
  <2>1. k \in 1 .. N /\ k > 1
    BY <1>1
  <2>2. QED
    BY <1>4, <2>1
<1>8. \A k \in 1 .. N : f[k] \in Nat
  BY <1>1
<1>9. QED
  BY <1>6, <1>7, <1>8 DEF Holds

(* It ends with an element that none beats. *)
LEMMA HoldsExtreme ==
    ASSUME NEW s \in Seq(Nat), s # <<>>, NEW R, Strict(R), NEW f, Holds(f, s, R)
    PROVE  Unbeaten(f[Len(s)], Range(s), R)
<1> DEFINE N == Len(s)
           Good(n) == /\ \E j \in 1 .. n + 1 : f[n + 1] = s[j]
                      /\ \A j \in 1 .. n + 1 : <<s[j], f[n + 1]>> \notin R
           P == {n \in Nat : n + 1 <= N => Good(n)}
<1>1. N \in Nat /\ N > 0 /\ (\A k \in 1 .. N : s[k] \in Nat) /\ DOMAIN s = 1 .. N
  OBVIOUS
<1>2. (\A k \in 1 .. N : f[k] \in Nat) /\ f[1] = s[1]
      /\ \A k \in 2 .. N : f[k] = IF <<s[k], f[k - 1]>> \in R THEN s[k] ELSE f[k - 1]
  BY DEF Holds
<1> HIDE DEF N
<1>3. 0 \in P
  BY <1>1, <1>2 DEF Strict
<1>4. ASSUME NEW n \in Nat, n \in P PROVE n + 1 \in P
  <2> SUFFICES ASSUME n + 2 <= N PROVE Good(n + 1)
    BY <1>1
  <2> DEFINE m == n + 2
  <2>1. /\ m \in 2 .. N /\ m \in 1 .. N /\ m - 1 = n + 1 /\ (n + 1) + 1 = m
        /\ n + 1 \in 1 .. N
    BY <1>1
  <2>2. Good(n)
    BY <1>4, <2>1
  <2>3. f[m] = IF <<s[m], f[m - 1]>> \in R THEN s[m] ELSE f[m - 1]
    BY <1>2, <2>1
  <2>4. f[n + 1] \in Nat /\ s[m] \in Nat /\ f[m] \in Nat
    BY <1>1, <1>2, <2>1
  <2> HIDE DEF m
  <2>5. \A j \in 1 .. m : j = m \/ j \in 1 .. n + 1
    BY <2>1
  <2>6. \A j \in 1 .. n + 1 : j \in 1 .. N /\ j \in 1 .. m
    BY <1>1, <2>1
  <2>7. m \in 1 .. m
    BY <2>1
  <2>8. CASE <<s[m], f[n + 1]>> \in R
    <3>1. f[m] = s[m]
      BY <2>1, <2>3, <2>8
    <3>2. <<f[n + 1], s[m]>> \notin R
      BY <2>4, <2>8 DEF Strict
    <3>3. ASSUME NEW j \in 1 .. m PROVE <<s[j], f[m]>> \notin R
      <4>1. CASE j = m
        BY <2>4, <3>1, <4>1 DEF Strict
      <4>2. CASE j \in 1 .. n + 1
        <5>1. <<s[j], f[n + 1]>> \notin R /\ s[j] \in Nat
          BY <1>1, <2>2, <2>6, <4>2
        <5>2. QED
          BY <2>4, <3>1, <3>2, <5>1 DEF Strict
      <4>3. QED
        BY <2>5, <4>1, <4>2
    <3>4. \E j \in 1 .. m : f[m] = s[j]
      BY <2>7, <3>1
    <3>5. QED
      BY <2>1, <3>3, <3>4
  <2>9. CASE <<s[m], f[n + 1]>> \notin R
    <3>1. f[m] = f[n + 1]
      BY <2>1, <2>3, <2>9
    <3>2. \A j \in 1 .. m : <<s[j], f[m]>> \notin R
      BY <2>2, <2>5, <2>9, <3>1
    <3>3. \E j \in 1 .. m : f[m] = s[j]
      BY <2>2, <2>6, <3>1
    <3>4. QED
      BY <2>1, <3>2, <3>3
  <2>10. QED
    BY <2>8, <2>9
<1>5. Nat \subseteq P
  <2> HIDE DEF P
  <2>1. QED
    BY <1>3, <1>4, Induction
<1>6. N - 1 \in P /\ (N - 1) + 1 = N
  BY <1>1, <1>5
<1>7. /\ \E j \in 1 .. N : f[N] = s[j]
      /\ \A j \in 1 .. N : <<s[j], f[N]>> \notin R
  BY <1>1, <1>6
<1>8. QED
  BY <1>1, <1>7 DEF Unbeaten, Range, N

(* minSeq returns the least of the numbers. *)
LEMMA minSeqCorrect ==
    ASSUME NEW s \in Seq(Nat), s # <<>>
    PROVE  minSeq(s) = Min(Range(s))
<1> DEFINE N == Len(s)
           R == {x \in Nat \X Nat : x[1] < x[2]}
           Body(g, k) == IF k = 1 THEN s[1] ELSE IF s[k] < g[k - 1] THEN s[k] ELSE g[k - 1]
           Solves(g) == g = [k \in 1 .. N |-> Body(g, k)]
           c == CHOOSE g : Solves(g)
<1>1. N \in Nat /\ N > 0 /\ \A k \in 1 .. N : s[k] \in Nat
  OBVIOUS
<1>2. minSeq(s) = c[N]
  BY DEF minSeq
<1> HIDE DEF c, N
<1>3. PICK f : Holds(f, s, R)
  BY HoldsExists
<1>4. /\ \A k \in 1 .. N : f[k] \in Nat
      /\ f[1] = s[1]
      /\ \A k \in 2 .. N : f[k] = IF s[k] < f[k - 1] THEN s[k] ELSE f[k - 1]
  <2>1. /\ \A k \in 1 .. N : f[k] \in Nat
        /\ f[1] = s[1]
        /\ \A k \in 2 .. N : f[k] = IF <<s[k], f[k - 1]>> \in R THEN s[k] ELSE f[k - 1]
    BY <1>3 DEF Holds, N
  <2>2. ASSUME NEW k \in 2 .. N
        PROVE  f[k] = IF s[k] < f[k - 1] THEN s[k] ELSE f[k - 1]
    <3>1. s[k] \in Nat /\ f[k - 1] \in Nat
      BY <1>1, <2>1
    <3>2. <<s[k], f[k - 1]>> \in R <=> s[k] < f[k - 1]
      BY <3>1
    <3>3. QED
      BY <2>1, <3>2
  <2>3. QED
    BY <2>1, <2>2
<1>5. Solves([k \in 1 .. N |-> f[k]])
  <2> DEFINE g == [k \in 1 .. N |-> f[k]]
  <2>1. ASSUME NEW k \in 1 .. N PROVE g[k] = Body(g, k)
    <3>1. CASE k = 1
      BY <1>4, <3>1
    <3>2. CASE k # 1
      <4>1. k \in 2 .. N /\ g[k] = f[k] /\ g[k - 1] = f[k - 1]
        BY <1>1, <3>2
      <4> HIDE DEF g
      <4>2. QED
        BY <1>4, <3>2, <4>1
    <3>3. QED
      BY <3>1, <3>2
  <2>2. QED
    <3> HIDE DEF Body
    <3>1. QED
      BY <2>1
<1>6. Solves(c)
  <2> HIDE DEF Solves
  <2>1. QED
    BY <1>5 DEF c
<1>7. \A k \in 1 .. N : c[k] = Body(c, k)
  <2> HIDE DEF Body
  <2>1. QED
    BY <1>6
<1>8. c[1] = s[1]
  BY <1>1, <1>7
<1>9. \A k \in 2 .. N : c[k] = IF s[k] < c[k - 1] THEN s[k] ELSE c[k - 1]
  <2>1. ASSUME NEW k \in 2 .. N PROVE c[k] = IF s[k] < c[k - 1] THEN s[k] ELSE c[k - 1]
    <3>1. k # 1 /\ c[k] = Body(c, k)
      BY <1>1, <1>7
    <3>2. QED
      BY <3>1
  <2>2. QED
    BY <2>1
<1> DEFINE P == {n \in Nat : n + 1 <= N => c[n + 1] = f[n + 1]}
<1>10. 0 \in P
  BY <1>4, <1>8
<1>11. ASSUME NEW n \in Nat, n \in P PROVE n + 1 \in P
  <2> SUFFICES ASSUME n + 2 <= N PROVE c[n + 2] = f[n + 2]
    BY <1>1
  <2>1. n + 2 \in 2 .. N /\ (n + 2) - 1 = n + 1 /\ c[n + 1] = f[n + 1]
    BY <1>1, <1>11
  <2>2. c[n + 2] = IF s[n + 2] < c[(n + 2) - 1] THEN s[n + 2] ELSE c[(n + 2) - 1]
    BY <1>9, <2>1
  <2>3. f[n + 2] = IF s[n + 2] < f[(n + 2) - 1] THEN s[n + 2] ELSE f[(n + 2) - 1]
    BY <1>4, <2>1
  <2>4. QED
    BY <2>1, <2>2, <2>3
<1>12. Nat \subseteq P
  <2> HIDE DEF P
  <2>1. QED
    BY <1>10, <1>11, Induction
<1>13. c[N] = f[N]
  <2>1. N - 1 \in P /\ (N - 1) + 1 = N
    BY <1>1, <1>12, SMTT(30)
  <2>2. QED
    BY <1>1, <2>1
<1>14. /\ \A x \in Nat : <<x, x>> \notin R
       /\ \A x, y, z \in Nat : <<x, y>> \notin R /\ <<y, z>> \notin R => <<x, z>> \notin R
       /\ \A x, y \in Nat : <<x, y>> \in R => <<y, x>> \notin R
  OBVIOUS
<1>15. f[N] \in Range(s) /\ \A x \in Range(s) : <<x, f[N]>> \notin R
  <2> HIDE DEF R
  <2>1. Strict(R)
    BY <1>14 DEF Strict
  <2>2. QED
    BY <1>3, <2>1, HoldsExtreme DEF N, Unbeaten
<1>16. Range(s) \subseteq Nat
  BY DEF Range
<1>17. f[N] \in Range(s) /\ \A x \in Range(s) : f[N] <= x
  <2>1. ASSUME NEW x \in Range(s) PROVE f[N] <= x
    <3>1. x \in Nat /\ f[N] \in Nat /\ <<x, f[N]>> \notin R
      BY <1>15, <1>16
    <3>2. QED
      BY <3>1
  <2>2. QED
    BY <1>15, <2>1
<1>18. Min(Range(s)) \in Range(s) /\ \A x \in Range(s) : Min(Range(s)) <= x
  BY <1>17 DEF Min
<1>19. Min(Range(s)) = f[N]
  <2>1. /\ Min(Range(s)) <= f[N] /\ f[N] <= Min(Range(s))
        /\ Min(Range(s)) \in Nat /\ f[N] \in Nat
    BY <1>16, <1>17, <1>18
  <2>2. QED
    BY <2>1
<1>20. QED
  BY <1>2, <1>13, <1>19

(* maxSeq returns the greatest of the numbers. *)
LEMMA maxSeqCorrect ==
    ASSUME NEW s \in Seq(Nat), s # <<>>
    PROVE  maxSeq(s) = Max(Range(s))
<1> DEFINE N == Len(s)
           R == {x \in Nat \X Nat : x[1] > x[2]}
           Body(g, k) == IF k = 1 THEN s[1] ELSE IF s[k] > g[k - 1] THEN s[k] ELSE g[k - 1]
           Solves(g) == g = [k \in 1 .. N |-> Body(g, k)]
           c == CHOOSE g : Solves(g)
<1>1. N \in Nat /\ N > 0 /\ \A k \in 1 .. N : s[k] \in Nat
  OBVIOUS
<1>2. maxSeq(s) = c[N]
  BY DEF maxSeq
<1> HIDE DEF c, N
<1>3. PICK f : Holds(f, s, R)
  BY HoldsExists
<1>4. /\ \A k \in 1 .. N : f[k] \in Nat
      /\ f[1] = s[1]
      /\ \A k \in 2 .. N : f[k] = IF s[k] > f[k - 1] THEN s[k] ELSE f[k - 1]
  <2>1. /\ \A k \in 1 .. N : f[k] \in Nat
        /\ f[1] = s[1]
        /\ \A k \in 2 .. N : f[k] = IF <<s[k], f[k - 1]>> \in R THEN s[k] ELSE f[k - 1]
    BY <1>3 DEF Holds, N
  <2>2. ASSUME NEW k \in 2 .. N
        PROVE  f[k] = IF s[k] > f[k - 1] THEN s[k] ELSE f[k - 1]
    <3>1. s[k] \in Nat /\ f[k - 1] \in Nat
      BY <1>1, <2>1
    <3>2. <<s[k], f[k - 1]>> \in R <=> s[k] > f[k - 1]
      BY <3>1
    <3>3. QED
      BY <2>1, <3>2
  <2>3. QED
    BY <2>1, <2>2
<1>5. Solves([k \in 1 .. N |-> f[k]])
  <2> DEFINE g == [k \in 1 .. N |-> f[k]]
  <2>1. ASSUME NEW k \in 1 .. N PROVE g[k] = Body(g, k)
    <3>1. CASE k = 1
      BY <1>4, <3>1
    <3>2. CASE k # 1
      <4>1. k \in 2 .. N /\ g[k] = f[k] /\ g[k - 1] = f[k - 1]
        BY <1>1, <3>2
      <4> HIDE DEF g
      <4>2. QED
        BY <1>4, <3>2, <4>1
    <3>3. QED
      BY <3>1, <3>2
  <2>2. QED
    <3> HIDE DEF Body
    <3>1. QED
      BY <2>1
<1>6. Solves(c)
  <2> HIDE DEF Solves
  <2>1. QED
    BY <1>5 DEF c
<1>7. \A k \in 1 .. N : c[k] = Body(c, k)
  <2> HIDE DEF Body
  <2>1. QED
    BY <1>6
<1>8. c[1] = s[1]
  BY <1>1, <1>7
<1>9. \A k \in 2 .. N : c[k] = IF s[k] > c[k - 1] THEN s[k] ELSE c[k - 1]
  <2>1. ASSUME NEW k \in 2 .. N PROVE c[k] = IF s[k] > c[k - 1] THEN s[k] ELSE c[k - 1]
    <3>1. k # 1 /\ c[k] = Body(c, k)
      BY <1>1, <1>7
    <3>2. QED
      BY <3>1
  <2>2. QED
    BY <2>1
<1> DEFINE P == {n \in Nat : n + 1 <= N => c[n + 1] = f[n + 1]}
<1>10. 0 \in P
  BY <1>4, <1>8
<1>11. ASSUME NEW n \in Nat, n \in P PROVE n + 1 \in P
  <2> SUFFICES ASSUME n + 2 <= N PROVE c[n + 2] = f[n + 2]
    BY <1>1
  <2>1. n + 2 \in 2 .. N /\ (n + 2) - 1 = n + 1 /\ c[n + 1] = f[n + 1]
    BY <1>1, <1>11
  <2>2. c[n + 2] = IF s[n + 2] > c[(n + 2) - 1] THEN s[n + 2] ELSE c[(n + 2) - 1]
    BY <1>9, <2>1
  <2>3. f[n + 2] = IF s[n + 2] > f[(n + 2) - 1] THEN s[n + 2] ELSE f[(n + 2) - 1]
    BY <1>4, <2>1
  <2>4. QED
    BY <2>1, <2>2, <2>3
<1>12. Nat \subseteq P
  <2> HIDE DEF P
  <2>1. QED
    BY <1>10, <1>11, Induction
<1>13. c[N] = f[N]
  <2>1. N - 1 \in P /\ (N - 1) + 1 = N
    BY <1>1, <1>12, SMTT(30)
  <2>2. QED
    BY <1>1, <2>1
<1>14. /\ \A x \in Nat : <<x, x>> \notin R
       /\ \A x, y, z \in Nat : <<x, y>> \notin R /\ <<y, z>> \notin R => <<x, z>> \notin R
       /\ \A x, y \in Nat : <<x, y>> \in R => <<y, x>> \notin R
  OBVIOUS
<1>15. f[N] \in Range(s) /\ \A x \in Range(s) : <<x, f[N]>> \notin R
  <2> HIDE DEF R
  <2>1. Strict(R)
    BY <1>14 DEF Strict
  <2>2. QED
    BY <1>3, <2>1, HoldsExtreme DEF N, Unbeaten
<1>16. Range(s) \subseteq Nat
  BY DEF Range
<1>17. f[N] \in Range(s) /\ \A x \in Range(s) : f[N] >= x
  <2>1. ASSUME NEW x \in Range(s) PROVE f[N] >= x
    <3>1. x \in Nat /\ f[N] \in Nat /\ <<x, f[N]>> \notin R
      BY <1>15, <1>16
    <3>2. QED
      BY <3>1
  <2>2. QED
    BY <1>15, <2>1
<1>18. Max(Range(s)) \in Range(s) /\ \A x \in Range(s) : Max(Range(s)) >= x
  BY <1>17 DEF Max
<1>19. Max(Range(s)) = f[N]
  <2>1. /\ Max(Range(s)) >= f[N] /\ f[N] >= Max(Range(s))
        /\ Max(Range(s)) \in Nat /\ f[N] \in Nat
    BY <1>16, <1>17, <1>18
  <2>2. QED
    BY <2>1
<1>20. QED
  BY <1>2, <1>13, <1>19

-----------------------------------------------------------------------------
(***************************************************************************)
(* The sender.                                                              *)
(***************************************************************************)

(* The packets written are numbered from 0, and the loop's counter is their *)
(* number; it has reached PacketCount when the loop is left.                *)
SendInv ==
    /\ i \in 0 .. PacketCount
    /\ written \in Seq(Nat) /\ Len(written) = i
    /\ \A k \in 1 .. i : written[k] = k - 1
    /\ spc = "done" => i = PacketCount

(* SendInv is inductive, whatever the network and the receiver do. *)
LEMMA SendInvHolds == Spec => []SendInv
<1>1. Init => SendInv
  BY ProbeAssumption DEF Init, SendInv
<1>2. SendInv /\ [Next]_vars => SendInv'
  <2> SUFFICES ASSUME SendInv, [Next]_vars PROVE SendInv'
    OBVIOUS
  <2> USE ProbeAssumption
  <2>1. CASE WriteTo
    <3>1. /\ i \in Nat /\ i < PacketCount /\ i' = i + 1 /\ written' = Append(written, i)
          /\ spc' # "done"
      BY <2>1 DEF WriteTo, SendInv
    <3>2. written' \in Seq(Nat) /\ Len(written') = i' /\ i' \in 0 .. PacketCount
      BY <3>1 DEF SendInv
    <3>3. ASSUME NEW k \in 1 .. i' PROVE written'[k] = k - 1
      <4>1. /\ written \in Seq(Nat) /\ Len(written) = i
            /\ \A n \in 1 .. i : written[n] = n - 1
        BY DEF SendInv
      <4>2. k = i + 1 \/ k \in 1 .. i
        BY <3>1
      <4>3. CASE k = i + 1
        BY <3>1, <4>1, <4>3
      <4>4. CASE k \in 1 .. i
        BY <3>1, <4>1, <4>4
      <4>5. QED
        BY <4>2, <4>3, <4>4
    <3>4. QED
      BY <3>1, <3>2, <3>3 DEF SendInv
  <2>2. CASE SendReturns
    BY <2>2 DEF SendReturns, SendInv
  <2>3. CASE ResolveFails \/ WriteFails \/ Sleep
    BY <2>3 DEF ResolveFails, WriteFails, Sleep, SendInv
  <2>4. CASE Receiver \/ Network \/ Owner \/ Terminated \/ UNCHANGED vars
    <3>1. UNCHANGED sender
      BY <2>4 DEF Receiver, Check, ReadFrom, ReadTimesOut, ReadFails, Network, Duplicate,
                  StrangerSends, Owner, Quit, WindowEnds, Close, Terminated, vars
    <3>2. QED
      BY <3>1 DEF SendInv, sender
  <2>5. QED
    BY <2>1, <2>2, <2>3, <2>4 DEF Next, Sender
<1>3. QED
  BY <1>1, <1>2, PTL DEF Spec

(* When Send returns a result, it has written as many packets as it says,    *)
(* numbered without a gap, for every number of packets.                      *)
THEOREM SentIsTrue == Spec => []SentTrue
<1>1. SendInv => SentTrue
  <2> SUFFICES ASSUME SendInv, spc = "done"
               PROVE  /\ Len(written) = SenderResult.Sent
                      /\ \A k \in DOMAIN written :
                           written[k] = SenderResult.SequenceStart + k - 1
                      /\ written # <<>> => Last(written) = SenderResult.SequenceEnd
    BY DEF SentTrue
  <2>1. /\ SenderResult.Sent = PacketCount /\ SenderResult.SequenceStart = 0
        /\ SenderResult.SequenceEnd = IF i = 0 THEN 0 ELSE i - 1
    BY DEF SenderResult
  <2>2. /\ i \in Nat /\ i = PacketCount /\ Len(written) = i /\ DOMAIN written = 1 .. i
        /\ \A k \in 1 .. i : written[k] = k - 1
    BY ProbeAssumption DEF SendInv
  <2>3. written # <<>> => i \in 1 .. i /\ i # 0
    BY <2>2 DEF SendInv
  <2>4. written # <<>> => Last(written) = SenderResult.SequenceEnd
    BY <2>1, <2>2, <2>3 DEF Last
  <2>5. QED
    BY <2>1, <2>2, <2>4
<1>2. QED
  BY <1>1, SendInvHolds, PTL

-----------------------------------------------------------------------------
(***************************************************************************)
(* The receiver.                                                            *)
(***************************************************************************)
From == {"probe", "stranger"} \X Nat \X Nat

Packet == [seq : Nat, header : Header, matched : BOOLEAN]

(* The receiver takes d for a probe of its test. *)
Taken(d) ==
    LET h == UnmarshalBinary(d.bytes)
    IN  d.n >= ProbeHeaderSize /\ Validate(h) /\ matchesExpected(h)

(* A datagram has a header, the receiver takes it for a probe of its test if *)
(* it is one, and finds the number it was sent with.                         *)
Recognised(d) ==
    /\ d = [from |-> d.from, bytes |-> d.bytes, n |-> d.n]
    /\ d.from \in From /\ d.n \in Nat
    /\ UnmarshalBinary(d.bytes) \in Header
    /\ d.from[1] = "probe" <=> Taken(d)
    /\ d.from[1] = "probe" => UnmarshalBinary(d.bytes).Sequence = d.from[2]

(* All datagrams in the network are recognised, and what the receiver has    *)
(* matched are the probes it has read, in the order in which it read them.   *)
ReceiveInv ==
    /\ plan \in Plans /\ i \in 0 .. PacketCount /\ clock \in Nat /\ strange \in Nat
    /\ \A d \in flight : Recognised(d)
    /\ log \in Seq(From) /\ received \in Seq(Packet)
    /\ matchedSeqs = ProbesRead

(* A probe of the sender is recognised. *)
LEMMA ProbeRecognised ==
    ASSUME plan \in Plans, i \in 0 .. PacketCount, clock \in Nat, NEW d,
           d = Datagram(<<"probe", i, 1>>, SetFromParams(i), packetSize)
    PROVE  Recognised(d)
<1> DEFINE h == SetFromParams(i)
           g == UnmarshalBinary(MarshalBinary(h))
<1>1. /\ plan.direction \in {0, 1} /\ plan.family \in {0, 1} /\ plan.size \in Nat
      /\ Test.SessionID \in Nat /\ Test.TestID \in Nat /\ Test.UDPPort \in Nat
  BY ProbeAssumption
<1>2. uint16(plan.size) \in Nat
  <2>1. Base * Base \in Nat /\ Base * Base > 0
    BY ProbeAssumption
  <2>2. QED
    BY <1>1, <2>1 DEF uint16
<1>3. /\ h \in Header /\ h.Version = 1 /\ h.Sequence = i
      /\ h.SessionID = Test.SessionID /\ h.TestID = Test.TestID
      /\ h.Direction = plan.direction /\ h.Family = plan.family
  BY <1>1, <1>2, ProbeAssumption DEF SetFromParams, Header, ProbeHeaderVersion
<1>4. /\ Fits(h.Version, 1) /\ Fits(h.Direction, 1) /\ Fits(h.Family, 1)
      /\ Fits(h.SessionID, 4) /\ Fits(h.TestID, 4) /\ Fits(h.Sequence, 4)
  BY <1>1, <1>3, BitFits, ProbeAssumption
<1>5. d = [from |-> <<"probe", i, 1>>, bytes |-> MarshalBinary(h), n |-> packetSize]
  BY DEF Datagram
<1>6. packetSize \in Nat /\ packetSize >= ProbeHeaderSize
  BY <1>2 DEF packetSize, ProbeHeaderSize
<1> HIDE DEF h
<1>7. /\ g \in Header /\ g.Version = 1 /\ g.Sequence = i
      /\ g.SessionID = Test.SessionID /\ g.TestID = Test.TestID
      /\ g.Direction = plan.direction /\ g.Family = plan.family
  BY <1>3, <1>4, HeaderSurvives
<1>8. UnmarshalBinary(d.bytes) = g /\ d.n = packetSize /\ d.from = <<"probe", i, 1>>
  BY <1>5
<1> HIDE DEF g
<1>9. Taken(d)
  BY <1>1, <1>6, <1>7, <1>8 DEF Taken, Validate, matchesExpected, ProbeHeaderVersion
<1>10. <<"probe", i, 1>> \in From
  BY ProbeAssumption DEF From
<1>11. d = [from |-> d.from, bytes |-> d.bytes, n |-> d.n]
  BY <1>5
<1>12. d.from[1] = "probe" /\ d.from[2] = i
  BY <1>8
<1>13. QED
  BY <1>6, <1>7, <1>8, <1>9, <1>10, <1>11, <1>12 DEF Recognised

(* So is the datagram of a stranger. *)
LEMMA StrangerRecognised ==
    ASSUME plan \in Plans, strange \in Nat, NEW s \in Strangers, NEW d,
           d = Datagram(<<"stranger", strange, 1>>, s.header, s.n)
    PROVE  Recognised(d)
<1> DEFINE h == s.header
           g == UnmarshalBinary(MarshalBinary(h))
<1>1. Strange(s)
  BY ProbeAssumption
<1>2. /\ h \in Header /\ s.n \in Nat
      /\ Fits(h.Version, 1) /\ Fits(h.Direction, 1) /\ Fits(h.Family, 1)
      /\ Fits(h.SessionID, 4) /\ Fits(h.TestID, 4)
  BY <1>1 DEF Strange
<1>3. \/ s.n < ProbeHeaderSize
      \/ ~Validate(h)
      \/ h.SessionID # Test.SessionID
      \/ h.TestID # Test.TestID
      \/ h.Direction # plan.direction \/ h.Family # plan.family
  BY <1>1 DEF Strange
<1>4. d = [from |-> <<"stranger", strange, 1>>, bytes |-> MarshalBinary(h), n |-> s.n]
  BY DEF Datagram
<1> HIDE DEF h
<1>5. /\ g \in Header /\ g.Version = h.Version
      /\ g.SessionID = h.SessionID /\ g.TestID = h.TestID
      /\ g.Direction = h.Direction /\ g.Family = h.Family
  BY <1>2, HeaderSurvives
<1>6. UnmarshalBinary(d.bytes) = g /\ d.n = s.n /\ d.from = <<"stranger", strange, 1>>
  BY <1>4
<1> HIDE DEF g
<1>7. ~Taken(d)
  <2>1. ProbeHeaderSize \in Nat
    BY DEF ProbeHeaderSize
  <2>2. QED
    BY <1>2, <1>3, <1>5, <1>6, <2>1 DEF Taken, Validate, matchesExpected
<1>8. <<"stranger", strange, 1>> \in From
  BY DEF From
<1>9. d = [from |-> d.from, bytes |-> d.bytes, n |-> d.n]
  BY <1>4
<1>10. d.from[1] # "probe"
  BY <1>6
<1>11. QED
  BY <1>2, <1>5, <1>6, <1>7, <1>8, <1>9, <1>10 DEF Recognised

(* So is a duplicate of a datagram. *)
LEMMA CopyRecognised ==
    ASSUME NEW d, Recognised(d), NEW k \in Nat, NEW e, e = Copy(d, k)
    PROVE  Recognised(e)
<1>1. /\ d = [from |-> d.from, bytes |-> d.bytes, n |-> d.n]
      /\ d.from \in From /\ d.n \in Nat
  BY DEF Recognised
<1>2. e = [from |-> <<d.from[1], d.from[2], k>>, bytes |-> d.bytes, n |-> d.n]
  BY <1>1 DEF Copy
<1>3. /\ e.bytes = d.bytes /\ e.n = d.n /\ e.from = <<d.from[1], d.from[2], k>>
      /\ e = [from |-> e.from, bytes |-> e.bytes, n |-> e.n]
  BY <1>2
<1>4. e.from \in From /\ e.from[1] = d.from[1] /\ e.from[2] = d.from[2]
  BY <1>1, <1>3 DEF From
<1>5. Taken(e) <=> Taken(d)
  BY <1>3 DEF Taken
<1>6. QED
  BY <1>3, <1>4, <1>5 DEF Recognised

(* The sequence numbers of the packets, and of what was read. *)
Seqs(r) == [k \in DOMAIN r |-> r[k].seq]
Matched(r) == {k \in DOMAIN r : r[k].matched}
Numbers(l) == [k \in DOMAIN l |-> l[k][2]]
Probes(l) == {k \in DOMAIN l : l[k][1] = "probe"}

(* One more packet received is one more matched number, or none. *)
LEMMA MatchedAppend ==
    ASSUME NEW r \in Seq(Packet), NEW x \in Packet
    PROVE  Selected(Seqs(Append(r, x)), Matched(Append(r, x))) =
             IF x.matched THEN Append(Selected(Seqs(r), Matched(r)), x.seq)
             ELSE Selected(Seqs(r), Matched(r))
<1> DEFINE s == Seqs(r)
           q == Append(r, x)
<1>1. /\ Len(r) \in Nat /\ DOMAIN r = 1 .. Len(r) /\ \A k \in 1 .. Len(r) : r[k] \in Packet
      /\ DOMAIN q = 1 .. Len(r) + 1 /\ q[Len(r) + 1] = x
      /\ \A k \in 1 .. Len(r) : q[k] = r[k]
  OBVIOUS
<1>2. x.seq \in Nat /\ \A k \in 1 .. Len(r) : r[k].seq \in Nat
  BY <1>1 DEF Packet
<1>3. s \in Seq(Nat) /\ Len(s) = Len(r)
  <2>1. /\ DOMAIN s = 1 .. Len(r) /\ s = [k \in 1 .. Len(r) |-> s[k]]
        /\ \A k \in 1 .. Len(r) : s[k] \in Nat
    BY <1>1, <1>2 DEF Seqs
  <2> HIDE DEF s
  <2>2. QED
    BY <1>1, <2>1, SeqByIndex
<1>4. Seqs(q) = Append(s, x.seq)
  <2>1. Seqs(q) = [k \in 1 .. Len(r) + 1 |-> q[k].seq]
    BY <1>1 DEF Seqs
  <2>2. /\ DOMAIN Append(s, x.seq) = 1 .. Len(r) + 1
        /\ Append(s, x.seq)[Len(r) + 1] = x.seq
        /\ \A k \in 1 .. Len(r) : Append(s, x.seq)[k] = s[k]
        /\ Append(s, x.seq) \in Seq(Nat)
    <3> HIDE DEF s
    <3>1. QED
      BY <1>2, <1>3
  <2>3. \A k \in 1 .. Len(r) : s[k] = r[k].seq
    BY <1>1 DEF Seqs
  <2>4. ASSUME NEW k \in 1 .. Len(r) + 1 PROVE q[k].seq = Append(s, x.seq)[k]
    <3>1. k = Len(r) + 1 \/ k \in 1 .. Len(r)
      BY <1>1
    <3> HIDE DEF s, q
    <3>2. QED
      BY <1>1, <2>2, <2>3, <3>1
  <2>5. Append(s, x.seq) = [k \in 1 .. Len(r) + 1 |-> Append(s, x.seq)[k]]
    <3> HIDE DEF s
    <3>1. QED
      BY <2>2
  <2>6. QED
    <3> HIDE DEF s, q
    <3>1. QED
      BY <2>1, <2>4, <2>5
<1>5. \A k \in 1 .. Len(s) : k \in Matched(r) <=> k \in Matched(q)
  BY <1>1, <1>3 DEF Matched
<1>6. Len(s) + 1 \in Matched(q) <=> x.matched
  BY <1>1, <1>3 DEF Matched
<1> HIDE DEF s, q
<1>7. Selected(Append(s, x.seq), Matched(q)) =
        IF Len(s) + 1 \in Matched(q) THEN Append(Selected(s, Matched(r)), x.seq)
        ELSE Selected(s, Matched(r))
  <2>1. ASSUME NEW y \in Nat, NEW K, NEW L, \A k \in 1 .. Len(s) : k \in K <=> k \in L
        PROVE  Selected(Append(s, y), L) =
                 IF Len(s) + 1 \in L THEN Append(Selected(s, K), y) ELSE Selected(s, K)
    BY <1>3, <2>1, SelectedAppend
  <2>2. QED
    BY <1>2, <1>5, <2>1, ZenonT(30)
<1>8. QED
  BY <1>4, <1>6, <1>7 DEF s, q

(* One more datagram read is one more number of a probe, or none. *)
LEMMA ProbesAppend ==
    ASSUME NEW l \in Seq(From), NEW x \in From
    PROVE  Selected(Numbers(Append(l, x)), Probes(Append(l, x))) =
             IF x[1] = "probe" THEN Append(Selected(Numbers(l), Probes(l)), x[2])
             ELSE Selected(Numbers(l), Probes(l))
<1> DEFINE s == Numbers(l)
           q == Append(l, x)
<1>1. /\ Len(l) \in Nat /\ DOMAIN l = 1 .. Len(l) /\ \A k \in 1 .. Len(l) : l[k] \in From
      /\ DOMAIN q = 1 .. Len(l) + 1 /\ q[Len(l) + 1] = x
      /\ \A k \in 1 .. Len(l) : q[k] = l[k]
  OBVIOUS
<1>2. x[2] \in Nat /\ \A k \in 1 .. Len(l) : l[k][2] \in Nat
  BY <1>1 DEF From
<1>3. s \in Seq(Nat) /\ Len(s) = Len(l)
  <2>1. /\ DOMAIN s = 1 .. Len(l) /\ s = [k \in 1 .. Len(l) |-> s[k]]
        /\ \A k \in 1 .. Len(l) : s[k] \in Nat
    BY <1>1, <1>2 DEF Numbers
  <2> HIDE DEF s
  <2>2. QED
    BY <1>1, <2>1, SeqByIndex
<1>4. Numbers(q) = Append(s, x[2])
  <2>1. Numbers(q) = [k \in 1 .. Len(l) + 1 |-> q[k][2]]
    BY <1>1 DEF Numbers
  <2>2. /\ DOMAIN Append(s, x[2]) = 1 .. Len(l) + 1
        /\ Append(s, x[2])[Len(l) + 1] = x[2]
        /\ \A k \in 1 .. Len(l) : Append(s, x[2])[k] = s[k]
        /\ Append(s, x[2]) \in Seq(Nat)
    <3> HIDE DEF s
    <3>1. QED
      BY <1>2, <1>3
  <2>3. \A k \in 1 .. Len(l) : s[k] = l[k][2]
    BY <1>1 DEF Numbers
  <2>4. ASSUME NEW k \in 1 .. Len(l) + 1 PROVE q[k][2] = Append(s, x[2])[k]
    <3>1. k = Len(l) + 1 \/ k \in 1 .. Len(l)
      BY <1>1
    <3> HIDE DEF s, q
    <3>2. QED
      BY <1>1, <2>2, <2>3, <3>1
  <2>5. Append(s, x[2]) = [k \in 1 .. Len(l) + 1 |-> Append(s, x[2])[k]]
    <3> HIDE DEF s
    <3>1. QED
      BY <2>2
  <2>6. QED
    <3> HIDE DEF s, q
    <3>1. QED
      BY <2>1, <2>4, <2>5
<1>5. \A k \in 1 .. Len(s) : k \in Probes(l) <=> k \in Probes(q)
  BY <1>1, <1>3 DEF Probes
<1>6. Len(s) + 1 \in Probes(q) <=> x[1] = "probe"
  BY <1>1, <1>3 DEF Probes
<1> HIDE DEF s, q
<1>7. Selected(Append(s, x[2]), Probes(q)) =
        IF Len(s) + 1 \in Probes(q) THEN Append(Selected(s, Probes(l)), x[2])
        ELSE Selected(s, Probes(l))
  <2>1. ASSUME NEW y \in Nat, NEW K, NEW L, \A k \in 1 .. Len(s) : k \in K <=> k \in L
        PROVE  Selected(Append(s, y), L) =
                 IF Len(s) + 1 \in L THEN Append(Selected(s, K), y) ELSE Selected(s, K)
    BY <1>3, <2>1, SelectedAppend
  <2>2. PICK y : y = x[2]
    OBVIOUS
  <2>3. y \in Nat
    BY <1>2, <2>2
  <2>4. Selected(Append(s, y), Probes(q)) =
          IF Len(s) + 1 \in Probes(q) THEN Append(Selected(s, Probes(l)), y)
          ELSE Selected(s, Probes(l))
    BY <1>5, <2>1, <2>3
  <2>5. QED
    BY <2>2, <2>4
<1>8. QED
  BY <1>4, <1>6, <1>7 DEF s, q

(* A datagram is read: what is matched remains what the probes read are. *)
LEMMA ReadKeepsInv ==
    ASSUME ReceiveInv, ReadFrom
    PROVE  ReceiveInv'
<1>1. PICK d \in flight :
        LET h == UnmarshalBinary(d.bytes)
        IN  /\ flight' = flight \ {d}
            /\ log' = Append(log, d.from)
            /\ received' = IF d.n >= ProbeHeaderSize /\ Validate(h)
                           THEN Append(received, [seq |-> h.Sequence, header |-> h,
                                                  matched |-> matchesExpected(h)])
                           ELSE received
  BY DEF ReadFrom
<1>2. UNCHANGED <<plan, sender, strange>>
  BY DEF ReadFrom
<1>3. PICK h : h = UnmarshalBinary(d.bytes)
  OBVIOUS
<1> DEFINE x == [seq |-> h.Sequence, header |-> h, matched |-> matchesExpected(h)]
           Valid == d.n >= ProbeHeaderSize /\ Validate(h)
<1>4. /\ flight' = flight \ {d} /\ log' = Append(log, d.from)
      /\ received' = IF Valid THEN Append(received, x) ELSE received
  BY <1>1, <1>3
<1>5. /\ h \in Header /\ d.from \in From
      /\ d.from[1] = "probe" <=> (Valid /\ matchesExpected(h))
      /\ d.from[1] = "probe" => h.Sequence = d.from[2]
  <2>1. Recognised(d)
    BY DEF ReceiveInv
  <2>2. QED
    BY <1>3, <2>1 DEF Recognised, Taken
<1>6. x \in Packet /\ x.seq = h.Sequence /\ (x.matched <=> matchesExpected(h))
  <2>1. matchesExpected(h) \in BOOLEAN
    BY Zenon DEF matchesExpected
  <2>2. h.Sequence \in Nat
    BY <1>5 DEF Header
  <2>3. QED
    BY <1>5, <2>1, <2>2 DEF Packet
<1>7. /\ log \in Seq(From) /\ received \in Seq(Packet)
      /\ Selected(Seqs(received), Matched(received)) = Selected(Numbers(log), Probes(log))
  BY DEF ReceiveInv, matchedSeqs, ProbesRead, Seqs, Matched, Numbers, Probes
<1> HIDE DEF x, Valid
<1>8. log' \in Seq(From) /\ received' \in Seq(Packet)
  BY <1>4, <1>5, <1>6, <1>7
<1>9. Selected(Numbers(log'), Probes(log')) =
        IF d.from[1] = "probe" THEN Append(Selected(Numbers(log), Probes(log)), d.from[2])
        ELSE Selected(Numbers(log), Probes(log))
  BY <1>4, <1>5, <1>7, ProbesAppend
<1>10. Selected(Seqs(Append(received, x)), Matched(Append(received, x))) =
         IF x.matched THEN Append(Selected(Seqs(received), Matched(received)), x.seq)
         ELSE Selected(Seqs(received), Matched(received))
  BY <1>6, <1>7, MatchedAppend
<1>11. Selected(Seqs(received'), Matched(received')) = Selected(Numbers(log'), Probes(log'))
  <2>1. CASE d.from[1] = "probe"
    <3>1. Valid /\ x.matched /\ x.seq = d.from[2]
      BY <1>5, <1>6, <2>1
    <3>2. QED
      BY <1>4, <1>7, <1>9, <1>10, <2>1, <3>1
  <2>2. CASE d.from[1] # "probe" /\ Valid
    <3>1. ~x.matched
      BY <1>5, <1>6, <2>2
    <3>2. QED
      BY <1>4, <1>7, <1>9, <1>10, <2>2, <3>1
  <2>3. CASE d.from[1] # "probe" /\ ~Valid
    BY <1>4, <1>7, <1>9, <2>3
  <2>4. QED
    BY <2>1, <2>2, <2>3
<1>12. matchedSeqs' = ProbesRead'
  BY <1>11 DEF matchedSeqs, ProbesRead, Seqs, Matched, Numbers, Probes
<1>13. \A e \in flight' : Recognised(e)'
  <2>1. ASSUME NEW e \in flight' PROVE Recognised(e)'
    <3>1. e \in flight /\ Recognised(e)
      BY <1>4 DEF ReceiveInv
    <3>2. QED
      BY <1>2, <3>1 DEF Recognised, Taken, matchesExpected
  <2>2. QED
    BY <2>1
<1>14. QED
  BY <1>2, <1>8, <1>12, <1>13 DEF ReceiveInv, sender

(* ReceiveInv is inductive. *)
LEMMA ReceiveInvHolds == Spec => []ReceiveInv
<1>1. Init => ReceiveInv
  <2> SUFFICES ASSUME Init PROVE ReceiveInv
    OBVIOUS
  <2>1. /\ plan \in Plans /\ i = 0 /\ clock = 0 /\ strange = 0 /\ flight = {}
        /\ log = <<>> /\ received = <<>>
    BY DEF Init
  <2>2. matchedSeqs = ProbesRead
    <3>1. DOMAIN received = {} /\ DOMAIN log = {}
      BY <2>1
    <3>2. /\ [k \in DOMAIN received |-> received[k].seq] = [k \in DOMAIN log |-> log[k][2]]
          /\ {k \in DOMAIN received : received[k].matched}
               = {k \in DOMAIN log : log[k][1] = "probe"}
      BY <3>1
    <3>3. QED
      BY <3>2 DEF matchedSeqs, ProbesRead
  <2>3. QED
    BY <2>1, <2>2, ProbeAssumption DEF ReceiveInv
<1>2. ReceiveInv /\ [Next]_vars => ReceiveInv'
  <2> SUFFICES ASSUME ReceiveInv, [Next]_vars PROVE ReceiveInv'
    OBVIOUS
  <2> USE ProbeAssumption
  <2>a. plan' = plan
    BY DEF Next, Sender, Receiver, Network, Owner, WriteTo, ResolveFails, WriteFails,
           Sleep, SendReturns, Check, ReadFrom, ReadTimesOut, ReadFails, Duplicate, StrangerSends, Quit,
           WindowEnds, Close, Terminated, vars
  <2>b. ASSUME NEW d, Recognised(d) PROVE Recognised(d)'
    BY <2>a, <2>b DEF Recognised, Taken, matchesExpected
  <2>c. ASSUME UNCHANGED <<log, received>> PROVE matchedSeqs' = ProbesRead'
    BY <2>c DEF ReceiveInv, matchedSeqs, ProbesRead
  <2>1. CASE WriteTo
    <3>1. PICK d : d = Datagram(<<"probe", i, 1>>, SetFromParams(i), packetSize)
      OBVIOUS
    <3>2. /\ flight' = flight \cup {d} /\ i < PacketCount /\ i' = i + 1
          /\ UNCHANGED <<clock, strange, log, received>>
      BY <2>1, <3>1 DEF WriteTo, receiver
    <3>3. Recognised(d)
      BY <3>1, ProbeRecognised DEF ReceiveInv
    <3>4. \A e \in flight' : Recognised(e)'
      BY <2>b, <3>2, <3>3 DEF ReceiveInv
    <3>5. i' \in 0 .. PacketCount
      BY <3>2 DEF ReceiveInv
    <3>6. QED
      BY <2>a, <2>c, <3>2, <3>4, <3>5 DEF ReceiveInv
  <2>2. CASE Sleep
    <3>1. UNCHANGED <<i, flight, strange, log, received>>
      BY <2>2 DEF Sleep, receiver
    <3>2. clock' \in Nat
      <4>1. plan.interval \in Nat
        BY DEF ReceiveInv
      <4>2. plan.interval \div TicksPerMs \in Nat
        BY <4>1
      <4>3. QED
        BY <2>2, <4>2, SMTT(30) DEF Sleep, IntervalMs, ReceiveInv
    <3>3. \A e \in flight' : Recognised(e)'
      BY <2>b, <3>1 DEF ReceiveInv
    <3>4. QED
      BY <2>a, <2>c, <3>1, <3>2, <3>3 DEF ReceiveInv
  <2>3. CASE Duplicate
    <3>1. PICK d \in flight :
            flight' = (flight \ {d}) \cup {Copy(d, 2 * d.from[3]), Copy(d, 2 * d.from[3] + 1)}
      BY <2>3 DEF Duplicate
    <3>2. Recognised(d)
      BY DEF ReceiveInv
    <3>3. d.from[3] \in Nat
      BY <3>2 DEF Recognised, From
    <3>4. /\ Recognised(Copy(d, 2 * d.from[3]))
          /\ Recognised(Copy(d, 2 * d.from[3] + 1))
      <4>1. \A k \in Nat : Recognised(Copy(d, k))
        BY <3>2, CopyRecognised
      <4>2. 2 * d.from[3] \in Nat /\ 2 * d.from[3] + 1 \in Nat
        BY <3>3
      <4>3. QED
        BY <4>1, <4>2
    <3>5. UNCHANGED <<i, clock, strange, log, received>>
      BY <2>3 DEF Duplicate, sender, receiver
    <3>6. \A e \in flight' : Recognised(e)
      BY <3>1, <3>4 DEF ReceiveInv
    <3>7. \A e \in flight' : Recognised(e)'
      BY <2>b, <3>6
    <3>8. QED
      BY <2>a, <2>c, <3>5, <3>7 DEF ReceiveInv
  <2>4. CASE StrangerSends
    <3>1. PICK s \in Strangers :
            flight' = flight \cup {Datagram(<<"stranger", strange, 1>>, s.header, s.n)}
      BY <2>4 DEF StrangerSends
    <3>2. PICK d : d = Datagram(<<"stranger", strange, 1>>, s.header, s.n)
      OBVIOUS
    <3>3. Recognised(d)
      BY <3>2, StrangerRecognised DEF ReceiveInv
    <3>4. strange' \in Nat /\ UNCHANGED <<i, clock, log, received>>
      BY <2>4 DEF StrangerSends, sender, receiver, ReceiveInv
    <3>5. \A e \in flight' : Recognised(e)'
      BY <2>b, <3>1, <3>2, <3>3 DEF ReceiveInv
    <3>6. QED
      BY <2>a, <2>c, <3>4, <3>5 DEF ReceiveInv
  <2>5. CASE ReadFrom
    BY <2>5, ReadKeepsInv
  <2>6. CASE ResolveFails \/ WriteFails \/ SendReturns \/ Check \/ ReadTimesOut
             \/ ReadFails \/ Owner \/ Terminated \/ UNCHANGED vars
    <3>1. UNCHANGED <<i, clock, flight, strange, log, received>>
      BY <2>6 DEF ResolveFails, WriteFails, SendReturns, Check, ReadTimesOut, ReadFails,
                  Owner, Quit, WindowEnds, Close, Terminated, sender, receiver, vars
    <3>2. \A e \in flight' : Recognised(e)'
      BY <2>b, <3>1 DEF ReceiveInv
    <3>3. QED
      BY <2>a, <2>c, <3>1, <3>2 DEF ReceiveInv
  <2>7. QED
    BY <2>1, <2>2, <2>3, <2>4, <2>5, <2>6 DEF Next, Sender, Receiver, Network
<1>3. QED
  BY <1>1, <1>2, PTL DEF Spec

(* Receiver.Result is the truth about the probes that were read, whenever it *)
(* is asked for, for every number of packets and of duplicates, and whatever *)
(* else reaches the socket.                                                  *)
THEOREM ResultIsTrue == Spec => []ResultTrue
<1>1. ReceiveInv => ResultTrue
  <2> SUFFICES ASSUME ReceiveInv PROVE ResultTrue
    OBVIOUS
  <2>1. PICK s : s = ProbesRead
    OBVIOUS
  <2>2. matchedSeqs = s
    BY <2>1 DEF ReceiveInv
  <2>3. s \in Seq(Nat)
    <3> DEFINE t == [k \in DOMAIN log |-> log[k][2]]
               K == {k \in DOMAIN log : log[k][1] = "probe"}
    <3>1. log \in Seq(From)
      BY DEF ReceiveInv
    <3>2. Len(log) \in Nat /\ DOMAIN log = 1 .. Len(log)
          /\ \A k \in 1 .. Len(log) : log[k] \in From
      BY <3>1
    <3>3. /\ DOMAIN t = 1 .. Len(log) /\ t = [k \in 1 .. Len(log) |-> t[k]]
          /\ \A k \in 1 .. Len(log) : t[k] \in Nat
      BY <3>2 DEF From
    <3>4. s = Selected(t, K)
      BY <2>1 DEF ProbesRead
    <3> HIDE DEF t, K
    <3>5. t \in Seq(Nat)
      BY <3>2, <3>3, SeqByIndex
    <3>6. QED
      BY <3>4, <3>5, SelectedElements
  <2>4. /\ Result.Matched = Len(s)
        /\ s # <<>> => /\ Result.FirstSeq = s[1] /\ Result.LastSeq = s[Len(s)]
                       /\ Result.SequenceMin = minSeq(s) /\ Result.SequenceMax = maxSeq(s)
    BY <2>2 DEF Result
  <2>5. s # <<>> => minSeq(s) = Min(Range(s)) /\ maxSeq(s) = Max(Range(s))
    BY <2>3, minSeqCorrect, maxSeqCorrect
  <2>6. Len(s) > 0 => s # <<>>
    BY <2>3
  <2>7. QED
    BY <2>1, <2>4, <2>5, <2>6 DEF ResultTrue
<1>2. QED
  BY <1>1, ReceiveInvHolds, PTL

=============================================================================
