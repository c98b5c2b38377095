---------------------------- MODULE SlicesProofs ----------------------------
(***************************************************************************)
(* What sorting, selecting and flattening make of any sequence.             *)
(*                                                                          *)
(* These are recursive functions over the indices, and facts about them are *)
(* proved by induction on the length, in the form of the least-number       *)
(* principle for sets of naturals: the least length at which a fact fails   *)
(* is neither 0 nor a successor.                                            *)
(***************************************************************************)
EXTENDS Slices, WellFoundedInduction, TLAPS

(* A nonempty set of naturals has a least element. *)
LEMMA Least ==
    ASSUME NEW T, T \subseteq Nat, T # {}
    PROVE  \E n \in T : \A m \in T : n <= m
<1>1. IsWellFoundedOn(OpToRel(<, Nat), Nat)
  BY NatLessThanWellFounded
<1>2. PICK n \in T : \A m \in T : ~(<<m, n>> \in OpToRel(<, Nat))
  BY <1>1, WFMin
<1>3. \A m \in T : ~(m < n)
  BY <1>2 DEF OpToRel
<1>4. QED
  BY <1>3

(* Induction, for a set: one that contains 0 and every successor of an      *)
(* element has all naturals.                                                *)
LEMMA Induction ==
    ASSUME NEW P, 0 \in P, \A n \in Nat : n \in P => n + 1 \in P
    PROVE  Nat \subseteq P
<1> SUFFICES ASSUME Nat \ P # {} PROVE FALSE
  OBVIOUS
<1>1. PICK n \in Nat \ P : \A m \in Nat \ P : n <= m
  BY Least
<1>2. n # 0 /\ n - 1 \in Nat
  BY <1>1
<1>3. n - 1 \in P
  BY <1>1, <1>2
<1>4. QED
  BY <1>1, <1>2, <1>3

(* What is known of a sequence over S. *)
LEMMA SeqFacts ==
    ASSUME NEW S, NEW s \in Seq(S)
    PROVE  Len(s) \in Nat /\ DOMAIN s = 1 .. Len(s) /\ \A i \in 1 .. Len(s) : s[i] \in S
OBVIOUS

(* Functions on 1 .. n are sequences. *)
LEMMA SeqByIndex ==
    ASSUME NEW S, NEW n \in Nat, NEW s, DOMAIN s = 1 .. n, s = [i \in 1 .. n |-> s[i]],
           \A i \in 1 .. n : s[i] \in S
    PROVE  s \in Seq(S) /\ Len(s) = n
<1>1. s \in [1 .. n -> S]
  OBVIOUS
<1>2. QED
  BY <1>1

-----------------------------------------------------------------------------
(***************************************************************************)
(* Package sort.  R is the order as a set of pairs: one for which "not      *)
(* less" is transitive, which makes elements that are not less than one     *)
(* another equal for the sort.                                              *)
(***************************************************************************)
Orders(R, S) ==
    /\ \A a, b \in S : <<a, b>> \in R => <<b, a>> \notin R
    /\ \A a, b, c \in S : <<b, a>> \notin R /\ <<c, b>> \notin R => <<c, a>> \notin R

(* p puts s in the order R. *)
Arranges(p, s, R) ==
    \A i, j \in 1 .. Len(s) : i < j => <<s[p[j]], s[p[i]]>> \notin R

(* Every sequence can be arranged: by induction, the last element inserted  *)
(* before the first of the others that it is less than.                     *)
LEMMA SortExists ==
    ASSUME NEW S, NEW R, Orders(R, S), NEW s \in Seq(S)
    PROVE  \E p \in Bijection(1 .. Len(s), 1 .. Len(s)) : Arranges(p, s, R)
<1> DEFINE Has(t) == \E p \in Bijection(1 .. Len(t), 1 .. Len(t)) : Arranges(p, t, R)
           P == {n \in Nat : \A t \in Seq(S) : Len(t) = n => Has(t)}
<1>1. 0 \in P
  <2> SUFFICES ASSUME NEW t \in Seq(S), Len(t) = 0 PROVE Has(t)
    OBVIOUS
  <2>1. [i \in 1 .. Len(t) |-> i] \in Bijection(1 .. Len(t), 1 .. Len(t))
    BY DEF Bijection, Injection, Surjection, IsInjective
  <2>2. Arranges([i \in 1 .. Len(t) |-> i], t, R)
    BY DEF Arranges
  <2>3. QED
    BY <2>1, <2>2
<1>2. ASSUME NEW n \in Nat, n \in P PROVE n + 1 \in P
  <2> SUFFICES ASSUME NEW t \in Seq(S), Len(t) = n + 1 PROVE Has(t)
    OBVIOUS
  <2> DEFINE u == SubSeq(t, 1, n)
             x == t[n + 1]
  <2>1. u \in Seq(S) /\ Len(u) = n /\ x \in S /\ \A i \in 1 .. n : u[i] = t[i]
    OBVIOUS
  <2>2. PICK p \in Bijection(1 .. n, 1 .. n) : Arranges(p, u, R)
    BY <1>2, <2>1
  <2>3. /\ p \in [1 .. n -> 1 .. n]
        /\ \A i, j \in 1 .. n : p[i] = p[j] => i = j
        /\ \A m \in 1 .. n : \E i \in 1 .. n : p[i] = m
        /\ \A i, j \in 1 .. n : i < j => <<t[p[j]], t[p[i]]>> \notin R
    BY <2>1, <2>2 DEF Bijection, Injection, Surjection, IsInjective, Arranges
  <2> DEFINE K == {i \in 1 .. n + 1 : i = n + 1 \/ <<x, t[p[i]]>> \in R}
  <2>4. PICK k \in K : \A m \in K : k <= m
    <3>1. n + 1 \in K /\ K \subseteq Nat
      OBVIOUS
    <3>2. QED
      BY <3>1, Least
  <2> DEFINE q == [i \in 1 .. n + 1 |->
                      IF i < k THEN p[i] ELSE IF i = k THEN n + 1 ELSE p[i - 1]]
  <2>k. k \in 1 .. n + 1
    BY <2>4
  <2>p. \A i \in 1 .. n : p[i] \in 1 .. n /\ t[p[i]] \in S
    <3>1. \A i \in 1 .. n : p[i] \in 1 .. n
      BY <2>3
    <3>2. \A i \in 1 .. n : t[i] \in S
      OBVIOUS
    <3>3. QED
      BY <3>1, <3>2
  <2>q. /\ \A i \in 1 .. n + 1 : i < k => i \in 1 .. n /\ q[i] = p[i]
        /\ q[k] = n + 1
        /\ \A i \in 1 .. n + 1 : i > k => i - 1 \in 1 .. n /\ q[i] = p[i - 1]
    BY <2>k
  <2>5. q \in [1 .. n + 1 -> 1 .. n + 1] /\ k \in 1 .. n + 1
    <3>1. \A i \in 1 .. n + 1 : q[i] \in 1 .. n + 1
      BY <2>k, <2>p, <2>q
    <3>2. QED
      BY <2>k, <3>1
  <2>6. ASSUME NEW i \in 1 .. n + 1, NEW j \in 1 .. n + 1, q[i] = q[j]
        PROVE  i = j
    <3> HIDE DEF q
    <3>a. \A m \in 1 .. n + 1 : m # k => q[m] \in 1 .. n
      BY <2>k, <2>p, <2>q, SMTT(30)
    <3>b. \A m \in 1 .. n + 1 : q[m] = n + 1 => m = k
      BY <3>a
    <3>1. CASE i = k \/ j = k
      BY <2>q, <2>6, <3>1, <3>b
    <3>2. CASE i < k /\ j < k
      BY <2>3, <2>q, <2>6, <3>2
    <3>3. CASE i > k /\ j > k
      BY <2>3, <2>q, <2>6, <3>3, SMTT(30)
    <3>4. CASE i < k /\ j > k
      BY <2>3, <2>k, <2>q, <2>6, <3>4
    <3>5. CASE i > k /\ j < k
      BY <2>3, <2>k, <2>q, <2>6, <3>5
    <3>6. QED
      BY <2>k, <3>1, <3>2, <3>3, <3>4, <3>5
  <2>7. ASSUME NEW m \in 1 .. n + 1 PROVE \E i \in 1 .. n + 1 : q[i] = m
    <3>1. CASE m = n + 1
      BY <2>5, <3>1
    <3>2. CASE m # n + 1
      <4>1. PICK i \in 1 .. n : p[i] = m
        BY <2>3, <3>2
      <4>2. CASE i < k
        BY <2>5, <4>1, <4>2
      <4>3. CASE i >= k
        <5>1. i + 1 \in 1 .. n + 1 /\ q[i + 1] = m
          BY <2>5, <4>1, <4>3
        <5>2. QED
          BY <5>1
      <4>4. QED
        BY <2>5, <4>2, <4>3
    <3>3. QED
      BY <3>1, <3>2
  <2>8. ASSUME NEW i \in 1 .. n + 1, NEW j \in 1 .. n + 1, i < j
        PROVE  <<t[q[j]], t[q[i]]>> \notin R
    <3>1. CASE j < k \/ i > k \/ (i < k /\ j > k)
      <4> DEFINE a == IF i < k THEN i ELSE i - 1
                 b == IF j < k THEN j ELSE j - 1
      <4>1. a \in 1 .. n /\ b \in 1 .. n /\ a < b /\ q[i] = p[a] /\ q[j] = p[b]
        BY <2>5, <2>8, <3>1
      <4>2. QED
        BY <2>3, <4>1
    <3>2. CASE j = k
      <4>1. i \notin K /\ i \in 1 .. n /\ q[i] = p[i] /\ q[j] = n + 1
        BY <2>4, <2>5, <2>8, <3>2
      <4>2. QED
        BY <4>1
    <3>3. CASE i = k
      <4>1. k \in 1 .. n /\ j - 1 \in k .. n /\ q[i] = n + 1 /\ q[j] = p[j - 1]
        BY <2>5, <2>8, <3>3
      <4>2. <<x, t[p[k]]>> \in R
        BY <2>4, <4>1
      <4>3. <<t[p[j - 1]], t[p[k]]>> \notin R
        <5>1. CASE j - 1 = k
          <6>1. t[p[k]] \in S
            BY <2>p, <4>1
          <6>2. QED
            BY <5>1, <6>1 DEF Orders
        <5>2. CASE j - 1 > k
          <6>1. j - 1 \in 1 .. n /\ k \in 1 .. n /\ k < j - 1
            BY <2>k, <4>1, <5>2
          <6>2. \A c, d \in 1 .. n : c < d => <<t[p[d]], t[p[c]]>> \notin R
            BY <2>3
          <6>3. QED
            BY <6>1, <6>2
        <5>3. QED
          BY <4>1, <5>1, <5>2
      <4>4. t[p[k]] \in S /\ t[p[j - 1]] \in S
        BY <2>k, <2>p, <4>1
      <4>5. <<t[p[j - 1]], x>> \notin R
        BY <2>1, <4>2, <4>3, <4>4, ZenonT(30) DEF Orders
      <4>6. QED
        BY <4>1, <4>5
    <3>4. QED
      BY <2>5, <3>1, <3>2, <3>3, <2>8
  <2>9. q \in Bijection(1 .. Len(t), 1 .. Len(t))
    BY <2>5, <2>6, <2>7 DEF Bijection, Injection, Surjection, IsInjective
  <2>10. Arranges(q, t, R)
    BY <2>8 DEF Arranges
  <2>11. QED
    BY <2>9, <2>10
<1>3. Len(s) \in P
  <2> HIDE DEF P
  <2>1. Nat \subseteq P
    BY <1>1, <1>2, Induction
  <2>2. QED
    BY <2>1
<1>4. QED
  BY <1>3

(* What a permutation makes of a sequence. *)
LEMMA Rearranged ==
    ASSUME NEW S, NEW s \in Seq(S), NEW p \in Bijection(1 .. Len(s), 1 .. Len(s)),
           NEW t, t = [i \in 1 .. Len(s) |-> s[p[i]]]
    PROVE  /\ t \in Seq(S) /\ Len(t) = Len(s) /\ Range(t) = Range(s)
           /\ IsInjective(s) => IsInjective(t)
<1>1. /\ \A i \in 1 .. Len(s) : p[i] \in 1 .. Len(s)
      /\ \A m \in 1 .. Len(s) : \E i \in 1 .. Len(s) : p[i] = m
      /\ \A i, j \in 1 .. Len(s) : p[i] = p[j] => i = j
  BY DEF Bijection, Injection, Surjection, IsInjective
<1>2. \A i \in 1 .. Len(s) : s[i] \in S
  OBVIOUS
<1>3. t \in Seq(S) /\ Len(t) = Len(s) /\ DOMAIN t = 1 .. Len(s)
  <2>1. \A i \in 1 .. Len(s) : s[p[i]] \in S
    BY <1>1, <1>2
  <2>2. t \in [1 .. Len(s) -> S] /\ Len(s) \in Nat
    BY <2>1
  <2>3. QED
    BY <2>2
<1>4. DOMAIN s = 1 .. Len(s)
  OBVIOUS
<1>5. Range(t) = Range(s)
  BY <1>1, <1>3, <1>4, SMTT(30) DEF Range
<1>6. IsInjective(s) => IsInjective(t)
  <2> SUFFICES ASSUME IsInjective(s), NEW i \in 1 .. Len(s), NEW j \in 1 .. Len(s),
                      t[i] = t[j]
               PROVE  i = j
    BY <1>3 DEF IsInjective
  <2>1. s[p[i]] = s[p[j]] /\ p[i] \in DOMAIN s /\ p[j] \in DOMAIN s
    BY <1>1, <1>4
  <2>2. p[i] = p[j]
    BY <2>1 DEF IsInjective
  <2>3. QED
    BY <1>1, <2>2
<1>7. QED
  BY <1>3, <1>5, <1>6

(* sort.Ints sorts. *)
LEMMA SortInts ==
    ASSUME NEW s \in Seq(Int), NEW t, t = Sort(s, Ascending)
    PROVE  /\ t \in Seq(Int) /\ Len(t) = Len(s) /\ Range(t) = Range(s)
           /\ IsInjective(s) => IsInjective(t)
           /\ \A i, j \in 1 .. Len(t) : i < j => t[i] <= t[j]
<1> DEFINE R == {x \in Int \X Int : x[1] < x[2]}
           Ok(p) == \A i, j \in 1 .. Len(s) : i < j => ~(s[p[j]] < s[p[i]])
           B == Bijection(1 .. Len(s), 1 .. Len(s))
           order == CHOOSE p \in B : Ok(p)
<1>1. Orders(R, Int)
  BY DEF Orders
<1>2. PICK p \in B : Arranges(p, s, R)
  <2> HIDE DEF R
  <2>1. QED
    BY <1>1, SortExists
<1>3. \A q \in B : \A i \in 1 .. Len(s) : s[q[i]] \in Int
  BY DEF Bijection, Injection
<1>4. Ok(p)
  BY <1>2, <1>3 DEF Arranges
<1>5. order \in B /\ Ok(order)
  <2> HIDE DEF Ok, B
  <2>1. QED
    BY <1>2, <1>4
<1>6. t = [i \in 1 .. Len(s) |-> s[order[i]]]
  BY DEF Sort, Ascending
<1>7. /\ t \in Seq(Int) /\ Len(t) = Len(s) /\ Range(t) = Range(s)
      /\ IsInjective(s) => IsInjective(t)
  <2> HIDE DEF order
  <2>1. QED
    BY <1>5, <1>6, Rearranged
<1>8. \A i, j \in 1 .. Len(t) : i < j => t[i] <= t[j]
  <2> HIDE DEF order, B
  <2>1. QED
    BY <1>3, <1>5, <1>6, <1>7
<1>9. QED
  BY <1>7, <1>8

-----------------------------------------------------------------------------
(***************************************************************************)
(* Recursion: a loop over 1 .. N that starts with a and whose body is the   *)
(* function G of the value so far and the index.                            *)
(***************************************************************************)
Iterates(f, a, N, G) ==
    f[0] = a /\ \A i \in 1 .. N : f[i] = G[<<f[i - 1], i>>]

(* There is such an f ... *)
LEMMA RecursionExists ==
    ASSUME NEW A, NEW a \in A, NEW N \in Nat, NEW G \in [A \X (1 .. N) -> A]
    PROVE  \E f \in [0 .. N -> A] : Iterates(f, a, N, G)
<1> DEFINE Has(n) == \E f \in [0 .. n -> A] : Iterates(f, a, n, G)
           P == {n \in Nat : n <= N => Has(n)}
<1>1. 0 \in P
  <2>1. [i \in 0 .. 0 |-> a] \in [0 .. 0 -> A] /\ Iterates([i \in 0 .. 0 |-> a], a, 0, G)
    BY DEF Iterates
  <2>2. Has(0)
    BY <2>1
  <2>3. QED
    BY <2>2
<1>2. ASSUME NEW n \in Nat, n \in P PROVE n + 1 \in P
  <2> SUFFICES ASSUME n + 1 <= N PROVE Has(n + 1)
    OBVIOUS
  <2>1. PICK f \in [0 .. n -> A] : Iterates(f, a, n, G)
    BY <1>2
  <2> DEFINE g == [i \in 0 .. n + 1 |-> IF i = n + 1 THEN G[<<f[n], n + 1>>] ELSE f[i]]
  <2>2. G[<<f[n], n + 1>>] \in A
    BY <2>1
  <2>3. g \in [0 .. n + 1 -> A]
    BY <2>2
  <2>4. ASSUME NEW i \in 1 .. n + 1 PROVE g[i] = G[<<g[i - 1], i>>]
    <3>1. CASE i = n + 1
      <4>1. g[i] = G[<<f[n], n + 1>>] /\ i - 1 = n /\ g[n] = f[n]
        BY <3>1
      <4>2. QED
        BY <3>1, <4>1
    <3>2. CASE i # n + 1
      <4>1. i \in 1 .. n /\ g[i] = f[i] /\ g[i - 1] = f[i - 1]
        BY <3>2
      <4>2. QED
        BY <2>1, <4>1 DEF Iterates
    <3>3. QED
      BY <3>1, <3>2
  <2>5. g[0] = a
    BY <2>1 DEF Iterates
  <2>6. QED
    <3> HIDE DEF g
    <3>1. QED
      BY <2>3, <2>4, <2>5 DEF Iterates
<1>3. N \in P
  <2> HIDE DEF P
  <2>1. QED
    BY <1>1, <1>2, Induction
<1>4. QED
  BY <1>3

(* ... and whatever solves the recursion where it is in A is that f. *)
LEMMA RecursionUnique ==
    ASSUME NEW A, NEW a \in A, NEW N \in Nat, NEW G,
           NEW f \in [0 .. N -> A], Iterates(f, a, N, G),
           NEW c, c[0] = a,
           \A i \in 1 .. N : c[i - 1] \in A => c[i] = G[<<c[i - 1], i>>]
    PROVE  \A i \in 0 .. N : c[i] = f[i]
<1> DEFINE P == {n \in Nat : n <= N => c[n] = f[n]}
<1>1. 0 \in P
  BY DEF Iterates
<1>2. ASSUME NEW n \in Nat, n \in P PROVE n + 1 \in P
  <2> SUFFICES ASSUME n + 1 <= N PROVE c[n + 1] = f[n + 1]
    OBVIOUS
  <2>1. c[n] = f[n] /\ f[n] \in A /\ n + 1 \in 1 .. N /\ (n + 1) - 1 = n
    BY <1>2
  <2>2. f[n + 1] = G[<<f[n], n + 1>>]
    BY <2>1 DEF Iterates
  <2>3. c[n + 1] = G[<<c[n], n + 1>>]
    BY <2>1
  <2>4. QED
    BY <2>1, <2>2, <2>3
<1>3. Nat \subseteq P
  <2> HIDE DEF P
  <2>1. QED
    BY <1>1, <1>2, Induction
<1>4. QED
  BY <1>3

-----------------------------------------------------------------------------
(***************************************************************************)
(* FlattenSeq, by which the nested loops append.                            *)
(***************************************************************************)
Increasing(s, R) == \A i, j \in 1 .. Len(s) : i < j => <<s[i], s[j]>> \in R

(* all is the result of appending to e the N elements of ss in turn. *)
Appends(A, e, N, ss, all) ==
    \E f \in [0 .. N -> A] :
        /\ f[0] = e
        /\ \A i \in 1 .. N : f[i] = f[i - 1] \o ss[i]
        /\ all = f[N]

(* The recursion of FlattenSeq, over sequences of any set A.  *)
LEMMA FlattenRecursion ==
    ASSUME NEW A, NEW e \in A, e = <<>>,
           \A x, y \in A : x \o y \in A, \A x \in A : e \o x = x,
           NEW N \in Nat, NEW ss, Len(ss) = N, N = 0 => ss = e,
           \A i \in 1 .. N : ss[i] \in A
    PROVE  Appends(A, e, N, ss, FlattenSeq(ss))
<1> USE DEF Appends
<1> DEFINE G == [x \in A \X (1 .. N) |-> x[1] \o ss[x[2]]]
           Body(g, i) == IF i = 1 THEN ss[i] ELSE g[i - 1] \o ss[i]
           Solves(g) == g = [i \in 1 .. N |-> Body(g, i)]
           c == CHOOSE g : Solves(g)
<1>1. G \in [A \X (1 .. N) -> A]
  OBVIOUS
<1>2. PICK f : f \in [0 .. N -> A] /\ Iterates(f, e, N, G)
  <2> HIDE DEF G
  <2>1. QED
    BY <1>1, RecursionExists
<1>a. \A i \in 0 .. N : f[i] \in A
  BY <1>2
<1>3. \A i \in 1 .. N : f[i] = f[i - 1] \o ss[i]
  <2> SUFFICES ASSUME NEW i \in 1 .. N PROVE f[i] = f[i - 1] \o ss[i]
    OBVIOUS
  <2>1. f[i] = G[<<f[i - 1], i>>]
    BY <1>2 DEF Iterates
  <2>2. <<f[i - 1], i>> \in A \X (1 .. N)
    BY <1>a
  <2>3. QED
    BY <2>1, <2>2
<1>4. f[0] = e
  BY <1>2 DEF Iterates
<1> HIDE DEF G
<1>5. \A i \in 1 .. N : f[i] = Body(f, i)
  <2> SUFFICES ASSUME NEW i \in 1 .. N PROVE f[i] = Body(f, i)
    OBVIOUS
  <2>1. CASE i = 1
    <3>1. f[i] = f[i - 1] \o ss[i] /\ i - 1 = 0 /\ ss[i] \in A
      BY <1>3, <2>1
    <3>2. f[i] = e \o ss[i]
      BY <1>4, <3>1
    <3>3. QED
      BY <2>1, <3>1, <3>2
  <2>2. CASE i # 1
    BY <1>3, <2>2
  <2>3. QED
    BY <2>1, <2>2
<1>6. Solves([i \in 1 .. N |-> f[i]])
  <2> DEFINE g == [i \in 1 .. N |-> f[i]]
  <2>1. ASSUME NEW i \in 1 .. N PROVE g[i] = Body(g, i)
    <3>1. g[i] = f[i] /\ (i # 1 => g[i - 1] = f[i - 1])
      OBVIOUS
    <3>2. QED
      <4> HIDE DEF g
      <4>1. QED
        BY <1>5, <3>1
  <2>2. QED
    BY <2>1
<1>7. Solves(c)
  <2> HIDE DEF Solves
  <2>1. QED
    BY <1>6
<1>8. FlattenSeq(ss) = IF N = 0 THEN ss ELSE c[N]
  BY DEF FlattenSeq
<1>9. CASE N = 0
  BY <1>2, <1>3, <1>4, <1>8, <1>9
<1>10. CASE N # 0
  <2> DEFINE d == [i \in 0 .. N |-> IF i = 0 THEN e ELSE c[i]]
  <2>1. \A i \in 1 .. N : c[i] = Body(c, i)
    <3> HIDE DEF c, Body
    <3>1. QED
      BY <1>7
  <2> HIDE DEF c
  <2>2. d[0] = e /\ \A i \in 1 .. N : d[i] = c[i]
    OBVIOUS
  <2> HIDE DEF d
  <2>3. ASSUME NEW i \in 1 .. N, d[i - 1] \in A PROVE d[i] = G[<<d[i - 1], i>>]
    <3>1. d[i] = d[i - 1] \o ss[i]
      <4>1. CASE i = 1
        <5>1. d[i] = ss[i] /\ d[i - 1] = e /\ ss[i] \in A
          BY <2>1, <2>2, <4>1
        <5>2. QED
          BY <5>1
      <4>2. CASE i # 1
        <5>1. c[i] = c[i - 1] \o ss[i]
          <6>1. c[i] = Body(c, i)
            BY <2>1
          <6>2. QED
            BY <4>2, <6>1
        <5>2. d[i] = c[i] /\ d[i - 1] = c[i - 1]
          BY <2>2, <4>2
        <5>3. QED
          BY <5>1, <5>2
      <4>3. QED
        BY <4>1, <4>2
    <3>2. G[<<d[i - 1], i>>] = d[i - 1] \o ss[i]
      BY <2>3 DEF G
    <3>3. QED
      BY <3>1, <3>2
  <2>4. \A i \in 0 .. N : d[i] = f[i]
    <3>1. \A i \in 1 .. N : d[i - 1] \in A => d[i] = G[<<d[i - 1], i>>]
      BY <2>3
    <3>2. QED
      BY <1>2, <2>2, <3>1, RecursionUnique
  <2>5. c[N] = f[N]
    BY <1>10, <2>2, <2>4
  <2>6. QED
    BY <1>2, <1>3, <1>4, <1>8, <1>10, <2>5
<1>11. QED
  BY <1>9, <1>10

(* What two sequences have in common with one after the other. *)
LEMMA Concatenated ==
    ASSUME NEW S, NEW s \in Seq(S), NEW t \in Seq(S), NEW R
    PROVE  /\ Range(s \o t) = Range(s) \cup Range(t)
           /\ /\ Increasing(s, R) /\ Increasing(t, R)
              /\ \A a \in Range(s), b \in Range(t) : <<a, b>> \in R
              => Increasing(s \o t, R)
<1> DEFINE u == s \o t
<1>1. /\ Len(u) = Len(s) + Len(t) /\ DOMAIN u = 1 .. Len(s) + Len(t)
      /\ DOMAIN s = 1 .. Len(s) /\ DOMAIN t = 1 .. Len(t)
      /\ Len(s) \in Nat /\ Len(t) \in Nat
  OBVIOUS
<1>2. \A i \in 1 .. Len(s) : u[i] = s[i]
  OBVIOUS
<1>3. \A i \in 1 .. Len(u) : i > Len(s) => i - Len(s) \in 1 .. Len(t) /\ u[i] = t[i - Len(s)]
  OBVIOUS
<1>4. \A i \in 1 .. Len(t) : u[Len(s) + i] = t[i] /\ Len(s) + i \in 1 .. Len(u)
  OBVIOUS
<1> HIDE DEF u
<1>5. Range(u) = Range(s) \cup Range(t)
  <2>1. ASSUME NEW i \in 1 .. Len(u) PROVE u[i] \in Range(s) \cup Range(t)
    BY <1>1, <1>2, <1>3 DEF Range
  <2>2. \A i \in 1 .. Len(s) : s[i] \in Range(u)
    BY <1>1, <1>2 DEF Range
  <2>3. \A i \in 1 .. Len(t) : t[i] \in Range(u)
    BY <1>1, <1>4 DEF Range
  <2>4. QED
    BY <1>1, <2>1, <2>2, <2>3 DEF Range
<1>6. ASSUME Increasing(s, R), Increasing(t, R),
             \A a \in Range(s), b \in Range(t) : <<a, b>> \in R,
             NEW i \in 1 .. Len(u), NEW j \in 1 .. Len(u), i < j
      PROVE  <<u[i], u[j]>> \in R
  <2>1. CASE j <= Len(s)
    BY <1>1, <1>2, <1>6, <2>1 DEF Increasing
  <2>2. CASE i <= Len(s) /\ j > Len(s)
    <3>1. u[i] \in Range(s) /\ u[j] \in Range(t)
      BY <1>1, <1>2, <1>3, <2>2 DEF Range
    <3>2. QED
      BY <1>6, <3>1
  <2>3. CASE i > Len(s)
    <3>1. /\ i - Len(s) \in 1 .. Len(t) /\ j - Len(s) \in 1 .. Len(t)
          /\ i - Len(s) < j - Len(s)
          /\ u[i] = t[i - Len(s)] /\ u[j] = t[j - Len(s)]
      BY <1>1, <1>3, <1>6, <2>3
    <3>2. QED
      BY <1>6, <3>1 DEF Increasing
  <2>4. QED
    BY <1>1, <2>1, <2>2, <2>3
<1>7. QED
  BY <1>5, <1>6 DEF Increasing, u

PartsIncrease(ss, N, R) ==
    /\ \A i \in 1 .. N : Increasing(ss[i], R)
    /\ \A i, j \in 1 .. N : i < j =>
          \A a \in Range(ss[i]), b \in Range(ss[j]) : <<a, b>> \in R

HasParts(s, ss, N) == \A x : x \in Range(s) <=> \E i \in 1 .. N : x \in Range(ss[i])

(* A flattened sequence has the elements of its parts, and is increasing if *)
(* each part is and every element of a part precedes those of later parts.  *)
LEMMA Flattened ==
    ASSUME NEW S, NEW A, A = Seq(S), NEW R,
           NEW N \in Nat, NEW ss, Len(ss) = N, N = 0 => ss = <<>>,
           \A i \in 1 .. N : ss[i] \in A
    PROVE  /\ FlattenSeq(ss) \in A
           /\ HasParts(FlattenSeq(ss), ss, N)
           /\ PartsIncrease(ss, N, R) => Increasing(FlattenSeq(ss), R)
<1> DEFINE e == <<>>
<1>1. /\ e \in A /\ e = <<>> /\ (N = 0 => ss = e)
      /\ \A x, y \in A : x \o y \in A
      /\ \A x \in A : e \o x = x
      /\ \A i \in 1 .. N : ss[i] \in A
  OBVIOUS
<1>2. PICK f : /\ f \in [0 .. N -> A]
               /\ f[0] = e
               /\ \A i \in 1 .. N : f[i] = f[i - 1] \o ss[i]
               /\ FlattenSeq(ss) = f[N]
  <2> HIDE DEF e
  <2>1. Appends(A, e, N, ss, FlattenSeq(ss))
    BY <1>1, FlattenRecursion
  <2>2. QED
    BY <2>1 DEF Appends
<1>3. \A i \in 0 .. N : f[i] \in A
  <2> HIDE DEF e
  <2>1. QED
    BY <1>2
<1>4. ASSUME NEW n \in Nat, n + 1 <= N
      PROVE  /\ n \in 0 .. N /\ n + 1 \in 1 .. N
             /\ f[n] \in A /\ ss[n + 1] \in A /\ f[n + 1] = f[n] \o ss[n + 1]
             /\ Range(f[n + 1]) = Range(f[n]) \cup Range(ss[n + 1])
             /\ /\ Increasing(f[n], R) /\ Increasing(ss[n + 1], R)
                /\ \A a \in Range(f[n]), b \in Range(ss[n + 1]) : <<a, b>> \in R
                => Increasing(f[n + 1], R)
  <2>1. n \in 0 .. N /\ n + 1 \in 1 .. N /\ (n + 1) - 1 = n
    BY <1>4
  <2>2. f[n] \in A /\ ss[n + 1] \in A
    <3> HIDE DEF e
    <3>1. QED
      BY <1>1, <1>3, <2>1
  <2>3. f[n + 1] = f[n] \o ss[n + 1]
    <3> HIDE DEF e
    <3>1. f[n + 1] = f[(n + 1) - 1] \o ss[n + 1]
      BY <1>2, <2>1
    <3>2. QED
      BY <2>1, <3>1
  <2>4. QED
    BY <2>1, <2>2, <2>3, Concatenated, ZenonT(30)
<1> DEFINE In(n, x) == \E i \in 1 .. n : x \in Range(ss[i])
           P == {n \in Nat : n <= N => \A x : x \in Range(f[n]) <=> In(n, x)}
<1> HIDE DEF e
<1>5. Nat \subseteq P
  <2>1. 0 \in P
    <3>1. Range(f[0]) = {}
      BY <1>2, <1>1 DEF Range
    <3>2. QED
      BY <3>1
  <2>2. ASSUME NEW n \in Nat, n \in P PROVE n + 1 \in P
    <3> SUFFICES ASSUME n + 1 <= N, NEW x PROVE x \in Range(f[n + 1]) <=> In(n + 1, x)
      OBVIOUS
    <3>1. x \in Range(f[n + 1]) <=> In(n, x) \/ x \in Range(ss[n + 1])
      <4>1. x \in Range(f[n]) <=> In(n, x)
        BY <2>2
      <4>2. QED
        BY <1>4, <4>1
    <3>2. In(n + 1, x) <=> In(n, x) \/ x \in Range(ss[n + 1])
      OBVIOUS
    <3>3. QED
      BY <3>1, <3>2
  <2>3. QED
    <3> HIDE DEF P
    <3>1. QED
      BY <2>1, <2>2, Induction
<1>6. ASSUME \A i \in 1 .. N : Increasing(ss[i], R),
             \A i, j \in 1 .. N : i < j =>
                 \A a \in Range(ss[i]), b \in Range(ss[j]) : <<a, b>> \in R
      PROVE  Increasing(f[N], R)
  <2> DEFINE Q == {n \in Nat : n <= N => Increasing(f[n], R)}
  <2>1. 0 \in Q
    <3>1. Len(f[0]) = 0
      BY <1>1, <1>2
    <3>2. QED
      BY <3>1 DEF Increasing
  <2>2. ASSUME NEW n \in Nat, n \in Q PROVE n + 1 \in Q
    <3> SUFFICES ASSUME n + 1 <= N PROVE Increasing(f[n + 1], R)
      OBVIOUS
    <3>1. Increasing(f[n], R) /\ Increasing(ss[n + 1], R)
      BY <1>4, <1>6, <2>2
    <3>2. ASSUME NEW a \in Range(f[n]), NEW b \in Range(ss[n + 1]) PROVE <<a, b>> \in R
      <4>0. In(n, a)
        <5> HIDE DEF In
        <5>1. QED
          BY <1>5, <3>2
      <4>1. PICK i \in 1 .. n : a \in Range(ss[i])
        BY <4>0
      <4>2. i \in 1 .. N /\ n + 1 \in 1 .. N /\ i < n + 1
        BY <4>1
      <4>3. QED
        BY <1>6, <4>1, <4>2
    <3>3. QED
      BY <1>4, <3>1, <3>2
  <2>3. Nat \subseteq Q
    <3> HIDE DEF Q
    <3>1. QED
      BY <2>1, <2>2, Induction
  <2>4. QED
    BY <2>3
<1>7. FlattenSeq(ss) \in A
  BY <1>2, <1>3
<1>8. \A x : x \in Range(FlattenSeq(ss)) <=> In(N, x)
  <2> HIDE DEF In
  <2>1. QED
    BY <1>2, <1>5
<1>9. QED
  BY <1>2, <1>6, <1>7, <1>8 DEF HasParts, PartsIncrease

-----------------------------------------------------------------------------
(***************************************************************************)
(* Loops that append some of the elements of s to a new slice: those whose  *)
(* index is in K.                                                           *)
(***************************************************************************)
Keeps(f, s, K) ==
    /\ f[0] = <<>>
    /\ \A i \in 1 .. Len(s) :
          f[i] = IF i \in K THEN Append(f[i - 1], s[i]) ELSE f[i - 1]

Kept(s, K) == {s[i] : i \in K \cap (1 .. Len(s))}

IncreasingAt(s, K, R) ==
    \A i, j \in K \cap (1 .. Len(s)) : i < j => <<s[i], s[j]>> \in R

(* What append does. *)
LEMMA Appended ==
    ASSUME NEW S, NEW t \in Seq(S), NEW x \in S, NEW R
    PROVE  /\ Append(t, x) \in Seq(S)
           /\ Range(Append(t, x)) = Range(t) \cup {x}
           /\ Increasing(t, R) /\ (\A a \in Range(t) : <<a, x>> \in R)
              => Increasing(Append(t, x), R)
<1> DEFINE u == Append(t, x)
<1>1. /\ u \in Seq(S) /\ Len(u) = Len(t) + 1 /\ Len(t) \in Nat
      /\ DOMAIN u = 1 .. Len(t) + 1 /\ DOMAIN t = 1 .. Len(t)
      /\ u[Len(t) + 1] = x
  OBVIOUS
<1>2. \A i \in 1 .. Len(t) : u[i] = t[i]
  OBVIOUS
<1> HIDE DEF u
<1>3. Range(u) = Range(t) \cup {x}
  BY <1>1, <1>2 DEF Range
<1>4. ASSUME Increasing(t, R), \A a \in Range(t) : <<a, x>> \in R,
             NEW i \in 1 .. Len(u), NEW j \in 1 .. Len(u), i < j
      PROVE  <<u[i], u[j]>> \in R
  <2>1. i \in 1 .. Len(t)
    BY <1>1, <1>4
  <2>2. CASE j = Len(t) + 1
    BY <1>1, <1>2, <1>4, <2>1, <2>2 DEF Range
  <2>3. CASE j # Len(t) + 1
    BY <1>1, <1>2, <1>4, <2>1, <2>3 DEF Increasing
  <2>4. QED
    BY <2>2, <2>3
<1>5. QED
  BY <1>1, <1>3, <1>4 DEF Increasing, u

(* Such a loop can run ... *)
LEMMA KeepExists ==
    ASSUME NEW S, NEW s \in Seq(S), NEW K
    PROVE  \E f \in [0 .. Len(s) -> Seq(S)] : Keeps(f, s, K)
<1> DEFINE A == Seq(S)
           e == <<>>
           N == Len(s)
           G == [x \in A \X (1 .. N) |-> IF x[2] \in K THEN Append(x[1], s[x[2]]) ELSE x[1]]
<1>1. e \in A /\ N \in Nat /\ \A i \in 1 .. N : s[i] \in S
  OBVIOUS
<1>2. \A x \in A, i \in 1 .. N : Append(x, s[i]) \in A
  BY <1>1
<1>3. G \in [A \X (1 .. N) -> A]
  <2> HIDE DEF A, N
  <2>1. QED
    BY <1>2
<1>4. \E f \in [0 .. N -> A] : Iterates(f, e, N, G)
  <2> HIDE DEF A, e, N, G
  <2>1. QED
    BY <1>1, <1>3, RecursionExists
<1>5. PICK f : f \in [0 .. N -> A] /\ Iterates(f, e, N, G)
  <2> HIDE DEF A, e, N, G
  <2>1. QED
    BY <1>4
<1>6. \A i \in 1 .. N : f[i] = IF i \in K THEN Append(f[i - 1], s[i]) ELSE f[i - 1]
  <2> SUFFICES ASSUME NEW i \in 1 .. N
               PROVE  f[i] = IF i \in K THEN Append(f[i - 1], s[i]) ELSE f[i - 1]
    OBVIOUS
  <2> HIDE DEF A, e, N
  <2>1. f[i] = G[<<f[i - 1], i>>]
    BY <1>5 DEF Iterates
  <2>2. i - 1 \in 0 .. N
    BY <1>1
  <2>3. f[i - 1] \in A
    BY <1>5, <2>2
  <2>4. G[<<f[i - 1], i>>] = IF i \in K THEN Append(f[i - 1], s[i]) ELSE f[i - 1]
    BY <2>3
  <2>5. QED
    BY <2>1, <2>4
<1>7. f[0] = <<>>
  BY <1>5 DEF Iterates
<1>8. Keeps(f, s, K)
  <2> HIDE DEF G, A
  <2>1. QED
    BY <1>6, <1>7 DEF Keeps
<1>9. QED
  <2> HIDE DEF G
  <2>1. QED
    BY <1>5, <1>8

(* ... and keeps just the elements with an index in K, in their order. *)
LEMMA KeptElements ==
    ASSUME NEW S, NEW s \in Seq(S), NEW K, NEW f, Keeps(f, s, K), NEW R
    PROVE  /\ f[Len(s)] \in Seq(S)
           /\ Range(f[Len(s)]) = Kept(s, K)
           /\ IncreasingAt(s, K, R) => Increasing(f[Len(s)], R)
<1> DEFINE A == Seq(S)
           N == Len(s)
           Upto(n) == {s[i] : i \in K \cap (1 .. n)}
           Ordered == \A i, j \in K \cap (1 .. N) : i < j => <<s[i], s[j]>> \in R
           Good(n) == /\ f[n] \in A
                      /\ Range(f[n]) = Upto(n)
                      /\ Ordered => Increasing(f[n], R)
           P == {n \in Nat : n <= N => Good(n)}
<1>1. N \in Nat /\ \A i \in 1 .. N : s[i] \in S
  OBVIOUS
<1>2. Good(0)
  <2>1. f[0] = <<>>
    BY DEF Keeps
  <2>2. f[0] \in A /\ Range(f[0]) = {} /\ Increasing(f[0], R)
    BY <2>1 DEF Range, Increasing
  <2>3. QED
    BY <2>2
<1>3. ASSUME NEW n \in Nat, n + 1 <= N, Good(n) PROVE Good(n + 1)
  <2>1. n + 1 \in 1 .. N /\ (n + 1) - 1 = n /\ s[n + 1] \in S
    BY <1>1, <1>3
  <2>2. f[n + 1] = IF n + 1 \in K THEN Append(f[n], s[n + 1]) ELSE f[n]
    <3>1. f[n + 1] = IF n + 1 \in K THEN Append(f[(n + 1) - 1], s[n + 1])
                     ELSE f[(n + 1) - 1]
      BY <2>1 DEF Keeps
    <3>2. QED
      BY <2>1, <3>1
  <2>3. CASE n + 1 \in K
    <3>1. f[n + 1] = Append(f[n], s[n + 1])
      BY <2>2, <2>3
    <3>2. Upto(n + 1) = Upto(n) \cup {s[n + 1]}
      BY <2>3
    <3>3. ASSUME Ordered, NEW a \in Range(f[n]) PROVE <<a, s[n + 1]>> \in R
      <4>1. PICK i \in K \cap (1 .. n) : a = s[i]
        BY <1>3, <3>3
      <4>2. i \in K \cap (1 .. N) /\ n + 1 \in K \cap (1 .. N) /\ i < n + 1
        BY <2>1, <2>3, <4>1
      <4>3. QED
        BY <3>3, <4>1, <4>2
    <3>4. f[n] \in A /\ Range(f[n]) = Upto(n) /\ (Ordered => Increasing(f[n], R))
      BY <1>3
    <3> HIDE DEF Upto, Ordered
    <3>5. /\ f[n + 1] \in A
          /\ Range(f[n + 1]) = Range(f[n]) \cup {s[n + 1]}
          /\ Increasing(f[n], R) /\ (\A a \in Range(f[n]) : <<a, s[n + 1]>> \in R)
             => Increasing(f[n + 1], R)
      <4> DEFINE t == f[n]
                 x == s[n + 1]
      <4>1. t \in Seq(S) /\ x \in S
        BY <2>1, <3>4
      <4> HIDE DEF t, x
      <4>2. /\ Append(t, x) \in Seq(S)
            /\ Range(Append(t, x)) = Range(t) \cup {x}
            /\ Increasing(t, R) /\ (\A a \in Range(t) : <<a, x>> \in R)
               => Increasing(Append(t, x), R)
        BY <4>1, Appended
      <4>3. QED
        BY <3>1, <4>2 DEF t, x
    <3>6. QED
      BY <3>2, <3>3, <3>4, <3>5
  <2>4. CASE n + 1 \notin K
    <3>1. f[n + 1] = f[n] /\ Upto(n + 1) = Upto(n)
      BY <2>2, <2>4
    <3> HIDE DEF Upto, Ordered
    <3>2. QED
      BY <1>3, <3>1
  <2>5. QED
    BY <2>3, <2>4
<1>4. Nat \subseteq P
  <2> HIDE DEF Good
  <2>1. 0 \in P
    BY <1>2
  <2>2. ASSUME NEW n \in Nat, n \in P PROVE n + 1 \in P
    BY <1>1, <1>3, <2>2
  <2>3. QED
    <3> HIDE DEF P
    <3>1. QED
      BY <2>1, <2>2, Induction
<1>5. Good(N)
  <2> HIDE DEF Good
  <2>1. QED
    BY <1>1, <1>4
<1>6. QED
  BY <1>5 DEF Kept, IncreasingAt

(* Selected runs such a loop. *)
LEMMA SelectedKeeps ==
    ASSUME NEW S, NEW s \in Seq(S), NEW K
    PROVE  \E f : Keeps(f, s, K) /\ Selected(s, K) = f[Len(s)]
<1> DEFINE N == Len(s)
           Body(g, i) == IF i = 0 THEN <<>>
                         ELSE IF i \in K THEN Append(g[i - 1], s[i]) ELSE g[i - 1]
           Solves(g) == g = [i \in 0 .. N |-> Body(g, i)]
           c == CHOOSE g : Solves(g)
<1>1. N \in Nat
  OBVIOUS
<1>2. Selected(s, K) = c[N]
  BY DEF Selected
<1> HIDE DEF c, N
<1>3. PICK f : Keeps(f, s, K)
  BY KeepExists
<1>4. \A i \in 1 .. N : f[i] = IF i \in K THEN Append(f[i - 1], s[i]) ELSE f[i - 1]
  BY <1>3 DEF Keeps, N
<1>5. Solves([i \in 0 .. N |-> f[i]])
  <2> DEFINE g == [i \in 0 .. N |-> f[i]]
  <2>1. ASSUME NEW i \in 0 .. N PROVE g[i] = Body(g, i)
    <3>1. CASE i = 0
      BY <1>3, <3>1 DEF Keeps
    <3>2. CASE i # 0
      <4>1. i \in 1 .. N /\ g[i] = f[i] /\ g[i - 1] = f[i - 1]
        BY <1>1, <3>2
      <4> HIDE DEF g
      <4>2. QED
        BY <1>4, <3>2, <4>1
    <3>3. QED
      BY <3>1, <3>2
  <2>2. QED
    <3> HIDE DEF Body
    <3>1. QED
      BY <2>1
<1>6. Solves(c)
  <2> HIDE DEF Solves
  <2>1. QED
    BY <1>5 DEF c
<1>7. \A i \in 0 .. N : c[i] = Body(c, i)
  <2> HIDE DEF Body
  <2>1. QED
    BY <1>6
<1>8. c[0] = <<>>
  BY <1>1, <1>7
<1>9. ASSUME NEW i \in 1 .. N
      PROVE  c[i] = IF i \in K THEN Append(c[i - 1], s[i]) ELSE c[i - 1]
  <2>1. i # 0 /\ c[i] = Body(c, i)
    BY <1>1, <1>7
  <2>2. QED
    BY <2>1
<1>10. Keeps(c, s, K)
  BY <1>8, <1>9 DEF Keeps, N
<1>11. QED
  BY <1>2, <1>10 DEF N

(* It keeps just the elements with an index in K, in their order. *)
LEMMA SelectedElements ==
    ASSUME NEW S, NEW s \in Seq(S), NEW K, NEW R
    PROVE  /\ Selected(s, K) \in Seq(S)
           /\ Range(Selected(s, K)) = Kept(s, K)
           /\ IncreasingAt(s, K, R) => Increasing(Selected(s, K), R)
<1>1. PICK f : Keeps(f, s, K) /\ Selected(s, K) = f[Len(s)]
  BY SelectedKeeps
<1>2. /\ f[Len(s)] \in Seq(S)
      /\ Range(f[Len(s)]) = Kept(s, K)
      /\ IncreasingAt(s, K, R) => Increasing(f[Len(s)], R)
  BY <1>1, KeptElements
<1>3. QED
  BY <1>1, <1>2

(* One more element is one more turn of the loop. *)
LEMMA SelectedAppend ==
    ASSUME NEW S, NEW s \in Seq(S), NEW x \in S, NEW K, NEW L,
           \A i \in 1 .. Len(s) : i \in K <=> i \in L
    PROVE  Selected(Append(s, x), L) = IF Len(s) + 1 \in L THEN Append(Selected(s, K), x)
                                       ELSE Selected(s, K)
<1> DEFINE N == Len(s)
           t == Append(s, x)
<1>1. /\ N \in Nat /\ t \in Seq(S) /\ Len(t) = N + 1 /\ t[N + 1] = x
      /\ \A i \in 1 .. N : t[i] = s[i]
  OBVIOUS
<1> HIDE DEF N, t
<1>2. PICK f : Keeps(f, s, K) /\ Selected(s, K) = f[N]
  BY SelectedKeeps DEF N
<1>3. PICK g : Keeps(g, t, L) /\ Selected(t, L) = g[N + 1]
  <2>1. \E g : Keeps(g, t, L) /\ Selected(t, L) = g[Len(t)]
    BY <1>1, SelectedKeeps
  <2>2. QED
    BY <1>1, <2>1
<1>f. f[0] = <<>> /\ \A i \in 1 .. N : f[i] = IF i \in K THEN Append(f[i - 1], s[i])
                                             ELSE f[i - 1]
  BY <1>2 DEF Keeps, N
<1>g. g[0] = <<>> /\ \A i \in 1 .. N + 1 : g[i] = IF i \in L THEN Append(g[i - 1], t[i])
                                                 ELSE g[i - 1]
  BY <1>1, <1>3 DEF Keeps
<1> DEFINE P == {n \in Nat : n <= N => g[n] = f[n]}
<1>4. 0 \in P
  BY <1>f, <1>g
<1>5. ASSUME NEW n \in Nat, n \in P PROVE n + 1 \in P
  <2> SUFFICES ASSUME n + 1 <= N PROVE g[n + 1] = f[n + 1]
    OBVIOUS
  <2>1. /\ n + 1 \in 1 .. N /\ n + 1 \in 1 .. N + 1 /\ (n + 1) - 1 = n /\ g[n] = f[n]
        /\ (n + 1 \in K <=> n + 1 \in L)
    BY <1>1, <1>5 DEF N
  <2>2. f[n + 1] = IF n + 1 \in K THEN Append(f[(n + 1) - 1], s[n + 1]) ELSE f[(n + 1) - 1]
    BY <1>f, <2>1
  <2>3. g[n + 1] = IF n + 1 \in L THEN Append(g[(n + 1) - 1], t[n + 1]) ELSE g[(n + 1) - 1]
    BY <1>g, <2>1
  <2>4. QED
    BY <1>1, <2>1, <2>2, <2>3
<1>6. g[N] = f[N]
  <2> HIDE DEF P
  <2>1. Nat \subseteq P
    BY <1>4, <1>5, Induction
  <2>2. QED
    BY <1>1, <2>1 DEF P
<1>7. N + 1 \in 1 .. N + 1 /\ (N + 1) - 1 = N
  BY <1>1
<1>8. g[N + 1] = IF N + 1 \in L THEN Append(g[(N + 1) - 1], t[N + 1]) ELSE g[(N + 1) - 1]
  BY <1>g, <1>7
<1>9. QED
  BY <1>1, <1>2, <1>3, <1>6, <1>7, <1>8 DEF N, t

-----------------------------------------------------------------------------
(***************************************************************************)
(* Slices of integers.                                                      *)
(***************************************************************************)
StrictlyAscending(s) == \A i, j \in 1 .. Len(s) : i < j => s[i] < s[j]

IntLess == {x \in Int \X Int : x[1] < x[2]}

(* The order as a set of pairs and as the operator. *)
LEMMA AscendingIncreases ==
    ASSUME NEW s \in Seq(Int)
    PROVE  StrictlyAscending(s) <=> Increasing(s, IntLess)
<1>1. \A i \in 1 .. Len(s) : s[i] \in Int
  OBVIOUS
<1>2. \A a, b \in Int : <<a, b>> \in IntLess <=> a < b
  BY DEF IntLess
<1>3. QED
  BY <1>1, <1>2 DEF StrictlyAscending, Increasing

(* Sorting ports that are already in order keeps them in order. *)
LEMMA SortedAgain ==
    ASSUME NEW s \in Seq(Int), StrictlyAscending(s), NEW t, t = Sort(s, Ascending)
    PROVE  t \in Seq(Int) /\ Range(t) = Range(s) /\ StrictlyAscending(t)
<1>1. /\ t \in Seq(Int) /\ Range(t) = Range(s)
      /\ IsInjective(s) => IsInjective(t)
      /\ \A i, j \in 1 .. Len(t) : i < j => t[i] <= t[j]
  BY SortInts
<1>2. /\ DOMAIN s = 1 .. Len(s) /\ Len(s) \in Nat /\ \A i \in 1 .. Len(s) : s[i] \in Int
      /\ DOMAIN t = 1 .. Len(t) /\ Len(t) \in Nat /\ \A i \in 1 .. Len(t) : t[i] \in Int
  BY <1>1, SeqFacts
<1>3. IsInjective(s)
  <2> SUFFICES ASSUME NEW i \in 1 .. Len(s), NEW j \in 1 .. Len(s), s[i] = s[j], i # j
               PROVE  FALSE
    BY <1>2 DEF IsInjective
  <2>1. i < j \/ j < i
    BY <1>2
  <2>2. QED
    BY <1>2, <2>1 DEF StrictlyAscending
<1>4. StrictlyAscending(t)
  <2> SUFFICES ASSUME NEW i \in 1 .. Len(t), NEW j \in 1 .. Len(t), i < j
               PROVE  t[i] < t[j]
    BY DEF StrictlyAscending
  <2>1. t[i] # t[j]
    <3>1. IsInjective(t) /\ i \in DOMAIN t /\ j \in DOMAIN t /\ i # j
      BY <1>1, <1>2, <1>3
    <3>2. QED
      BY <3>1 DEF IsInjective
  <2>2. QED
    BY <1>1, <1>2, <2>1
<1>5. QED
  BY <1>1, <1>4

=============================================================================
