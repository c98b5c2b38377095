---------------------------- MODULE SweepProofs -----------------------------
(***************************************************************************)
(* Theorems of module Sweep, for every set of command lines, every outcome  *)
(* of the tests and every width of the durations.                           *)
(***************************************************************************)
EXTENDS Sweep, SlicesProofs, FiniteSetTheorems, TLAPS

-----------------------------------------------------------------------------
(***************************************************************************)
(* The ports and the sizes of a plan.                                       *)
(***************************************************************************)
(* sortAndDedupe keeps every port once, in ascending order. *)
LEMMA Deduped ==
    ASSUME NEW ports \in Seq(Int), NEW t, t = sortAndDedupe(ports)
    PROVE  t \in Seq(Int) /\ Range(t) = Range(ports) /\ StrictlyAscending(t)
<1> DEFINE sorted == Sort(ports, Ascending)
<1>1. t = Selected(sorted, {i \in DOMAIN sorted : i = 1 \/ sorted[i - 1] # sorted[i]})
  BY DEF sortAndDedupe
<1>2. PICK s : /\ s = sorted /\ s \in Seq(Int) /\ Range(s) = Range(ports)
               /\ \A i, j \in 1 .. Len(s) : i < j => s[i] <= s[j]
  <2> HIDE DEF sorted
  <2>1. /\ sorted \in Seq(Int) /\ Range(sorted) = Range(ports)
        /\ \A i, j \in 1 .. Len(sorted) : i < j => sorted[i] <= sorted[j]
    BY SortInts DEF sorted
  <2>2. QED
    BY <2>1
<1> HIDE DEF sorted
<1> DEFINE K == {i \in DOMAIN s : i = 1 \/ s[i - 1] # s[i]}
<1>3. Len(s) \in Nat /\ DOMAIN s = 1 .. Len(s) /\ \A i \in 1 .. Len(s) : s[i] \in Int
  BY <1>2
<1>4. t = Selected(s, K)
  BY <1>1, <1>2
<1>5. IncreasingAt(s, K, IntLess)
  <2> SUFFICES ASSUME NEW i \in K, NEW j \in K, i < j PROVE s[i] < s[j]
    BY <1>3 DEF IntLess, IncreasingAt
  <2>1. i \in 1 .. Len(s) /\ j \in 1 .. Len(s) /\ j # 1 /\ s[j - 1] # s[j]
    BY <1>3
  <2>2. j - 1 \in 1 .. Len(s) /\ j - 1 < j /\ (i = j - 1 \/ i < j - 1)
    BY <1>3, <2>1
  <2>3. s[j - 1] <= s[j] /\ s[i] <= s[j - 1]
    BY <1>2, <1>3, <2>1, <2>2
  <2>4. QED
    BY <1>3, <2>1, <2>2, <2>3
<1>6. Kept(s, K) = Range(s)
  <2>1. ASSUME NEW j \in 1 .. Len(s) PROVE \E i \in K : s[i] = s[j]
    <3> DEFINE T == {i \in 1 .. Len(s) : s[i] = s[j]}
    <3>1. PICK i \in T : \A m \in T : i <= m
      <4>1. j \in T /\ T \subseteq Nat
        OBVIOUS
      <4>2. QED
        BY <4>1, Least
    <3>2. i # 1 => s[i - 1] # s[i]
      <4> SUFFICES ASSUME i # 1, s[i - 1] = s[i] PROVE FALSE
        OBVIOUS
      <4>1. i - 1 \in T
        BY <1>3, <3>1
      <4>2. QED
        BY <1>3, <3>1, <4>1
    <3>3. QED
      BY <1>3, <3>1, <3>2
  <2>2. \A x \in Kept(s, K) : x \in Range(s)
    BY <1>3 DEF Range, Kept
  <2>3. \A x \in Range(s) : x \in Kept(s, K)
    BY <1>3, <2>1, SMTT(30) DEF Range, Kept
  <2>4. QED
    <3> HIDE DEF K
    <3>1. QED
      BY <2>2, <2>3
<1>7. /\ Selected(s, K) \in Seq(Int)
       /\ Range(Selected(s, K)) = Kept(s, K)
       /\ Increasing(Selected(s, K), IntLess)
  <2> HIDE DEF K
  <2>1. QED
    BY <1>2, <1>5, SelectedElements
<1>8. QED
  <2> HIDE DEF K
  <2>1. QED
    BY <1>2, <1>4, <1>6, <1>7, AscendingIncreases

(* Ports of a part of the specification. *)
LEMMA RangeParsed ==
    ASSUME NEW part \in [lo : Int, hi : Int], parseRange(part) # None
    PROVE  parseRange(part) \in Seq(Int) /\ Range(parseRange(part)) = part.lo .. part.hi
<1> DEFINE n == part.hi - part.lo + 1
           t == [i \in 1 .. n |-> part.lo + i - 1]
<1>1. part.lo \in Int /\ part.hi \in Int /\ part.lo <= part.hi /\ parseRange(part) = t
  BY DEF parseRange
<1>2. n \in Nat
  BY <1>1
<1>3. t \in [1 .. n -> Int] /\ DOMAIN t = 1 .. n
  BY <1>1
<1>4. t \in Seq(Int)
  BY <1>2, <1>3, SMTT(30)
<1>5. \A x \in part.lo .. part.hi : x - part.lo + 1 \in 1 .. n /\ t[x - part.lo + 1] = x
  BY <1>1
<1>6. \A i \in 1 .. n : t[i] \in part.lo .. part.hi
  BY <1>1
<1> HIDE DEF t, n
<1>7. Range(t) = part.lo .. part.hi
  BY <1>3, <1>5, <1>6 DEF Range
<1>8. QED
  BY <1>1, <1>4, <1>7

(* The ports of a specification that parses, however they were written:    *)
(* each once, in ascending order.                                          *)
LEMMA PortsParsed ==
    ASSUME NEW spec \in Seq([lo : Int, hi : Int]), ParsePorts(spec) # None
    PROVE  /\ ParsePorts(spec) \in Seq(Int)
           /\ \A x : x \in Range(ParsePorts(spec)) <=>
                  \E i \in DOMAIN spec : x \in spec[i].lo .. spec[i].hi
           /\ StrictlyAscending(ParsePorts(spec))
<1> DEFINE N == Len(spec)
           ss == [i \in DOMAIN spec |-> parseRange(spec[i])]
           A == Seq(Int)
           all == FlattenSeq(ss)
<1>1. N \in Nat /\ DOMAIN spec = 1 .. N /\ \A i \in 1 .. N : spec[i] \in [lo : Int, hi : Int]
  BY SeqFacts
<1>2. /\ spec # <<>> /\ \A i \in 1 .. N : parseRange(spec[i]) # None
      /\ ParsePorts(spec) = sortAndDedupe(all)
  BY <1>1 DEF ParsePorts
<1>3. \A i \in 1 .. N : ss[i] \in A /\ Range(ss[i]) = spec[i].lo .. spec[i].hi
  BY <1>1, <1>2, RangeParsed
<1>4. Len(ss) = N
  <2>1. DOMAIN ss = 1 .. N /\ ss = [i \in 1 .. N |-> ss[i]]
    BY <1>1
  <2> HIDE DEF ss, A, N
  <2>2. QED
    BY <1>1, <1>3, <2>1, SeqByIndex
<1>5. N # 0
  BY <1>1, <1>2
<1>6. all \in A /\ \A x : x \in Range(all) <=> \E i \in 1 .. N : x \in Range(ss[i])
  <2>1. A = Seq(Int)
    OBVIOUS
  <2> HIDE DEF ss, N, A
  <2>2. /\ all \in A /\ HasParts(all, ss, N)
        /\ PartsIncrease(ss, N, IntLess) => Increasing(all, IntLess)
    BY <1>1, <1>3, <1>4, <1>5, <2>1, Flattened
  <2>3. QED
    BY <2>2 DEF HasParts
<1>7. \A x : x \in Range(all) <=> \E i \in 1 .. N : x \in spec[i].lo .. spec[i].hi
  <2> HIDE DEF ss, all
  <2>1. QED
    BY <1>3, <1>6
<1>8. /\ ParsePorts(spec) \in Seq(Int) /\ Range(ParsePorts(spec)) = Range(all)
      /\ StrictlyAscending(ParsePorts(spec))
  <2> HIDE DEF all
  <2>1. QED
    BY <1>2, <1>6, Deduped
<1>9. QED
  <2> HIDE DEF all
  <2>1. QED
    BY <1>1, <1>7, <1>8

SizesFrom(min, max, step) == {s \in min .. max : (s - min) % step = 0}

(* The sizes of a valid configuration: from min in steps, up to max. *)
LEMMA SizesGenerated ==
    ASSUME NEW min \in Int, NEW max \in Int, NEW step \in Int, min <= max, step > 0,
           NEW t, t = generateSizes(min, max, step)
    PROVE  /\ t \in Seq(Int) /\ StrictlyAscending(t)
           /\ Range(t) = SizesFrom(min, max, step)
<1> DEFINE n == (max - min) \div step + 1
<1>1. /\ (max - min) \div step \in Int
      /\ step * ((max - min) \div step) <= max - min
      /\ max - min < step * ((max - min) \div step) + step
  OBVIOUS
<1>2. n \in Nat /\ n > 0 /\ step * (n - 1) <= max - min /\ max - min < step * n
  BY <1>1
<1>3. t = [i \in 1 .. n |-> min + (i - 1) * step]
  BY DEF generateSizes
<1> HIDE DEF n
<1>4. \A i \in 1 .. n : t[i] = min + (i - 1) * step /\ t[i] \in Int
  BY <1>3
<1>5. t \in Seq(Int) /\ Len(t) = n /\ DOMAIN t = 1 .. n
  <2>1. t \in [1 .. n -> Int]
    BY <1>3, <1>4
  <2>2. QED
    BY <1>2, <2>1
<1>6. StrictlyAscending(t)
  <2> SUFFICES ASSUME NEW i \in 1 .. n, NEW j \in 1 .. n, i < j PROVE t[i] < t[j]
    BY <1>5 DEF StrictlyAscending
  <2>1. (i - 1) * step < (j - 1) * step
    <3>1. \A a, b \in Int : a < b => a * step < b * step
      OBVIOUS
    <3>2. QED
      BY <1>2, <3>1
  <2>2. QED
    BY <1>4, <2>1
<1>7. ASSUME NEW i \in 1 .. n PROVE t[i] \in min .. max /\ (t[i] - min) % step = 0
  <2>1. 0 <= (i - 1) * step /\ (i - 1) * step <= step * (n - 1)
    BY <1>2
  <2>2. ((i - 1) * step) % step = 0
    <3>1. \A k \in Int : (k * step) % step = 0
      OBVIOUS
    <3>2. QED
      BY <1>2, <3>1
  <2>3. QED
    BY <1>2, <1>4, <2>1, <2>2
<1>8. ASSUME NEW s \in min .. max, (s - min) % step = 0 PROVE \E i \in 1 .. n : t[i] = s
  <2> DEFINE k == (s - min) \div step
  <2>1. k \in Int /\ s - min = step * k
    BY <1>8
  <2> HIDE DEF k
  <2>2. k >= 0 /\ k < n
    <3>1. step * k >= 0 /\ step * k < step * n
      BY <1>2, <2>1
    <3>2. QED
      BY <1>2, <2>1, <3>1
  <2>3. k + 1 \in 1 .. n /\ t[k + 1] = s
    <3>1. k + 1 \in 1 .. n /\ (k + 1) - 1 = k
      BY <1>2, <2>1, <2>2
    <3>2. t[k + 1] = min + k * step
      BY <1>4, <3>1
    <3>3. QED
      BY <2>1, <3>1, <3>2
  <2>4. QED
    BY <2>3
<1>9. Range(t) = SizesFrom(min, max, step)
  BY <1>5, <1>7, <1>8 DEF Range, SizesFrom
<1>10. QED
  BY <1>5, <1>6, <1>9
-----------------------------------------------------------------------------
(***************************************************************************)
(* The plan: four nested loops.                                             *)
(***************************************************************************)
PlansOf(F, P, D, S) == [family : F, port : P, direction : D, size : S]

AnyPlan == PlansOf(Int, Int, Int, Int)

(* The order in which the tests are run. *)
PlanLess ==
    {x \in AnyPlan \X AnyPlan :
        \/ KeyLess(GroupKey(x[1]), GroupKey(x[2]))
        \/ GroupKey(x[1]) = GroupKey(x[2]) /\ x[1].size < x[2].size}

SizeLoop(f, p, d, ss) ==
    [i \in DOMAIN ss |-> [family |-> f, port |-> p, direction |-> d, size |-> ss[i]]]
DirectionLoop(f, p, ds, ss) ==
    FlattenSeq([i \in DOMAIN ds |-> SizeLoop(f, p, ds[i], ss)])
PortLoop(f, ps, ds, ss) ==
    FlattenSeq([i \in DOMAIN ps |-> DirectionLoop(f, ps[i], ds, ss)])
FamilyLoop(fs, ps, ds, ss) ==
    FlattenSeq([i \in DOMAIN fs |-> PortLoop(fs[i], ps, ds, ss)])

(* A loop over the sequence xs that appends ss[i] for the element xs[i]. *)
LEMMA LoopFlattens ==
    ASSUME NEW xs \in Seq(Int), NEW S, NEW A, A = Seq(S), NEW R,
           NEW ss, ss = [i \in DOMAIN xs |-> ss[i]], \A i \in DOMAIN xs : ss[i] \in A
    PROVE  /\ FlattenSeq(ss) \in A
           /\ HasParts(FlattenSeq(ss), ss, Len(xs))
           /\ PartsIncrease(ss, Len(xs), R) => Increasing(FlattenSeq(ss), R)
<1> DEFINE N == Len(xs)
<1>1. N \in Nat /\ DOMAIN xs = 1 .. N
  OBVIOUS
<1> HIDE DEF N
<1>2. DOMAIN ss = 1 .. N /\ ss = [i \in 1 .. N |-> ss[i]] /\ \A i \in 1 .. N : ss[i] \in A
  BY <1>1
<1>3. ss \in Seq(A) /\ Len(ss) = N
  BY <1>1, <1>2, SeqByIndex
<1>4. N = 0 => ss = <<>>
  BY <1>3
<1>5. QED
  BY <1>1, <1>2, <1>3, <1>4, Flattened DEF N

(* What a loop of the plan yields: the tests of T, in their order. *)
Yields(t, T) ==
    t \in Seq(AnyPlan) /\ Increasing(t, PlanLess) /\ \A x : x \in Range(t) <=> x \in T

(* The loop over the sizes. *)
LEMMA SizeLoopYields ==
    ASSUME NEW f \in Int, NEW p \in Int, NEW d \in Int,
           NEW ss \in Seq(Int), StrictlyAscending(ss)
    PROVE  Yields(SizeLoop(f, p, d, ss), PlansOf({f}, {p}, {d}, Range(ss)))
<1> DEFINE t == SizeLoop(f, p, d, ss)
           N == Len(ss)
<1>1. N \in Nat /\ DOMAIN ss = 1 .. N /\ \A i \in 1 .. N : ss[i] \in Int
  OBVIOUS
<1>2. /\ DOMAIN t = 1 .. N
      /\ \A i \in 1 .. N : t[i] = [family |-> f, port |-> p, direction |-> d, size |-> ss[i]]
      /\ t = [i \in 1 .. N |-> t[i]]
  BY <1>1 DEF SizeLoop
<1> HIDE DEF t
<1>3. \A i \in 1 .. N : t[i] \in AnyPlan
  BY <1>1, <1>2 DEF AnyPlan, PlansOf
<1>4. t \in Seq(AnyPlan) /\ Len(t) = N
  <2> HIDE DEF N
  <2>1. QED
    BY <1>1, <1>2, <1>3, SeqByIndex
<1>5. Increasing(t, PlanLess)
  <2> SUFFICES ASSUME NEW i \in 1 .. N, NEW j \in 1 .. N, i < j
               PROVE  <<t[i], t[j]>> \in PlanLess
    BY <1>4 DEF Increasing
  <2>1. GroupKey(t[i]) = GroupKey(t[j]) /\ t[i].size < t[j].size
    BY <1>2 DEF GroupKey, StrictlyAscending
  <2>2. <<t[i], t[j]>> \in AnyPlan \X AnyPlan
    BY <1>3
  <2>3. QED
    BY <2>1, <2>2 DEF PlanLess
<1>6. ASSUME NEW x PROVE x \in Range(t) <=> x \in PlansOf({f}, {p}, {d}, Range(ss))
  <2>1. x \in Range(t) <=> \E i \in 1 .. N : x = t[i]
    BY <1>2 DEF Range
  <2>2. \A i \in 1 .. N : t[i] \in PlansOf({f}, {p}, {d}, Range(ss))
    BY <1>1, <1>2 DEF Range, PlansOf
  <2>3. ASSUME x \in PlansOf({f}, {p}, {d}, Range(ss)) PROVE \E i \in 1 .. N : x = t[i]
    <3>1. x.family = f /\ x.port = p /\ x.direction = d /\ x.size \in Range(ss)
      BY <2>3 DEF PlansOf
    <3>2. PICK i \in 1 .. N : x.size = ss[i]
      BY <1>1, <3>1 DEF Range
    <3>3. x = [family |-> f, port |-> p, direction |-> d, size |-> ss[i]]
      BY <2>3, <3>1, <3>2 DEF PlansOf
    <3>4. QED
      BY <1>2, <3>2, <3>3
  <2>4. QED
    BY <2>1, <2>2, <2>3
<1>7. QED
  BY <1>4, <1>5, <1>6 DEF Yields, t

(* A loop over xs whose bodies yield parts in the order of the tests. *)
LEMMA LoopYields ==
    ASSUME NEW xs \in Seq(Int), NEW ss, ss = [i \in DOMAIN xs |-> ss[i]], NEW part,
           \A i \in DOMAIN xs : Yields(ss[i], part[i]),
           \A i, j \in DOMAIN xs : i < j =>
               \A a \in part[i], b \in part[j] : a \in AnyPlan /\ b \in AnyPlan
                                                 => <<a, b>> \in PlanLess,
           NEW T, \A x : x \in T <=> \E i \in DOMAIN xs : x \in part[i]
    PROVE  Yields(FlattenSeq(ss), T)
<1> DEFINE A == Seq(AnyPlan)
           N == Len(xs)
           all == FlattenSeq(ss)
<1>1. N \in Nat /\ DOMAIN xs = 1 .. N
  OBVIOUS
<1>2. \A i \in 1 .. N : /\ ss[i] \in A /\ Increasing(ss[i], PlanLess)
                        /\ \A x : x \in Range(ss[i]) <=> x \in part[i]
  BY <1>1 DEF Yields
<1>3. ASSUME NEW i \in 1 .. N, NEW x \in Range(ss[i]) PROVE x \in AnyPlan
  <2>1. ss[i] \in Seq(AnyPlan)
    BY <1>2
  <2>2. QED
    BY <2>1, <1>3, SeqFacts DEF Range
<1>4. PartsIncrease(ss, N, PlanLess)
  <2> HIDE DEF N, A
  <2>1. QED
    BY <1>1, <1>2, <1>3 DEF PartsIncrease
<1>5. all \in A /\ HasParts(all, ss, N) /\ Increasing(all, PlanLess)
  <2>1. A = Seq(AnyPlan)
    OBVIOUS
  <2> HIDE DEF A
  <2>2. \A i \in DOMAIN xs : ss[i] \in A
    BY <1>1, <1>2
  <2>3. QED
    BY <1>4, <2>1, <2>2, LoopFlattens
<1>6. \A x : x \in Range(all) <=> x \in T
  <2> HIDE DEF N, A, all
  <2>1. QED
    BY <1>1, <1>2, <1>5 DEF HasParts
<1>7. QED
  BY <1>5, <1>6 DEF Yields

(* The loop over the directions. *)
LEMMA DirectionLoopYields ==
    ASSUME NEW f \in Int, NEW p \in Int,
           NEW ds \in Seq(Int), StrictlyAscending(ds),
           NEW ss \in Seq(Int), StrictlyAscending(ss)
    PROVE  Yields(DirectionLoop(f, p, ds, ss), PlansOf({f}, {p}, Range(ds), Range(ss)))
<1> DEFINE Z == Range(ss)
           part == [i \in DOMAIN ds |-> PlansOf({f}, {p}, {ds[i]}, Z)]
           parts == [i \in DOMAIN ds |-> SizeLoop(f, p, ds[i], ss)]
           T == PlansOf({f}, {p}, Range(ds), Z)
<1>1. DOMAIN ds = 1 .. Len(ds) /\ \A i \in DOMAIN ds : ds[i] \in Int
  OBVIOUS
<1>2. \A i \in DOMAIN ds : Yields(parts[i], part[i])
  BY <1>1, SizeLoopYields
<1>3. ASSUME NEW i \in DOMAIN ds, NEW j \in DOMAIN ds, i < j,
             NEW a \in part[i], NEW b \in part[j], a \in AnyPlan, b \in AnyPlan
      PROVE  <<a, b>> \in PlanLess
  <2>1. a.family = b.family /\ a.port = b.port /\ a.direction < b.direction
    BY <1>1, <1>3 DEF PlansOf, StrictlyAscending
  <2>2. KeyLess(GroupKey(a), GroupKey(b))
    BY <2>1 DEF KeyLess, GroupKey
  <2>3. QED
    BY <1>3, <2>2 DEF PlanLess
<1>4. ASSUME NEW x PROVE x \in T <=> \E i \in DOMAIN ds : x \in part[i]
  <2> HIDE DEF Z
  <2>1. QED
    BY DEF PlansOf, Range
<1>5. parts = [i \in DOMAIN ds |-> parts[i]]
  OBVIOUS
<1>6. Yields(FlattenSeq(parts), T)
  <2> HIDE DEF part, parts, T
  <2>1. \A i, j \in DOMAIN ds : i < j =>
          \A a \in part[i], b \in part[j] : a \in AnyPlan /\ b \in AnyPlan
                                            => <<a, b>> \in PlanLess
    BY <1>3
  <2>2. QED
    BY <1>2, <1>4, <1>5, <2>1, LoopYields
<1>7. QED
  BY <1>6 DEF DirectionLoop

(* The loop over the ports. *)
LEMMA PortLoopYields ==
    ASSUME NEW f \in Int, NEW ps \in Seq(Int), StrictlyAscending(ps),
           NEW ds \in Seq(Int), StrictlyAscending(ds),
           NEW ss \in Seq(Int), StrictlyAscending(ss)
    PROVE  Yields(PortLoop(f, ps, ds, ss), PlansOf({f}, Range(ps), Range(ds), Range(ss)))
<1> DEFINE Z == Range(ss)
           D == Range(ds)
           part == [i \in DOMAIN ps |-> PlansOf({f}, {ps[i]}, D, Z)]
           parts == [i \in DOMAIN ps |-> DirectionLoop(f, ps[i], ds, ss)]
           T == PlansOf({f}, Range(ps), D, Z)
<1>1. DOMAIN ps = 1 .. Len(ps) /\ \A i \in DOMAIN ps : ps[i] \in Int
  OBVIOUS
<1>2. \A i \in DOMAIN ps : Yields(parts[i], part[i])
  BY <1>1, DirectionLoopYields
<1>3. ASSUME NEW i \in DOMAIN ps, NEW j \in DOMAIN ps, i < j,
             NEW a \in part[i], NEW b \in part[j], a \in AnyPlan, b \in AnyPlan
      PROVE  <<a, b>> \in PlanLess
  <2>1. a.family = b.family /\ a.port < b.port
    BY <1>1, <1>3 DEF PlansOf, StrictlyAscending
  <2>2. KeyLess(GroupKey(a), GroupKey(b))
    BY <2>1 DEF KeyLess, GroupKey
  <2>3. QED
    BY <1>3, <2>2 DEF PlanLess
<1>4. ASSUME NEW x PROVE x \in T <=> \E i \in DOMAIN ps : x \in part[i]
  <2> HIDE DEF Z, D
  <2>1. QED
    BY DEF PlansOf, Range
<1>5. parts = [i \in DOMAIN ps |-> parts[i]]
  OBVIOUS
<1>6. Yields(FlattenSeq(parts), T)
  <2> HIDE DEF part, parts, T
  <2>1. \A i, j \in DOMAIN ps : i < j =>
          \A a \in part[i], b \in part[j] : a \in AnyPlan /\ b \in AnyPlan
                                            => <<a, b>> \in PlanLess
    BY <1>3
  <2>2. QED
    BY <1>2, <1>4, <1>5, <2>1, LoopYields
<1>7. QED
  BY <1>6 DEF PortLoop

(* The loop over the families. *)
LEMMA FamilyLoopYields ==
    ASSUME NEW fs \in Seq(Int), StrictlyAscending(fs),
           NEW ps \in Seq(Int), StrictlyAscending(ps),
           NEW ds \in Seq(Int), StrictlyAscending(ds),
           NEW ss \in Seq(Int), StrictlyAscending(ss)
    PROVE  Yields(FamilyLoop(fs, ps, ds, ss),
                  PlansOf(Range(fs), Range(ps), Range(ds), Range(ss)))
<1> DEFINE Z == Range(ss)
           D == Range(ds)
           Q == Range(ps)
           part == [i \in DOMAIN fs |-> PlansOf({fs[i]}, Q, D, Z)]
           parts == [i \in DOMAIN fs |-> PortLoop(fs[i], ps, ds, ss)]
           T == PlansOf(Range(fs), Q, D, Z)
<1>1. DOMAIN fs = 1 .. Len(fs) /\ \A i \in DOMAIN fs : fs[i] \in Int
  OBVIOUS
<1>2. \A i \in DOMAIN fs : Yields(parts[i], part[i])
  BY <1>1, PortLoopYields
<1>3. ASSUME NEW i \in DOMAIN fs, NEW j \in DOMAIN fs, i < j,
             NEW a \in part[i], NEW b \in part[j], a \in AnyPlan, b \in AnyPlan
      PROVE  <<a, b>> \in PlanLess
  <2>1. a.family < b.family
    BY <1>1, <1>3 DEF PlansOf, StrictlyAscending
  <2>2. KeyLess(GroupKey(a), GroupKey(b))
    BY <2>1 DEF KeyLess, GroupKey
  <2>3. QED
    BY <1>3, <2>2 DEF PlanLess
<1>4. ASSUME NEW x PROVE x \in T <=> \E i \in DOMAIN fs : x \in part[i]
  <2> HIDE DEF Z, D, Q
  <2>1. QED
    BY DEF PlansOf, Range
<1>5. parts = [i \in DOMAIN fs |-> parts[i]]
  OBVIOUS
<1>6. Yields(FlattenSeq(parts), T)
  <2> HIDE DEF part, parts, T
  <2>1. \A i, j \in DOMAIN fs : i < j =>
          \A a \in part[i], b \in part[j] : a \in AnyPlan /\ b \in AnyPlan
                                            => <<a, b>> \in PlanLess
    BY <1>3
  <2>2. QED
    BY <1>2, <1>4, <1>5, <2>1, LoopYields
<1>7. QED
  BY <1>6 DEF FamilyLoop
(* What a configuration tests. *)
Families(c) == (IF c.target4 THEN {0} ELSE {}) \cup (IF c.target6 THEN {1} ELSE {})
Directions(c) == {d \in {0, 1} : c.direction \in {d, 2}}
Ports(c) == UNION {c.ports[i].lo .. c.ports[i].hi : i \in DOMAIN c.ports}
Sizes(c) == SizesFrom(c.min, c.max, c.step)

(* The families are those that have a target, IPv4 first. *)
LEMMA FamiliesDetermined ==
    ASSUME NEW c \in CommandLine
    PROVE  /\ determineFamilies(c) \in Seq(Int) /\ StrictlyAscending(determineFamilies(c))
           /\ Range(determineFamilies(c)) = Families(c)
<1> DEFINE t == determineFamilies(c)
<1>1. \/ t = <<0>> \o <<1>> /\ Families(c) = {0, 1}
      \/ t = <<0>> \o <<>> /\ Families(c) = {0}
      \/ t = <<>> \o <<1>> /\ Families(c) = {1}
      \/ t = <<>> \o <<>> /\ Families(c) = {}
  BY DEF determineFamilies, Families
<1> HIDE DEF t
<1>2. <<0>> \in Seq(Int) /\ <<1>> \in Seq(Int) /\ <<>> \in Seq(Int)
  OBVIOUS
<1>3. CASE t = <<0>> \o <<1>> /\ Families(c) = {0, 1}
  <2>1. t \in Seq(Int) /\ DOMAIN t = 1 .. 2 /\ Len(t) = 2 /\ t[1] = 0 /\ t[2] = 1
    BY <1>2, <1>3
  <2>2. QED
    BY <1>3, <2>1 DEF StrictlyAscending, Range, t
<1>4. CASE t = <<0>> \o <<>> /\ Families(c) = {0}
  <2>1. t \in Seq(Int) /\ DOMAIN t = 1 .. 1 /\ Len(t) = 1 /\ t[1] = 0
    BY <1>2, <1>4
  <2>2. QED
    BY <1>4, <2>1 DEF StrictlyAscending, Range, t
<1>5. CASE t = <<>> \o <<1>> /\ Families(c) = {1}
  <2>1. t \in Seq(Int) /\ DOMAIN t = 1 .. 1 /\ Len(t) = 1 /\ t[1] = 1
    BY <1>2, <1>5
  <2>2. QED
    BY <1>5, <2>1 DEF StrictlyAscending, Range, t
<1>6. CASE t = <<>> \o <<>> /\ Families(c) = {}
  <2>1. t \in Seq(Int) /\ DOMAIN t = 1 .. 0 /\ Len(t) = 0
    BY <1>2, <1>6
  <2>2. QED
    BY <1>6, <2>1 DEF StrictlyAscending, Range, t
<1>7. QED
  BY <1>1, <1>3, <1>4, <1>5, <1>6

(* The direction "both" stands for uplink and downlink. *)
LEMMA DirectionsDetermined ==
    ASSUME NEW c \in CommandLine
    PROVE  /\ determineDirections(c.direction) \in Seq(Int)
           /\ StrictlyAscending(determineDirections(c.direction))
           /\ Range(determineDirections(c.direction)) = Directions(c)
<1> DEFINE d == c.direction
           t == determineDirections(d)
<1>1. d \in 0 .. 2
  BY DEF CommandLine
<1>2. CASE d = 2
  <2>1. t = <<0, 1>> /\ Directions(c) = {0, 1}
    BY <1>2 DEF determineDirections, Directions
  <2> HIDE DEF t
  <2>2. t \in Seq(Int) /\ DOMAIN t = 1 .. 2 /\ Len(t) = 2 /\ t[1] = 0 /\ t[2] = 1
    BY <2>1
  <2>3. QED
    BY <2>1, <2>2 DEF StrictlyAscending, Range, t
<1>3. CASE d # 2
  <2>1. t = <<d>> /\ Directions(c) = {d}
    BY <1>1, <1>3 DEF determineDirections, Directions
  <2> HIDE DEF t
  <2>2. t \in Seq(Int) /\ DOMAIN t = 1 .. 1 /\ Len(t) = 1 /\ t[1] = d
    BY <1>1, <2>1
  <2>3. QED
    BY <2>1, <2>2 DEF StrictlyAscending, Range, t
<1>4. QED
  BY <1>2, <1>3

(* The plan of a valid configuration. *)
LEMMA PlanBuilt ==
    ASSUME NEW c \in CommandLine, Validate(c), ParsePorts(c.ports) # None
    PROVE  Yields(BuildSweepPlan(c, ParsePorts(c.ports)),
                  PlansOf(Families(c), Ports(c), Directions(c), Sizes(c)))
<1> DEFINE fs == determineFamilies(c)
           ds == determineDirections(c.direction)
           ss == generateSizes(c.min, c.max, c.step)
           ports == ParsePorts(c.ports)
           ps == Sort(ports, Ascending)
<1>1. /\ c.ports \in Seq([lo : Int, hi : Int])
      /\ c.min \in Int /\ c.max \in Int /\ c.step \in Int /\ c.min <= c.max /\ c.step > 0
  BY DEF CommandLine, Validate
<1>2. BuildSweepPlan(c, ports) = FamilyLoop(fs, ps, ds, ss)
  BY DEF BuildSweepPlan, FamilyLoop, PortLoop, DirectionLoop, SizeLoop
<1>3. fs \in Seq(Int) /\ StrictlyAscending(fs) /\ Range(fs) = Families(c)
  BY FamiliesDetermined
<1>4. ds \in Seq(Int) /\ StrictlyAscending(ds) /\ Range(ds) = Directions(c)
  BY DirectionsDetermined
<1>5. ss \in Seq(Int) /\ StrictlyAscending(ss) /\ Range(ss) = Sizes(c)
  <2>1. ss = generateSizes(c.min, c.max, c.step)
    OBVIOUS
  <2> HIDE DEF ss
  <2>2. /\ ss \in Seq(Int) /\ StrictlyAscending(ss)
        /\ Range(ss) = SizesFrom(c.min, c.max, c.step)
    BY <1>1, <2>1, SizesGenerated, ZenonT(30)
  <2>3. QED
    BY <2>2 DEF Sizes
<1>6. /\ ports \in Seq(Int) /\ StrictlyAscending(ports)
      /\ \A x : x \in Range(ports) <=>
             \E i \in DOMAIN c.ports : x \in c.ports[i].lo .. c.ports[i].hi
  BY <1>1, PortsParsed
<1> HIDE DEF fs, ds, ss, ports, ps
<1>7. ps \in Seq(Int) /\ StrictlyAscending(ps) /\ Range(ps) = Range(ports)
  BY <1>6, SortedAgain DEF ps
<1>8. Range(ps) = Ports(c)
  BY <1>6, <1>7 DEF Ports
<1>9. Yields(FamilyLoop(fs, ps, ds, ss), PlansOf(Range(fs), Range(ps), Range(ds), Range(ss)))
  BY <1>3, <1>4, <1>5, <1>7, FamilyLoopYields
<1>10. QED
  BY <1>2, <1>3, <1>4, <1>5, <1>8, <1>9 DEF ports

-----------------------------------------------------------------------------
(***************************************************************************)
(* What every reachable state satisfies: there are no tests before the plan *)
(* is made, and the plan that is run yields the tests of its configuration. *)
(***************************************************************************)
PlanInv ==
    /\ cfg \in Configs
    /\ phase \in {"config", "run", "done", "exit"}
    /\ phase \in {"run", "done"} =>
          /\ Validate(cfg) /\ ParsePorts(cfg.ports) # None
          /\ plans = BuildSweepPlan(cfg, ParsePorts(cfg.ports))

(* Plan is the only step that changes the plan. *)
LEMMA PlanMade == Spec => []PlanInv
<1>1. Init => PlanInv
  BY DEF Init, LoopInit, PlanInv
<1>2. PlanInv /\ [Next]_vars => PlanInv'
  <2> SUFFICES ASSUME PlanInv, [Next]_vars PROVE PlanInv'
    OBVIOUS
  <2>1. CASE Plan
    <3>1. /\ phase = "config" /\ ConfigOk /\ cfg' = cfg
          /\ \/ phase' = "exit"
             \/ phase' = "run" /\ plans' = BuildSweepPlan(cfg, ParsePorts(cfg.ports))
      BY <2>1 DEF Plan
    <3>2. QED
      BY <3>1 DEF PlanInv, ConfigOk
  <2>2. CASE RejectConfig
    BY <2>2 DEF PlanInv, RejectConfig
  <2>3. CASE TestOk \/ TestFails \/ ConnectFails \/ Report
    <3>1. /\ phase = "run" /\ phase' \in {"run", "done", "exit"}
          /\ cfg' = cfg /\ plans' = plans
      BY <2>3 DEF TestOk, TestFails, ConnectFails, Report, LoopEnds, PlanInv
    <3>2. QED
      BY <3>1 DEF PlanInv
  <2>4. CASE Terminated \/ UNCHANGED vars
    BY <2>4 DEF PlanInv, Terminated, vars, loop
  <2>5. QED
    BY <2>1, <2>2, <2>3, <2>4 DEF Next, LoopStep
<1>3. QED
  BY <1>1, <1>2, PTL DEF Spec

(* NewClientConfig and BuildSweepPlan: however the ports were written, the  *)
(* plan that is run has every family, port, direction and size of the       *)
(* configuration exactly once, in ascending order.                          *)
THEOREM PlanIsExact == Spec => []PlanExact
<1>1. PlanInv => PlanExact
  <2> SUFFICES ASSUME PlanInv, phase = "run" PROVE PlanExact
    BY DEF PlanExact
  <2>1. Yields(plans, PlansOf(Families(cfg), Ports(cfg), Directions(cfg), Sizes(cfg)))
    BY SweepAssumption, PlanBuilt DEF PlanInv
  <2>2. /\ plans \in Seq(AnyPlan) /\ Increasing(plans, PlanLess)
        /\ \A x : x \in Range(plans) <=>
               x \in PlansOf(Families(cfg), Ports(cfg), Directions(cfg), Sizes(cfg))
    BY <2>1 DEF Yields
  <2>3. {plans[i] : i \in DOMAIN plans} =
             [family : Families(cfg), port : Ports(cfg),
              direction : Directions(cfg), size : Sizes(cfg)]
    <3> DEFINE T == PlansOf(Families(cfg), Ports(cfg), Directions(cfg), Sizes(cfg))
    <3> HIDE DEF T
    <3>1. \A x : x \in {plans[i] : i \in DOMAIN plans} <=> x \in T
      BY <2>2 DEF Range, T
    <3>2. {plans[i] : i \in DOMAIN plans} = T
      BY <3>1
    <3>3. QED
      BY <3>2 DEF T, PlansOf
  <2>4. ASSUME NEW i \in 1 .. Len(plans) - 1
        PROVE  \/ KeyLess(GroupKey(plans[i]), GroupKey(plans[i + 1]))
               \/ /\ GroupKey(plans[i]) = GroupKey(plans[i + 1])
                  /\ plans[i].size < plans[i + 1].size
    <3>1. i \in 1 .. Len(plans) /\ i + 1 \in 1 .. Len(plans) /\ i < i + 1
      BY <2>2
    <3>2. <<plans[i], plans[i + 1]>> \in PlanLess
      BY <2>2, <3>1 DEF Increasing
    <3>3. QED
      BY <3>2 DEF PlanLess
  <2>5. Ports(cfg) = PlannedPorts
    BY DEF Ports, PlannedPorts
  <2>6. QED
    BY <2>3, <2>4, <2>5 DEF PlanExact, Families, Directions, Sizes, SizesFrom
<1>2. QED
  BY <1>1, PlanMade, PTL
-----------------------------------------------------------------------------
(***************************************************************************)
(* The duration limit.                                                      *)
(***************************************************************************)
(* Durations that fit do not wrap. *)
LEMMA Fits ==
    ASSUME NEW x \in MinInt .. MaxInt
    PROVE  Wrap(x) = x
BY SweepAssumption DEF Wrap, MinInt

(* The overhead of a tenth is never negative. *)
LEMMA Overhead ==
    ASSUME NEW x \in Nat
    PROVE  TimesElevenTenths(x) \in Nat /\ TimesElevenTenths(x) >= x
BY DEF TimesElevenTenths

(* If the duration of n tests fits, the estimate is exact. *)
LEMMA EstimateExact ==
    ASSUME NEW c \in CommandLine, Validate(c), NEW n \in Nat, n # 0,
           TimesElevenTenths(c.interval * c.count) * n <= MaxInt
    PROVE  EstimateDuration(c, n) = {TimesElevenTenths(c.interval * c.count) * n}
<1> DEFINE p == c.interval * c.count
           x == TimesElevenTenths(p)
<1>1. c.interval \in Nat /\ c.count \in Nat
  BY DEF CommandLine, Validate
<1>2. p \in Nat
  BY <1>1
<1>3. x \in Nat /\ x >= p /\ x * n <= MaxInt
  BY <1>2, Overhead
<1>4. EstimateDuration(c, n) = {Wrap(y * n) : y \in FloatToInt(TimesElevenTenths(Wrap(p)))}
  BY DEF EstimateDuration
<1> HIDE DEF p, x
<1>5. x <= x * n /\ x * n \in Nat
  BY <1>3
<1>6. p \in MinInt .. MaxInt /\ x \in MinInt .. MaxInt /\ x * n \in MinInt .. MaxInt
  BY <1>2, <1>3, <1>5, SweepAssumption DEF MinInt
<1>7. Wrap(p) = p /\ Wrap(x * n) = x * n
  BY <1>6, Fits
<1>8. FloatToInt(x) = {x}
  <2>1. ~(x > MaxInt) /\ ~(x < MinInt)
    BY <1>3, <1>6, SweepAssumption DEF MinInt
  <2>2. QED
    BY <1>6, <2>1 DEF FloatToInt
<1>9. TimesElevenTenths(Wrap(p)) = x
  BY <1>7 DEF x
<1>10. EstimateDuration(c, n) = {Wrap(x * n)}
  BY <1>4, <1>8, <1>9
<1>11. QED
  BY <1>7, <1>10 DEF p, x

(* CheckDurationLimit: a sweep that runs takes no longer than the limit, or *)
(* longer than a time.Duration can tell.                                    *)
THEOREM DurationIsLimited == Spec => []DurationLimited
<1>1. Init => DurationLimited
  BY DEF Init, LoopInit, DurationLimited
<1>2. PlanInv /\ PlanInv' /\ DurationLimited /\ [Next]_vars => DurationLimited'
  <2> SUFFICES ASSUME PlanInv, PlanInv', DurationLimited, [Next]_vars, phase' = "run"
               PROVE  ExactDuration' <= cfg'.limit \/ ExactDuration' > MaxInt
    BY DEF DurationLimited
  <2>1. CASE Plan
    <3> DEFINE n == Len(plans')
               x == TimesElevenTenths(cfg.interval * cfg.count)
    <3>1. /\ cfg \in CommandLine /\ Validate(cfg) /\ cfg' = cfg
          /\ plans' = BuildSweepPlan(cfg, ParsePorts(cfg.ports))
          /\ ParsePorts(cfg.ports) # None
      BY <2>1, SweepAssumption DEF PlanInv, Plan
    <3>2. PICK estimate \in EstimateDuration(cfg, n) : ~(estimate > cfg.limit)
      BY <2>1, <3>1 DEF Plan
    <3>3. plans' \in Seq(AnyPlan)
      <4>1. Yields(plans', PlansOf(Families(cfg), Ports(cfg), Directions(cfg), Sizes(cfg)))
        BY <3>1, PlanBuilt
      <4>2. QED
        BY <4>1 DEF Yields
    <3>4. n \in Nat
      BY <3>3
    <3>5. cfg.limit \in Nat /\ x \in Nat
      <4>1. cfg.limit \in Nat /\ cfg.interval \in Nat /\ cfg.count \in Nat
        BY <3>1 DEF CommandLine, Validate
      <4>2. cfg.interval * cfg.count \in Nat
        BY <4>1
      <4>3. QED
        BY <4>1, <4>2, Overhead
    <3>6. ExactDuration' = x * n
      BY <3>1 DEF ExactDuration
    <3> HIDE DEF n
    <3>7. CASE n = 0
      <4> HIDE DEF x
      <4>1. QED
        BY <3>1, <3>5, <3>6, <3>7
    <3>8. CASE n # 0 /\ x * n <= MaxInt
      <4>1. EstimateDuration(cfg, n) = {x * n}
        BY <3>1, <3>4, <3>8, EstimateExact
      <4> HIDE DEF x
      <4>2. estimate = x * n
        BY <3>2, <4>1
      <4>3. QED
        BY <3>1, <3>2, <3>4, <3>5, <3>6, <4>2
    <3>9. QED
      <4> HIDE DEF x
      <4>1. x * n \in Int
        BY <3>4, <3>5
      <4>2. QED
        BY <3>6, <3>7, <3>8, <4>1, SweepAssumption
  <2>2. CASE RejectConfig \/ ConnectFails \/ Report
    BY <2>2 DEF RejectConfig, ConnectFails, Report, LoopEnds
  <2>3. CASE TestOk \/ TestFails \/ Terminated \/ UNCHANGED vars
    <3>1. cfg' = cfg /\ plans' = plans /\ phase' = phase
      BY <2>3 DEF TestOk, TestFails, Terminated, vars, loop
    <3>2. QED
      BY <3>1 DEF DurationLimited, ExactDuration
  <2>4. QED
    BY <2>1, <2>2, <2>3 DEF Next, LoopStep
<1>3. QED
  BY <1>1, <1>2, PlanMade, PTL DEF Spec

-----------------------------------------------------------------------------
(***************************************************************************)
(* The loop over the tests.                                                 *)
(***************************************************************************)
AnyResult ==
    [family : Int, port : Int, direction : Int, size : Int, sent : Nat \ {0}, lost : Int]

(* The test of the plan at i has a result. *)
Measured(i) ==
    \E j \in DOMAIN results : /\ GroupKey(results[j]) = GroupKey(plans[i])
                              /\ results[j].size = plans[i].size

(* Behind the loop lie tests that were measured, unless one has failed. *)
LoopInv ==
    /\ next \in Nat \ {0}
    /\ results \in Seq(AnyResult)
    /\ phase = "config" => next = 1
    /\ phase = "done" => next > Len(plans)
    /\ phase \in {"run", "done"} =>
          hasFailure \/ \A i \in DOMAIN plans : i < next => Measured(i)

(* TestOk adds the result of the test at hand, TestFails a failure. *)
LEMMA LoopRuns == Spec => []LoopInv
<1>1. Init => LoopInv
  BY DEF Init, LoopInit, LoopInv
<1>2. PlanInv /\ LoopInv /\ [Next]_vars => LoopInv'
  <2> SUFFICES ASSUME PlanInv, LoopInv, [Next]_vars PROVE LoopInv'
    OBVIOUS
  <2> USE DEF LoopInv
  <2>p. ASSUME phase = "run" PROVE plans \in Seq(AnyPlan) /\ cfg.count \in Nat \ {0}
    <3>1. Yields(plans, PlansOf(Families(cfg), Ports(cfg), Directions(cfg), Sizes(cfg)))
      BY <2>p, SweepAssumption, PlanBuilt DEF PlanInv
    <3>2. cfg.count \in Nat \ {0}
      BY <2>p, SweepAssumption DEF PlanInv, CommandLine, Validate
    <3>3. QED
      BY <3>1, <3>2 DEF Yields
  <2>1. CASE Plan
    <3>1. next' = 1 /\ results' = results /\ phase' \in {"run", "exit"} /\ phase' # "done"
      BY <2>1 DEF Plan
    <3>2. phase' = "run" => DOMAIN plans' \subseteq Nat \ {0}
      <4> SUFFICES ASSUME phase' = "run" PROVE DOMAIN plans' \subseteq Nat \ {0}
        OBVIOUS
      <4>1. Yields(plans', PlansOf(Families(cfg), Ports(cfg), Directions(cfg), Sizes(cfg)))
        BY <2>1, SweepAssumption, PlanBuilt DEF PlanInv, Plan, ConfigOk
      <4>2. plans' \in Seq(AnyPlan)
        BY <4>1 DEF Yields
      <4>3. QED
        BY <4>2
    <3>3. QED
      BY <3>1, <3>2
  <2>2. CASE TestOk
    <3>1. /\ phase = "run" /\ phase' = "run" /\ plans' = plans /\ hasFailure' = hasFailure
          /\ next' = next + 1 /\ next <= Len(plans)
      BY <2>2 DEF TestOk
    <3>2. PICK received \in Received : results' = Append(results,
               [family |-> plans[next].family, port |-> plans[next].port,
                direction |-> plans[next].direction, size |-> plans[next].size,
                sent |-> cfg.count, lost |-> cfg.count - received])
      BY <2>2 DEF TestOk
    <3> DEFINE r == [family |-> plans[next].family, port |-> plans[next].port,
                     direction |-> plans[next].direction, size |-> plans[next].size,
                     sent |-> cfg.count, lost |-> cfg.count - received]
    <3>3. plans \in Seq(AnyPlan) /\ cfg.count \in Nat \ {0} /\ received \in Nat
      BY <2>p, <3>1, SweepAssumption
    <3>4. r \in AnyResult
      <4>1. next \in 1 .. Len(plans)
        BY <3>1, <3>3
      <4>2. plans[next] \in AnyPlan
        BY <3>3, <4>1
      <4>3. QED
        BY <3>3, <4>2, SMTT(30) DEF AnyPlan, PlansOf, AnyResult
    <3> HIDE DEF r
    <3>5. /\ results' \in Seq(AnyResult) /\ DOMAIN results = 1 .. Len(results)
          /\ DOMAIN results' = 1 .. Len(results) + 1 /\ Len(results) \in Nat
          /\ \A j \in 1 .. Len(results) : results'[j] = results[j]
          /\ results'[Len(results) + 1] = r
      BY <3>2, <3>4 DEF r
    <3>6. GroupKey(r) = GroupKey(plans[next]) /\ r.size = plans[next].size
      BY DEF r, GroupKey
    <3>7. ASSUME ~hasFailure, NEW i \in DOMAIN plans, i < next + 1 PROVE Measured(i)'
      <4>1. CASE i = next
        BY <3>1, <3>5, <3>6, <4>1 DEF Measured
      <4>2. CASE i < next
        <5>1. PICK j \in 1 .. Len(results) : /\ GroupKey(results[j]) = GroupKey(plans[i])
                                             /\ results[j].size = plans[i].size
          BY <3>1, <3>5, <3>7, <4>2 DEF Measured
        <5>2. QED
          BY <3>1, <3>5, <5>1 DEF Measured
      <4>3. i \in Int
        BY <3>3
      <4>4. QED
        BY <3>7, <4>1, <4>2, <4>3
    <3>8. QED
      BY <3>1, <3>5, <3>7
  <2>3. CASE TestFails
    BY <2>3 DEF TestFails
  <2>4. CASE Report
    BY <2>4 DEF Report, LoopEnds, Measured
  <2>5. CASE RejectConfig \/ ConnectFails
    BY <2>5 DEF RejectConfig, ConnectFails
  <2>6. CASE Terminated \/ UNCHANGED vars
    BY <2>6 DEF Terminated, vars, loop, Measured
  <2>7. QED
    BY <2>1, <2>2, <2>3, <2>4, <2>5, <2>6 DEF Next, LoopStep
<1>3. QED
  BY <1>1, <1>2, PlanMade, PTL DEF Spec

(* A report without some planned test comes with the exit status of a       *)
(* failure.                                                                 *)
THEOREM GapsReported == Spec => []GapsAreReported
<1>1. PlanInv /\ LoopInv => GapsAreReported
  <2> SUFFICES ASSUME PlanInv, LoopInv, phase = "done", ~hasFailure,
                      NEW i \in DOMAIN plans
               PROVE  Measured(i)
    BY DEF GapsAreReported, Measured
  <2>1. Yields(plans, PlansOf(Families(cfg), Ports(cfg), Directions(cfg), Sizes(cfg)))
    BY SweepAssumption, PlanBuilt DEF PlanInv
  <2>2. plans \in Seq(AnyPlan)
    BY <2>1 DEF Yields
  <2>3. i < next
    BY <2>2 DEF LoopInv
  <2>4. QED
    BY <2>3 DEF LoopInv
<1>2. QED
  BY <1>1, PlanMade, LoopRuns, PTL
-----------------------------------------------------------------------------
(***************************************************************************)
(* The report.                                                              *)
(***************************************************************************)
Keys == Int \X Int \X Int

(* Ranging over a map visits every key once. *)
LEMMA Visited ==
    ASSUME NEW T, IsFiniteSet(T), NEW t, t = SetToSeq(T)
    PROVE  t \in Seq(T) /\ IsInjective(t) /\ Range(t) = T
<1> DEFINE n == Cardinality(T)
<1>1. n \in Nat /\ ExistsBijection(1 .. n, T)
  BY FS_CardinalityType
<1>2. PICK f : f \in [1 .. n -> T] /\ IsInjective(f)
  BY <1>1 DEF ExistsBijection, Bijection, Injection
<1>3. t \in [1 .. n -> T] /\ IsInjective(t)
  BY <1>2 DEF SetToSeq
<1>4. t \in Injection(1 .. n, T)
  BY <1>3 DEF Injection
<1>5. Cardinality(1 .. n) = n
  BY <1>1, FS_Interval
<1>6. t \in Surjection(1 .. n, T)
  BY <1>4, <1>5, FS_Injection
<1>7. Range(t) = T
  BY <1>3, <1>6 DEF Surjection, Range
<1>8. t \in Seq(T)
  BY <1>1, <1>3
<1>9. QED
  BY <1>3, <1>7, <1>8

(* The order of the keys is total. *)
LEMMA KeyOrder ==
    /\ \A a, b \in Keys : KeyLess(a, b) => ~KeyLess(b, a)
    /\ \A a, b, c \in Keys : ~KeyLess(b, a) /\ ~KeyLess(c, b) => ~KeyLess(c, a)
    /\ \A a, b \in Keys : ~KeyLess(b, a) /\ a # b => KeyLess(a, b)
<1>1. \A a \in Keys : a[1] \in Int /\ a[2] \in Int /\ a[3] \in Int
  BY DEF Keys
<1>2. \A a, b \in Keys : a[1] = b[1] /\ a[2] = b[2] /\ a[3] = b[3] => a = b
  BY DEF Keys
<1>3. QED
  BY <1>1, <1>2 DEF KeyLess

(* sort.Slice by keys: keys that differ come out in strict order. *)
LEMMA KeysSorted ==
    ASSUME NEW s \in Seq(Keys), IsInjective(s), NEW t, t = Sort(s, KeyLess)
    PROVE  /\ t \in Seq(Keys) /\ Range(t) = Range(s)
           /\ \A i, j \in 1 .. Len(t) : i < j => KeyLess(t[i], t[j])
<1> DEFINE R == {x \in Keys \X Keys : KeyLess(x[1], x[2])}
           Ok(p) == \A i, j \in 1 .. Len(s) : i < j => ~KeyLess(s[p[j]], s[p[i]])
           B == Bijection(1 .. Len(s), 1 .. Len(s))
           order == CHOOSE p \in B : Ok(p)
<1>0. \A a, b \in Keys : <<a, b>> \in R <=> KeyLess(a, b)
  OBVIOUS
<1>1. Orders(R, Keys)
  <2> HIDE DEF R
  <2>1. QED
    BY <1>0, KeyOrder DEF Orders
<1>2. PICK p \in B : Arranges(p, s, R)
  <2> HIDE DEF R
  <2>1. QED
    BY <1>1, SortExists
<1>3. \A q \in B : \A i \in 1 .. Len(s) : s[q[i]] \in Keys
  <2> SUFFICES ASSUME NEW q \in B, NEW i \in 1 .. Len(s) PROVE s[q[i]] \in Keys
    OBVIOUS
  <2>1. q[i] \in 1 .. Len(s)
    BY DEF Bijection, Injection
  <2>2. QED
    BY <2>1, SeqFacts
<1>4. Ok(p)
  <2> HIDE DEF R, B
  <2>1. QED
    BY <1>0, <1>2, <1>3 DEF Arranges
<1>5. order \in B /\ Ok(order)
  <2> HIDE DEF Ok, B
  <2>1. QED
    BY <1>2, <1>4
<1>6. t = [i \in 1 .. Len(s) |-> s[order[i]]]
  BY DEF Sort
<1>7. t \in Seq(Keys) /\ Len(t) = Len(s) /\ Range(t) = Range(s) /\ IsInjective(t)
  <2> HIDE DEF order
  <2>1. QED
    BY <1>5, <1>6, Rearranged
<1>8. \A i, j \in 1 .. Len(t) : i < j => KeyLess(t[i], t[j])
  <2> SUFFICES ASSUME NEW i \in 1 .. Len(t), NEW j \in 1 .. Len(t), i < j
               PROVE  KeyLess(t[i], t[j])
    OBVIOUS
  <2> HIDE DEF order, B
  <2>1. DOMAIN t = 1 .. Len(t) /\ t[i] \in Keys /\ t[j] \in Keys
    BY <1>7, SeqFacts
  <2>2. i \in 1 .. Len(s) /\ j \in 1 .. Len(s)
    BY <1>7
  <2>3. t[i] = s[order[i]] /\ t[j] = s[order[j]]
    BY <1>6, <2>2
  <2>4. ~KeyLess(t[j], t[i])
    BY <1>5, <2>2, <2>3
  <2>5. t[i] # t[j]
    <3>1. i # j
      BY <1>7
    <3>2. QED
      BY <1>7, <2>1, <3>1 DEF IsInjective
  <2>6. QED
    BY <2>1, <2>4, <2>5, KeyOrder
<1>9. QED
  BY <1>7, <1>8

(* sort.Slice by sizes. *)
LEMMA SortedBySize ==
    ASSUME NEW s \in Seq(AnyResult), NEW t, t = Sort(s, SizeLess)
    PROVE  /\ t \in Seq(AnyResult) /\ Range(t) = Range(s)
           /\ \A i, j \in 1 .. Len(t) : i < j => t[i].size <= t[j].size
<1> DEFINE R == {x \in AnyResult \X AnyResult : x[1].size < x[2].size}
           Ok(p) == \A i, j \in 1 .. Len(s) : i < j => ~(s[p[j]].size < s[p[i]].size)
           B == Bijection(1 .. Len(s), 1 .. Len(s))
           order == CHOOSE p \in B : Ok(p)
<1>0. \A a, b \in AnyResult : <<a, b>> \in R <=> a.size < b.size
  OBVIOUS
<1>s. \A a \in AnyResult : a.size \in Int
  BY DEF AnyResult
<1>1. Orders(R, AnyResult)
  <2> HIDE DEF R
  <2>1. QED
    BY <1>0, <1>s, SMTT(30) DEF Orders
<1>2. PICK p \in B : Arranges(p, s, R)
  <2> HIDE DEF R
  <2>1. QED
    BY <1>1, SortExists
<1>3. \A q \in B : \A i \in 1 .. Len(s) : s[q[i]] \in AnyResult
  <2> SUFFICES ASSUME NEW q \in B, NEW i \in 1 .. Len(s) PROVE s[q[i]] \in AnyResult
    OBVIOUS
  <2>1. q[i] \in 1 .. Len(s)
    BY DEF Bijection, Injection
  <2>2. QED
    BY <2>1, SeqFacts
<1>4. Ok(p)
  <2> HIDE DEF R, B
  <2>1. QED
    BY <1>0, <1>2, <1>3 DEF Arranges
<1>5. order \in B /\ Ok(order)
  <2> HIDE DEF Ok, B
  <2>1. QED
    BY <1>2, <1>4
<1>6. t = [i \in 1 .. Len(s) |-> s[order[i]]]
  BY DEF Sort, SizeLess
<1>7. t \in Seq(AnyResult) /\ Len(t) = Len(s) /\ Range(t) = Range(s)
  <2> HIDE DEF order
  <2>1. QED
    BY <1>5, <1>6, Rearranged
<1>8. \A i, j \in 1 .. Len(t) : i < j => t[i].size <= t[j].size
  <2> SUFFICES ASSUME NEW i \in 1 .. Len(t), NEW j \in 1 .. Len(t), i < j
               PROVE  t[i].size <= t[j].size
    OBVIOUS
  <2> HIDE DEF order, B
  <2>1. t[i].size \in Int /\ t[j].size \in Int
    BY <1>s, <1>7, SeqFacts
  <2>2. i \in 1 .. Len(s) /\ j \in 1 .. Len(s)
    BY <1>7
  <2>3. t[i] = s[order[i]] /\ t[j] = s[order[j]]
    BY <1>6, <2>2
  <2>4. ~(t[j].size < t[i].size)
    BY <1>5, <2>2, <2>3
  <2>5. QED
    BY <2>1, <2>4
<1>9. QED
  BY <1>7, <1>8

(* groupsMap[k] has the results with the key k. *)
LEMMA Grouped ==
    ASSUME NEW rs \in Seq(AnyResult), NEW k, NEW t, t = InGroup(rs, k)
    PROVE  /\ t \in Seq(AnyResult)
           /\ \A x : x \in Range(t) <=> x \in Range(rs) /\ GroupKey(x) = k
<1> DEFINE K == {i \in DOMAIN rs : GroupKey(rs[i]) = k}
<1>1. t = Selected(rs, K)
  BY DEF InGroup
<1>2. DOMAIN rs = 1 .. Len(rs)
  BY SeqFacts
<1>3. t \in Seq(AnyResult) /\ Range(t) = Kept(rs, K)
  <2> HIDE DEF K
  <2>1. QED
    BY <1>1, SelectedElements
<1>4. \A x : x \in Kept(rs, K) <=> x \in Range(rs) /\ GroupKey(x) = k
  BY <1>2 DEF Kept, Range
<1>5. QED
  <2> HIDE DEF K
  <2>1. QED
    BY <1>3, <1>4

(* The sizes that lost one packet in twenty or more. *)
LossySizes(T) == {r.size : r \in {x \in T : 20 * x.lost >= x.sent}}

IsCritical(size, T) ==
    \/ size = None /\ LossySizes(T) = {}
    \/ size \in LossySizes(T) /\ \A s \in LossySizes(T) : size <= s

(* FindCriticalSize on results that are sorted by size. *)
LEMMA CriticalFound ==
    ASSUME NEW rs \in Seq(AnyResult),
           \A i, j \in 1 .. Len(rs) : i < j => rs[i].size <= rs[j].size
    PROVE  IsCritical(FindCriticalSize(rs), Range(rs))
<1> DEFINE hits == {i \in DOMAIN rs : Exceeds(rs[i])}
           T == Range(rs)
<1>1. DOMAIN rs = 1 .. Len(rs) /\ Len(rs) \in Nat /\ \A i \in 1 .. Len(rs) : rs[i] \in AnyResult
  BY SeqFacts
<1>2. \A i \in 1 .. Len(rs) : i \in hits <=> 20 * rs[i].lost >= rs[i].sent
  <2>1. ASSUME NEW i \in 1 .. Len(rs)
        PROVE  Exceeds(rs[i]) <=> 20 * rs[i].lost >= rs[i].sent
    <3>1. rs[i].lost \in Int /\ rs[i].sent \in Nat /\ rs[i].sent # 0
      BY <1>1 DEF AnyResult
    <3>2. QED
      BY <3>1 DEF Exceeds, ThresholdPercent
  <2>2. QED
    BY <1>1, <2>1
<1>3. \A s : s \in LossySizes(T) <=> \E i \in hits : s = rs[i].size
  <2>1. ASSUME NEW i \in hits PROVE rs[i].size \in LossySizes(T)
    BY <1>1, <1>2, <2>1 DEF LossySizes, Range
  <2>2. ASSUME NEW s \in LossySizes(T) PROVE \E i \in hits : s = rs[i].size
    <3>1. PICK x \in T : 20 * x.lost >= x.sent /\ s = x.size
      BY <2>2 DEF LossySizes
    <3>2. PICK i \in 1 .. Len(rs) : x = rs[i]
      BY <1>1, <3>1 DEF Range
    <3>3. QED
      BY <1>2, <3>1, <3>2
  <2> HIDE DEF hits, T
  <2>3. QED
    BY <2>1, <2>2
<1>4. hits \subseteq 1 .. Len(rs) /\ hits \subseteq Nat
  BY <1>1
<1>5. FindCriticalSize(rs) = IF hits = {} THEN None ELSE rs[Min(hits)].size
  BY DEF FindCriticalSize
<1> HIDE DEF hits, T
<1>6. CASE hits = {}
  <2>1. LossySizes(T) = {}
    BY <1>3, <1>6
  <2>2. QED
    BY <1>5, <1>6, <2>1 DEF IsCritical, T
<1>7. CASE hits # {}
  <2>1. \E m \in hits : \A j \in hits : m <= j
    BY <1>4, <1>7, Least
  <2>2. Min(hits) \in hits /\ \A j \in hits : Min(hits) <= j
    BY <2>1 DEF Min
  <2>3. PICK m : m = Min(hits) /\ m \in hits /\ \A j \in hits : m <= j
    BY <2>2
  <2>4. FindCriticalSize(rs) = rs[m].size
    BY <1>5, <1>7, <2>3
  <2>5. rs[m].size \in LossySizes(T)
    BY <1>3, <2>3
  <2>6. ASSUME NEW s \in LossySizes(T) PROVE rs[m].size <= s
    <3>1. PICK j \in hits : s = rs[j].size
      BY <1>3, <2>6
    <3>2. m = j \/ m < j
      BY <1>4, <2>3, <3>1
    <3>3. rs[m].size \in Int
      BY <1>1, <1>4, <2>3 DEF AnyResult
    <3>4. QED
      BY <1>4, <2>3, <3>1, <3>2, <3>3
  <2>7. QED
    BY <2>4, <2>5, <2>6 DEF IsCritical, T
<1>8. QED
  BY <1>6, <1>7

(* The report is true of results: a group for every key, in the order of    *)
(* the keys, with its critical size.                                        *)
TrueReport(rep, rs) ==
    /\ rep \in Seq(Keys \X (Int \cup {None}))
    /\ \A k : k \in {rep[i][1] : i \in DOMAIN rep} <=>
              k \in {GroupKey(rs[i]) : i \in DOMAIN rs}
    /\ \A i, j \in DOMAIN rep : i < j => KeyLess(rep[i][1], rep[j][1])
    /\ \A i \in DOMAIN rep :
          IsCritical(rep[i][2], {r \in Range(rs) : GroupKey(r) = rep[i][1]})

(* ComputeCriticalSizes of AggregateResults. *)
LEMMA ReportComputed ==
    ASSUME NEW rs \in Seq(AnyResult)
    PROVE  TrueReport(ComputeCriticalSizes(AggregateResults(rs)), rs)
<1> DEFINE T == {GroupKey(rs[i]) : i \in DOMAIN rs}
           visited == SetToSeq(T)
           keys == Sort(visited, KeyLess)
           groups == AggregateResults(rs)
           rep == ComputeCriticalSizes(groups)
<1>1. /\ DOMAIN rs = 1 .. Len(rs) /\ Len(rs) \in Nat
      /\ \A i \in 1 .. Len(rs) : rs[i] \in AnyResult
  BY SeqFacts
<1>2. IsFiniteSet(T)
  <2>1. [i \in DOMAIN rs |-> GroupKey(rs[i])] \in Surjection(DOMAIN rs, T)
    BY DEF Surjection
  <2>2. IsFiniteSet(DOMAIN rs)
    BY <1>1, FS_Interval
  <2> HIDE DEF T
  <2>3. QED
    BY <2>1, <2>2, FS_Surjection
<1>3. \A k \in T : k \in Keys
  BY <1>1 DEF GroupKey, Keys, AnyResult
<1> HIDE DEF T
<1>4. visited \in Seq(T) /\ IsInjective(visited) /\ Range(visited) = T
  BY <1>2, Visited
<1> HIDE DEF visited
<1>5. visited \in Seq(Keys)
  BY <1>3, <1>4
<1>6. /\ keys \in Seq(Keys) /\ Range(keys) = T
      /\ \A i, j \in 1 .. Len(keys) : i < j => KeyLess(keys[i], keys[j])
  <2>1. keys = Sort(visited, KeyLess)
    OBVIOUS
  <2> HIDE DEF keys
  <2>2. QED
    BY <1>4, <1>5, <2>1, KeysSorted
<1>7. groups = [i \in DOMAIN keys |->
            [key |-> keys[i], results |-> Sort(InGroup(rs, keys[i]), SizeLess)]]
  BY DEF AggregateResults, keys, visited, T
<1> HIDE DEF keys, groups
<1>8. DOMAIN keys = 1 .. Len(keys) /\ Len(keys) \in Nat /\ \A i \in DOMAIN keys : keys[i] \in Keys
  BY <1>6, SeqFacts
<1>9. DOMAIN rep = DOMAIN keys
  BY <1>7 DEF ComputeCriticalSizes
<1>10. ASSUME NEW i \in DOMAIN keys
       PROVE  /\ rep[i] = <<keys[i], rep[i][2]>> /\ rep[i][1] = keys[i]
              /\ rep[i][2] \in Int \cup {None}
              /\ IsCritical(rep[i][2], {r \in Range(rs) : GroupKey(r) = keys[i]})
  <2> DEFINE k == keys[i]
             grp == InGroup(rs, k)
             sorted == Sort(grp, SizeLess)
             G == {r \in Range(rs) : GroupKey(r) = k}
  <2>1. rep[i] = <<k, FindCriticalSize(sorted)>>
    BY <1>7 DEF ComputeCriticalSizes
  <2>2. grp \in Seq(AnyResult) /\ \A x : x \in Range(grp) <=> x \in Range(rs) /\ GroupKey(x) = k
    BY Grouped
  <2>3. G = Range(grp)
    <3> HIDE DEF grp
    <3>1. QED
      BY <2>2
  <2>4. /\ sorted \in Seq(AnyResult) /\ Range(sorted) = Range(grp)
        /\ \A m, n \in 1 .. Len(sorted) : m < n => sorted[m].size <= sorted[n].size
    <3>1. sorted = Sort(grp, SizeLess)
      OBVIOUS
    <3> HIDE DEF grp, sorted
    <3>2. QED
      BY <2>2, <3>1, SortedBySize
  <2> HIDE DEF grp, sorted, G
  <2>5. IsCritical(FindCriticalSize(sorted), Range(sorted))
    BY <2>4, CriticalFound
  <2>6. LossySizes(G) \subseteq Int
    BY <1>1 DEF LossySizes, AnyResult, G, Range
  <2>7. IsCritical(FindCriticalSize(sorted), G)
    BY <2>3, <2>4, <2>5
  <2>8. FindCriticalSize(sorted) \in Int \cup {None}
    BY <2>6, <2>7 DEF IsCritical
  <2>9. QED
    <3> HIDE DEF rep
    <3>1. rep[i][1] = k /\ rep[i][2] = FindCriticalSize(sorted)
      BY <2>1
    <3>2. QED
      BY <2>1, <2>7, <2>8, <3>1 DEF G, k
<1> DEFINE S == Keys \X (Int \cup {None})
<1>r. rep = [i \in DOMAIN keys |-> rep[i]]
  BY <1>9 DEF ComputeCriticalSizes
<1> HIDE DEF rep
<1>11. rep \in Seq(S)
  <2>1. ASSUME NEW i \in DOMAIN keys PROVE rep[i] \in S
    <3>1. rep[i] = <<keys[i], rep[i][2]>> /\ rep[i][2] \in Int \cup {None}
      BY <1>10
    <3>2. keys[i] \in Keys
      BY <1>8
    <3>3. PICK v : rep[i] = <<keys[i], v>> /\ v \in Int \cup {None}
      BY <3>1
    <3>4. <<keys[i], v>> \in S
      BY <3>2, <3>3
    <3>5. QED
      BY <3>3, <3>4
  <2> HIDE DEF S
  <2>2. QED
    BY <1>8, <1>9, <1>r, <2>1, SeqByIndex
<1>k. \A i \in DOMAIN keys : rep[i][1] = keys[i]
  BY <1>10
<1>12. \A k : k \in {rep[i][1] : i \in DOMAIN rep} <=> k \in T
  BY <1>6, <1>9, <1>k DEF Range
<1>13. \A i, j \in DOMAIN rep : i < j => KeyLess(rep[i][1], rep[j][1])
  BY <1>6, <1>8, <1>9, <1>k
<1>14. \A i \in DOMAIN rep :
          IsCritical(rep[i][2], {r \in Range(rs) : GroupKey(r) = rep[i][1]})
  <2> SUFFICES ASSUME NEW i \in DOMAIN keys
               PROVE  IsCritical(rep[i][2], {r \in Range(rs) : GroupKey(r) = rep[i][1]})
    BY <1>9
  <2>1. {r \in Range(rs) : GroupKey(r) = rep[i][1]} = {r \in Range(rs) : GroupKey(r) = keys[i]}
    BY <1>k
  <2>2. QED
    BY <1>10, <2>1
<1>15. TrueReport(rep, rs)
  BY <1>11, <1>12, <1>13, <1>14 DEF TrueReport, T
<1>16. QED
  BY <1>15 DEF rep, groups

(* Once the client is done, its report is true of its results. *)
ReportInv == phase = "done" => TrueReport(report, results)

(* BuildReport: every measured group is reported once, in the order of the  *)
(* keys, and its critical size is the least one with a loss of five percent *)
(* or more; there is none only if no size lost so much.                     *)
THEOREM CriticalSizeIsLeast == Spec => []CriticalSizeLeast
<1>1. Init => ReportInv
  BY DEF Init, LoopInit, ReportInv
<1>2. LoopInv /\ ReportInv /\ [Next]_vars => ReportInv'
  <2> SUFFICES ASSUME LoopInv, ReportInv, [Next]_vars, phase' = "done"
               PROVE  TrueReport(report', results')
    BY DEF ReportInv
  <2>1. CASE Report
    <3>1. results \in Seq(AnyResult) /\ results' = results
      BY <2>1 DEF LoopInv, Report, LoopEnds
    <3>2. CASE results # <<>>
      BY <2>1, <3>1, <3>2, ReportComputed DEF Report, LoopEnds
    <3>3. CASE results = <<>>
      <4>1. report' = <<>>
        BY <2>1, <3>3 DEF Report, LoopEnds
      <4>2. DOMAIN report' = {} /\ DOMAIN results = {}
        BY <3>3, <4>1
      <4>3. report' \in Seq(Keys \X (Int \cup {None}))
        BY <4>1
      <4>4. QED
        BY <3>1, <4>2, <4>3 DEF TrueReport
    <3>4. QED
      BY <3>2, <3>3
  <2>2. CASE Plan \/ RejectConfig \/ TestOk \/ TestFails \/ ConnectFails
    BY <2>2 DEF Plan, RejectConfig, TestOk, TestFails, ConnectFails
  <2>3. CASE Terminated \/ UNCHANGED vars
    BY <2>3 DEF Terminated, vars, loop, ReportInv
  <2>4. QED
    BY <2>1, <2>2, <2>3 DEF Next, LoopStep
<1>3. ReportInv => CriticalSizeLeast
  <2> SUFFICES ASSUME phase = "done", TrueReport(report, results) PROVE CriticalSizeLeast
    BY DEF ReportInv, CriticalSizeLeast
  <2>1. {report[i][1] : i \in DOMAIN report} = {GroupKey(results[i]) : i \in DOMAIN results}
    BY DEF TrueReport
  <2>2. \A i, j \in DOMAIN report : i < j => KeyLess(report[i][1], report[j][1])
    BY DEF TrueReport
  <2>3. ASSUME NEW i \in DOMAIN report
        PROVE  LET sizes == {r.size : r \in Lossy(report[i][1])}
               IN  \/ report[i][2] = None /\ sizes = {}
                   \/ report[i][2] \in sizes /\ \A s \in sizes : report[i][2] <= s
    <3> DEFINE k == report[i][1]
               G == {r \in Range(results) : GroupKey(r) = k}
    <3>1. IsCritical(report[i][2], G)
      BY DEF TrueReport
    <3>2. Lossy(k) = {x \in G : 20 * x.lost >= x.sent}
      BY DEF Lossy, Range
    <3>3. {r.size : r \in Lossy(k)} = LossySizes(G)
      BY <3>2 DEF LossySizes
    <3> HIDE DEF G
    <3>4. QED
      BY <3>1, <3>3 DEF IsCritical
  <2>4. QED
    BY <2>1, <2>2, <2>3 DEF CriticalSizeLeast
<1>4. QED
  BY <1>1, <1>2, <1>3, LoopRuns, PTL DEF Spec

=============================================================================
