----------------------------- MODULE ListFacts -----------------------------
(***************************************************************************)
(* What lists and sums of any length have in common, for proofs about      *)
(* operators that go through them.  The library states induction for an    *)
(* operator, which the provers cannot instantiate; here the induction is   *)
(* over sets: a set of numbers, or of finite sets, has a least element.    *)
(***************************************************************************)
EXTENDS Integers, FiniteSetsExt, SequencesExt, FiniteSetTheorems, SequenceTheorems,
        WellFoundedInduction, TLAPS

-----------------------------------------------------------------------------
(* What is in a list.                                                      *)

\* The image of a finite set.
LEMMA FiniteImage ==
  ASSUME NEW S, IsFiniteSet(S), NEW f
  PROVE  IsFiniteSet({f[x] : x \in S})
<1> DEFINE T == {f[x] : x \in S}
           g == [x \in S |-> f[x]]
<1>1. g \in Surjection(S, T)
  BY DEF Surjection
<1> QED BY <1>1, FS_Surjection DEF ExistsSurjection

\* An element of a list is in its range.
LEMMA InRange ==
  ASSUME NEW S, NEW s \in Seq(S)
  PROVE  /\ Len(s) \in Nat /\ DOMAIN s = 1..Len(s) /\ Range(s) \in SUBSET S
         /\ \A i \in 1..Len(s) : s[i] \in Range(s)
         /\ \A x \in Range(s) : \E i \in 1..Len(s) : x = s[i]
         /\ IsFiniteSet(Range(s))
<1>1. Len(s) \in Nat /\ DOMAIN s = 1..Len(s)
  OBVIOUS
<1>2. Range(s) = {s[i] : i \in 1..Len(s)}
  BY <1>1 DEF Range
<1>3. IsFiniteSet(1..Len(s))
  BY <1>1, FS_Interval
<1>4. IsFiniteSet(Range(s))
  BY <1>2, <1>3, FiniteImage
<1> QED BY <1>1, <1>2, <1>4

\* What is in two lists, one after the other.
LEMMA ConcatRange ==
  ASSUME NEW S, NEW s \in Seq(S), NEW t \in Seq(S)
  PROVE  s \o t \in Seq(S) /\ Range(s \o t) = Range(s) \cup Range(t)
<1>1. PICK m, n : m = Len(s) /\ n = Len(t)
  OBVIOUS
<1>2. m \in Nat /\ n \in Nat /\ DOMAIN s = 1..m /\ DOMAIN t = 1..n
  BY <1>1
<1>3. PICK u : u = s \o t
  OBVIOUS
<1>4. /\ u \in Seq(S) /\ Len(u) = m + n /\ DOMAIN u = 1..m + n
      /\ \A i \in 1..m + n : u[i] = IF i <= m THEN s[i] ELSE t[i - m]
  BY <1>1, <1>3, ConcatProperties
<1>5. \A i \in 1..m : i \in 1..m + n /\ u[i] = s[i]
  BY <1>2, <1>4
<1>6. ASSUME NEW i \in 1..n PROVE \E k \in 1..m + n : u[k] = t[i]
  <2>1. PICK k : k = m + i
    OBVIOUS
  <2>2. k \in 1..m + n /\ ~(k <= m) /\ k - m = i
    BY <1>2, <2>1
  <2> QED BY <1>4, <2>2
<1>7. ASSUME NEW i \in 1..m + n
      PROVE  (i \in 1..m /\ u[i] = s[i]) \/ (i - m \in 1..n /\ u[i] = t[i - m])
  BY <1>2, <1>4
<1>8. Range(u) \subseteq Range(s) \cup Range(t)
  BY <1>2, <1>4, <1>7 DEF Range
<1>9. Range(s) \subseteq Range(u)
  BY <1>2, <1>4, <1>5 DEF Range
<1>10. Range(t) \subseteq Range(u)
  <2>1. Range(t) = {t[i] : i \in 1..n} /\ Range(u) = {u[i] : i \in 1..m + n}
    BY <1>2, <1>4 DEF Range
  <2> QED BY <1>6, <2>1
<1> QED BY <1>3, <1>4, <1>8, <1>9, <1>10

-----------------------------------------------------------------------------
(* Recursion over numbers and lists.                                       *)

\* A set of numbers has a least element.
LEMMA LeastNumber ==
  ASSUME NEW T \in SUBSET Nat, T # {}
  PROVE  \E x \in T : \A y \in T : x <= y
<1> DEFINE R == OpToRel(<, Nat)
<1>1. IsWellFoundedOn(R, Nat)
  BY NatLessThanWellFounded
<1>2. \A x, y \in Nat : y < x => <<y, x>> \in R
  BY DEF OpToRel
<1> HIDE DEF R
<1>3. PICK x \in T : \A y \in T : <<y, x>> \notin R
  BY <1>1, WFMin
<1>4. ASSUME NEW y \in T PROVE x <= y
  <2>1. x \in Nat /\ y \in Nat
    OBVIOUS
  <2>2. ~(y < x)
    BY <2>1, <1>2, <1>3
  <2> QED BY <2>1, <2>2
<1> QED BY <1>4

\* What lo is and i is if i - 1 is, is every number up to n.
LEMMA UpTo ==
  ASSUME NEW lo \in Nat, NEW n \in Nat, lo <= n, NEW T, lo \in T,
         \A i \in lo..n : i > lo /\ i - 1 \in T => i \in T
  PROVE  n \in T
<1> SUFFICES ASSUME n \notin T PROVE FALSE
  OBVIOUS
<1> DEFINE out == {i \in lo..n : i \notin T}
<1>1. out \in SUBSET Nat /\ out # {}
  OBVIOUS
<1>2. PICK x \in out : \A y \in out : x <= y
  BY <1>1, LeastNumber
<1>3. x \in lo..n /\ x > lo /\ x - 1 \in lo..n
  BY <1>2
<1>4. x - 1 \in T
  BY <1>2, <1>3
<1> QED BY <1>2, <1>3, <1>4

\* A function that starts with base and goes on with step.
Recurs(f, lo, n, base, step) ==
  f = [i \in lo..n |-> IF i = lo THEN base ELSE step[<<i, f[i - 1]>>]]

\* There is one for every step within a set X, and it stays in X.
LEMMA RecursionExists ==
  ASSUME NEW lo \in Nat, NEW n \in Nat, lo <= n, NEW X, NEW base \in X,
         NEW step \in [(lo..n) \X X -> X]
  PROVE  \E f \in [lo..n -> X] : Recurs(f, lo, n, base, step)
<1> DEFINE Part(m) == \E f \in [lo..m -> X] : Recurs(f, lo, m, base, step)
           good == {m \in lo..n : Part(m)}
<1>1. lo \in good
  <2> DEFINE f == [i \in lo..lo |-> base]
  <2>1. f \in [lo..lo -> X] /\ Recurs(f, lo, lo, base, step)
    BY DEF Recurs
  <2> QED BY <2>1
<1>2. ASSUME NEW m \in lo..n, m > lo, m - 1 \in good PROVE m \in good
  <2>1. PICK g \in [lo..(m - 1) -> X] : Recurs(g, lo, m - 1, base, step)
    BY <1>2
  <2> DEFINE f == [i \in lo..m |-> IF i = m THEN step[<<m, g[m - 1]>>] ELSE g[i]]
  <2>2. g[m - 1] \in X
    BY <1>2
  <2>3. step[<<m, g[m - 1]>>] \in X
    BY <2>2
  <2>4. f \in [lo..m -> X]
    <3>1. ASSUME NEW i \in lo..m PROVE i # m => i \in lo..(m - 1)
      BY <1>2
    <3>2. ASSUME NEW i \in lo..m PROVE (IF i = m THEN step[<<m, g[m - 1]>>] ELSE g[i]) \in X
      BY <2>1, <2>3, <3>1
    <3> QED BY <3>2
  <2>5. \A i \in lo..m : f[i] = IF i = m THEN step[<<m, g[m - 1]>>] ELSE g[i]
    OBVIOUS
  <2> HIDE DEF f
  <2>6. ASSUME NEW i \in lo..m
        PROVE  f[i] = IF i = lo THEN base ELSE step[<<i, f[i - 1]>>]
    <3>1. CASE i = m
      <4>1. i # lo /\ m - 1 \in lo..m /\ m - 1 # m
        BY <1>2, <3>1
      <4>2. f[m - 1] = g[m - 1] /\ f[m] = step[<<m, g[m - 1]>>]
        BY <2>5, <3>1, <4>1, Zenon
      <4> QED BY <3>1, <4>1, <4>2, Zenon
    <3>2. CASE i # m
      <4>1. i \in lo..(m - 1)
        BY <1>2, <3>2
      <4>2. f[i] = g[i]
        BY <2>5, <3>2, Zenon
      <4>3. g[i] = IF i = lo THEN base ELSE step[<<i, g[i - 1]>>]
        BY <2>1, <4>1 DEF Recurs
      <4>4. i # lo => i - 1 \in lo..m /\ i - 1 # m
        BY <1>2, <3>2
      <4>5. i # lo => f[i - 1] = g[i - 1]
        BY <2>5, <4>4, Zenon
      <4> QED BY <4>2, <4>3, <4>5, Zenon
    <3> QED BY <3>1, <3>2
  <2>7. Recurs(f, lo, m, base, step)
    BY <2>4, <2>6 DEF Recurs
  <2> QED BY <2>4, <2>7
<1> HIDE DEF good
<1>3. n \in good
  BY <1>1, <1>2, UpTo
<1> QED BY <1>3 DEF good

\* The choice of the elements of s at the places in T, step by step.
Chooses(f, s, T) ==
  f = [i \in 0..Len(s) |->
         IF i = 0 THEN <<>>
         ELSE IF i \in T THEN Append(f[i - 1], s[i]) ELSE f[i - 1]]

\* There is such a choice,
LEMMA ChoosesExists ==
  ASSUME NEW S, NEW s \in Seq(S), NEW T
  PROVE  \E f : Chooses(f, s, T)
<1> DEFINE n == Len(s)
           step == [p \in (0..n) \X Seq(S) |->
                      IF p[1] \in T /\ p[1] > 0 THEN Append(p[2], s[p[1]]) ELSE p[2]]
<1>1. n \in Nat /\ \A i \in 1..n : s[i] \in S
  OBVIOUS
<1>2. \A i \in 0..n, q \in Seq(S) : step[<<i, q>>] = IF i \in T /\ i > 0 THEN Append(q, s[i]) ELSE q
  OBVIOUS
<1>3. step \in [(0..n) \X Seq(S) -> Seq(S)]
  <2>1. ASSUME NEW p \in (0..n) \X Seq(S) PROVE step[p] \in Seq(S)
    <3>1. p[1] > 0 => s[p[1]] \in S
      BY <1>1
    <3>2. p[2] \in Seq(S)
      OBVIOUS
    <3>3. p[1] > 0 => Append(p[2], s[p[1]]) \in Seq(S)
      BY <3>1, <3>2, AppendProperties
    <3> QED BY <3>2, <3>3
  <2> QED BY <2>1
<1> HIDE DEF step
<1>4. PICK f \in [0..n -> Seq(S)] : Recurs(f, 0, n, <<>>, step)
  <2>1. <<>> \in Seq(S) /\ 0 \in Nat /\ 0 <= n
    BY <1>1, EmptySeq
  <2> HIDE DEF n
  <2> QED BY <1>1, <1>3, <2>1, RecursionExists
<1>5. ASSUME NEW i \in 0..n
      PROVE  f[i] = IF i = 0 THEN <<>>
                    ELSE IF i \in T THEN Append(f[i - 1], s[i]) ELSE f[i - 1]
  <2>1. f[i] = IF i = 0 THEN <<>> ELSE step[<<i, f[i - 1]>>]
    BY <1>4 DEF Recurs
  <2>2. i # 0 => i - 1 \in 0..n /\ f[i - 1] \in Seq(S)
    BY <1>1, <1>4
  <2>3. i # 0 => step[<<i, f[i - 1]>>] = IF i \in T /\ i > 0 THEN Append(f[i - 1], s[i]) ELSE f[i - 1]
    BY <1>2, <2>2
  <2>4. i # 0 => i > 0
    BY <1>1
  <2> QED BY <2>1, <2>3, <2>4, Zenon
<1>6. f = [i \in 0..n |-> IF i = 0 THEN <<>>
                    ELSE IF i \in T THEN Append(f[i - 1], s[i]) ELSE f[i - 1]]
  BY <1>4, <1>5
<1> QED BY <1>6 DEF Chooses

\* and every such choice ends in a list of elements of s.
LEMMA ChoosesType ==
  ASSUME NEW S, NEW s \in Seq(S), NEW T, NEW f, Chooses(f, s, T)
  PROVE  f[Len(s)] \in Seq(S)
<1> DEFINE good == {i \in 0..Len(s) : f[i] \in Seq(S)}
<1>1. Len(s) \in Nat /\ \A i \in 1..Len(s) : s[i] \in S
  OBVIOUS
<1>2. \A i \in 0..Len(s) : f[i] = IF i = 0 THEN <<>>
        ELSE IF i \in T THEN Append(f[i - 1], s[i]) ELSE f[i - 1]
  BY DEF Chooses
<1>3. 0 \in good
  <2>1. 0 \in 0..Len(s)
    BY <1>1
  <2>2. f[0] = <<>>
    BY <1>2, <2>1, Zenon
  <2> QED BY <2>1, <2>2, EmptySeq
<1>4. ASSUME NEW i \in 0..Len(s), i > 0, i - 1 \in good PROVE i \in good
  <2>1. s[i] \in S /\ f[i - 1] \in Seq(S)
    BY <1>1, <1>4
  <2>2. Append(f[i - 1], s[i]) \in Seq(S)
    BY <2>1, AppendProperties
  <2>3. i # 0
    BY <1>4
  <2>4. f[i] = IF i \in T THEN Append(f[i - 1], s[i]) ELSE f[i - 1]
    BY <1>2, <2>3, Zenon
  <2>5. f[i] \in Seq(S)
    BY <2>1, <2>2, <2>4, Zenon
  <2> QED BY <2>5
<1> HIDE DEF good
<1>5. Len(s) \in good
  BY <1>1, <1>3, <1>4, UpTo
<1> QED BY <1>5 DEF good

\* A list of lists is joined one by one.
LEMMA FlattenRuns ==
  ASSUME NEW S, NEW s \in Seq(Seq(S)), s # <<>>
  PROVE  \E g \in [1..Len(s) -> Seq(S)] :
           /\ FlattenSeq(s) = g[Len(s)]
           /\ \A i \in 1..Len(s) : g[i] = IF i = 1 THEN s[i] ELSE g[i - 1] \o s[i]
<1> DEFINE n == Len(s)
           Joins(f) == f = [i \in 1..n |-> IF i = 1 THEN s[i] ELSE f[i - 1] \o s[i]]
<1>1. n \in Nat \ {0} /\ \A i \in 1..n : s[i] \in Seq(S)
  BY EmptySeq
<1> DEFINE step == [p \in (1..n) \X Seq(S) |-> p[2] \o s[p[1]]]
<1>2. \A i \in 1..n, q \in Seq(S) : step[<<i, q>>] = q \o s[i]
  OBVIOUS
<1>3. \A i \in 1..n, q \in Seq(S) : q \o s[i] \in Seq(S)
  BY <1>1, ConcatProperties
<1>4. step \in [(1..n) \X Seq(S) -> Seq(S)]
  BY <1>3
<1> HIDE DEF step
<1>5. PICK f \in [1..n -> Seq(S)] : Recurs(f, 1, n, s[1], step)
  <2>1. 1 \in Nat /\ n \in Nat /\ 1 <= n /\ s[1] \in Seq(S)
    BY <1>1
  <2> HIDE DEF n
  <2> QED BY <1>4, <2>1, RecursionExists
<1>6. ASSUME NEW i \in 1..n PROVE f[i] = IF i = 1 THEN s[i] ELSE f[i - 1] \o s[i]
  <2>1. f[i] = IF i = 1 THEN s[1] ELSE step[<<i, f[i - 1]>>]
    BY <1>5 DEF Recurs
  <2>2. i # 1 => i - 1 \in 1..n
    BY <1>1
  <2>3. i # 1 => f[i - 1] \in Seq(S)
    BY <1>5, <2>2, Zenon
  <2> QED BY <1>2, <2>1, <2>3, Zenon
<1>7. Joins(f)
  BY <1>5, <1>6
<1> DEFINE g == CHOOSE k : Joins(k)
<1>8. Joins(g)
  BY <1>7
<1>9. FlattenSeq(s) = g[n]
  BY <1>1 DEF FlattenSeq
<1> HIDE DEF g
<1>10. DOMAIN g = 1..n /\ \A i \in 1..n : g[i] = IF i = 1 THEN s[i] ELSE g[i - 1] \o s[i]
  BY <1>8
<1> DEFINE good == {i \in 1..n : g[i] \in Seq(S)}
<1>11. 1 \in good
  <2>1. 1 \in 1..n
    BY <1>1
  <2>2. g[1] = s[1]
    BY <1>10, <2>1, Zenon
  <2>3. g[1] \in Seq(S)
    BY <1>1, <2>1, <2>2
  <2> QED BY <2>1, <2>3
<1>12. ASSUME NEW i \in 1..n, i > 1, i - 1 \in good PROVE i \in good
  <2>1. i # 1 /\ g[i - 1] \in Seq(S)
    BY <1>12
  <2>2. g[i] = g[i - 1] \o s[i]
    BY <1>10, <2>1, Zenon
  <2>3. g[i] \in Seq(S)
    BY <1>3, <2>1, <2>2, Zenon
  <2> QED BY <2>3
<1>13. ASSUME NEW j \in 1..n PROVE j \in good
  <2>1. \A i \in 1..j : i > 1 /\ i - 1 \in good => i \in good
    BY <1>1, <1>12
  <2>2. 1 \in Nat /\ j \in Nat /\ 1 <= j
    BY <1>1
  <2> HIDE DEF good
  <2> QED BY <1>11, <2>1, <2>2, UpTo
<1>14. g \in [1..n -> Seq(S)]
  <2>1. \A i \in 1..n : g[i] \in Seq(S)
    BY <1>13
  <2>2. g = [i \in 1..n |-> g[i]]
    BY <1>8
  <2> HIDE DEF good, n
  <2> QED BY <2>1, <2>2
<1> QED BY <1>9, <1>10, <1>14

\* What is in a list of lists, joined.
LEMMA FlattenType ==
  ASSUME NEW S, NEW s \in Seq(Seq(S))
  PROVE  /\ FlattenSeq(s) \in Seq(S)
         /\ Range(FlattenSeq(s)) = UNION {Range(s[i]) : i \in 1..Len(s)}
<1> DEFINE n == Len(s)
<1>1. n \in Nat /\ \A i \in 1..n : s[i] \in Seq(S)
  OBVIOUS
<1>2. CASE n = 0
  <2>1. s = <<>>
    BY <1>2, EmptySeq
  <2>2. FlattenSeq(s) = <<>> /\ Range(<<>>) = {} /\ 1..n = {}
    BY <1>2, <2>1 DEF FlattenSeq, Range
  <2> QED BY <2>2, EmptySeq
<1>3. CASE n # 0
  <2>1. s # <<>>
    BY <1>3
  <2>2. PICK g \in [1..n -> Seq(S)] :
          /\ FlattenSeq(s) = g[n]
          /\ \A i \in 1..n : g[i] = IF i = 1 THEN s[i] ELSE g[i - 1] \o s[i]
    BY <2>1, FlattenRuns
  <2> DEFINE below(i) == UNION {Range(s[k]) : k \in 1..i}
             good == {i \in 1..n : Range(g[i]) = below(i)}
  <2>3. 1 \in good
    <3>1. 1 \in 1..n /\ 1..1 = {1}
      BY <1>1, <1>3
    <3>2. g[1] = s[1]
      BY <2>2, <3>1, Zenon
    <3>3. below(1) = Range(s[1])
      BY <3>1
    <3> QED BY <3>1, <3>2, <3>3
  <2>4. ASSUME NEW i \in 1..n, i > 1, i - 1 \in good PROVE i \in good
    <3>1. i # 1 /\ i - 1 \in 1..n /\ Range(g[i - 1]) = below(i - 1)
      BY <1>1, <2>4
    <3>2. g[i] = g[i - 1] \o s[i] /\ g[i - 1] \in Seq(S) /\ s[i] \in Seq(S)
      BY <1>1, <2>2, <3>1, Zenon
    <3>3. Range(g[i]) = Range(g[i - 1]) \cup Range(s[i])
      BY <3>2, ConcatRange
    <3>4. \A k : k \in 1..i <=> k \in 1..i - 1 \/ k = i
      BY <1>1
    <3>5. below(i) = below(i - 1) \cup Range(s[i])
      BY <3>4, Zenon
    <3> QED BY <3>1, <3>3, <3>5
  <2> HIDE DEF good
  <2>5. n \in good
    <3>1. 1 \in Nat /\ n \in Nat /\ 1 <= n
      BY <1>1, <1>3
    <3>2. \A i \in 1..n : i > 1 /\ i - 1 \in good => i \in good
      BY <2>4
    <3> HIDE DEF n
    <3> QED BY <2>3, <3>1, <3>2, UpTo
  <2>6. g[n] \in Seq(S)
    BY <1>1, <1>3, <2>2
  <2> QED BY <2>2, <2>5, <2>6 DEF good
<1> QED BY <1>2, <1>3

-----------------------------------------------------------------------------
(* Lists of anything.                                                      *)

IsList(s) == s \in Seq(Range(s))

\* A sequence over any set is a list.
LEMMA SeqIsList ==
  ASSUME NEW S, NEW s \in Seq(S)
  PROVE  IsList(s)
<1>1. Len(s) \in Nat /\ s = [i \in 1..Len(s) |-> s[i]] /\ \A i \in 1..Len(s) : s[i] \in Range(s)
  BY InRange
<1>2. [i \in 1..Len(s) |-> s[i]] \in Seq(Range(s))
  BY <1>1
<1> QED BY <1>1, <1>2 DEF IsList

\* A list is what it has at 1, 2 and so on.
LEMMA ListIndexed ==
  ASSUME NEW n \in Nat, NEW s, s = [i \in 1..n |-> s[i]]
  PROVE  /\ IsList(s) /\ Len(s) = n /\ DOMAIN s = 1..n
         /\ Range(s) = {s[i] : i \in 1..n}
<1>1. DOMAIN s = 1..n
  OBVIOUS
<1>2. Range(s) = {s[i] : i \in 1..n}
  BY <1>1 DEF Range
<1>3. [i \in 1..n |-> s[i]] \in Seq(Range(s))
  BY <1>2
<1>4. s \in Seq(Range(s)) /\ Len(s) = n
  BY <1>1, <1>3
<1> QED BY <1>1, <1>2, <1>4 DEF IsList

\* What a list has, by its numbers.
LEMMA ListParts ==
  ASSUME NEW s, IsList(s)
  PROVE  /\ Len(s) \in Nat /\ DOMAIN s = 1..Len(s) /\ s = [i \in 1..Len(s) |-> s[i]]
         /\ Range(s) = {s[i] : i \in 1..Len(s)}
<1>1. s \in Seq(Range(s))
  BY DEF IsList
<1>2. Len(s) \in Nat /\ DOMAIN s = 1..Len(s) /\ s = [i \in 1..Len(s) |-> s[i]]
  BY <1>1
<1> QED BY <1>2 DEF Range

\* The empty list,
LEMMA EmptyList == IsList(<<>>) /\ Range(<<>>) = {}
<1>1. Range(<<>>) = {}
  BY DEF Range
<1> QED BY <1>1, EmptySeq DEF IsList

\* and that of one element.
LEMMA OneList ==
  ASSUME NEW e
  PROVE  IsList(<<e>>) /\ Range(<<e>>) = {e} /\ Len(<<e>>) = 1
<1>1. Range(<<e>>) = {e}
  BY DEF Range
<1> QED BY <1>1 DEF IsList

\* What is in two lists, one after the other,
LEMMA ListConcat ==
  ASSUME NEW s, IsList(s), NEW t, IsList(t)
  PROVE  IsList(s \o t) /\ Range(s \o t) = Range(s) \cup Range(t)
<1> DEFINE S == Range(s) \cup Range(t)
<1>1. s \in Seq(S) /\ t \in Seq(S)
  BY SeqMonotonic DEF IsList
<1> HIDE DEF S
<1> QED BY <1>1, ConcatRange, SeqIsList

\* and in a list of lists.
LEMMA ListFlatten ==
  ASSUME NEW n \in Nat, NEW s, s = [i \in 1..n |-> s[i]], \A i \in 1..n : IsList(s[i])
  PROVE  /\ IsList(FlattenSeq(s))
         /\ Range(FlattenSeq(s)) = UNION {Range(s[i]) : i \in 1..n}
<1> DEFINE S == UNION {Range(s[i]) : i \in 1..n}
<1>1. \A i \in 1..n : s[i] \in Seq(S)
  <2> SUFFICES ASSUME NEW i \in 1..n PROVE s[i] \in Seq(S)
    OBVIOUS
  <2>1. s[i] \in Seq(Range(s[i])) /\ Range(s[i]) \subseteq S
    BY DEF IsList
  <2> HIDE DEF S
  <2> QED BY <2>1, SeqMonotonic
<1>2. Len(s) = n
  BY ListIndexed
<1> HIDE DEF S
<1>3. [i \in 1..n |-> s[i]] \in Seq(Seq(S))
  BY <1>1
<1>4. s \in Seq(Seq(S))
  BY <1>3
<1>5. FlattenSeq(s) \in Seq(S) /\ Range(FlattenSeq(s)) = UNION {Range(s[i]) : i \in 1..n}
  BY <1>2, <1>4, FlattenType
<1> QED BY <1>5, SeqIsList

\* What is appended comes last.
LEMMA AppendList ==
  ASSUME NEW s, IsList(s), NEW e
  PROVE  /\ IsList(Append(s, e)) /\ Append(s, e) = s \o <<e>>
         /\ Len(Append(s, e)) = Len(s) + 1
         /\ Last(Append(s, e)) = e /\ Front(Append(s, e)) = s
<1> DEFINE S == Range(s) \cup {e}
<1>1. s \in Seq(S)
  BY SeqMonotonic DEF IsList
<1>2. e \in S
  OBVIOUS
<1> HIDE DEF S
<1>3. PICK t : t = Append(s, e)
  OBVIOUS
<1>4. /\ t \in Seq(S) /\ Len(s) \in Nat /\ Len(t) = Len(s) + 1 /\ t[Len(s) + 1] = e
      /\ \A i \in 1..Len(s) : t[i] = s[i]
      /\ t = s \o <<e>>
  BY <1>1, <1>2, <1>3
<1>5. Last(t) = e
  BY <1>4 DEF Last
<1>6. Front(t) = s
  <2>1. Len(t) - 1 = Len(s)
    BY <1>4
  <2>2. Front(t) = SubSeq(t, 1, Len(s))
    BY <2>1 DEF Front
  <2>3. SubSeq(t, 1, Len(s)) = [i \in 1..Len(s) |-> s[i]]
    BY <1>4
  <2>4. s = [i \in 1..Len(s) |-> s[i]]
    BY <1>1
  <2> QED BY <2>2, <2>3, <2>4
<1> QED BY <1>3, <1>4, <1>5, <1>6, SeqIsList

\* Of two beginnings of one list, one is a beginning of the other.
LEMMA Comparable ==
  ASSUME NEW s, IsList(s), NEW t, IsList(t), NEW u, IsList(u), NEW v, IsList(v),
         s \o u = t \o v
  PROVE  /\ IsPrefix(s, t) \/ IsPrefix(t, s)
         /\ s = t => u = v
<1> DEFINE S == (Range(s) \cup Range(t)) \cup (Range(u) \cup Range(v))
<1>1. s \in Seq(S) /\ t \in Seq(S) /\ u \in Seq(S) /\ v \in Seq(S)
  BY SeqMonotonic DEF IsList
<1> HIDE DEF S
<1>2. s = t => u = v
  BY <1>1, ConcatSimplifications
<1>3. PICK w : w = s \o u /\ w = t \o v
  OBVIOUS
<1>4. /\ Len(s) \in Nat /\ Len(t) \in Nat /\ Len(u) \in Nat /\ Len(v) \in Nat
      /\ \A i \in 1..Len(s) : w[i] = s[i]
      /\ \A i \in 1..Len(t) : w[i] = t[i]
  <2>1. \A i \in 1..Len(s) : (s \o u)[i] = s[i]
    BY <1>1
  <2>2. \A i \in 1..Len(t) : (t \o v)[i] = t[i]
    BY <1>1
  <2> QED BY <1>1, <1>3, <2>1, <2>2
<1>5. CASE Len(s) <= Len(t)
  <2>1. \A i \in 1..Len(s) : s[i] = t[i]
    BY <1>4, <1>5
  <2>2. SubSeq(s, 1, Len(s)) = SubSeq(t, 1, Len(s))
    BY <1>1, <1>4, <2>1
  <2> QED BY <1>2, <1>5, <2>2 DEF IsPrefix
<1>6. CASE Len(t) <= Len(s)
  <2>1. \A i \in 1..Len(t) : s[i] = t[i]
    BY <1>4, <1>6
  <2>2. SubSeq(s, 1, Len(t)) = SubSeq(t, 1, Len(t))
    BY <1>1, <1>4, <2>1
  <2> QED BY <1>2, <1>6, <2>2 DEF IsPrefix
<1> QED BY <1>4, <1>5, <1>6

\* Lists whose ends are of one length are equal part by part.
LEMMA SameEnds ==
  ASSUME NEW s, IsList(s), NEW t, IsList(t), NEW u, IsList(u), NEW v, IsList(v),
         s \o u = t \o v, Len(u) = Len(v)
  PROVE  s = t /\ u = v
<1> DEFINE S == (Range(s) \cup Range(t)) \cup (Range(u) \cup Range(v))
<1>1. s \in Seq(S) /\ t \in Seq(S) /\ u \in Seq(S) /\ v \in Seq(S)
  BY SeqMonotonic DEF IsList
<1> HIDE DEF S
<1>2. PICK w : w = s \o u /\ w = t \o v
  OBVIOUS
<1>3. Len(w) = Len(s) + Len(u) /\ Len(w) = Len(t) + Len(v)
  <2>1. Len(s \o u) = Len(s) + Len(u) /\ Len(t \o v) = Len(t) + Len(v)
    BY <1>1
  <2> QED BY <1>2, <2>1
<1>4. Len(s) = Len(t) /\ Len(s) \in Nat
  BY <1>1, <1>3
<1>5. \A i \in 1..Len(s) : (s \o u)[i] = s[i] /\ (t \o v)[i] = t[i]
  BY <1>1, <1>4
<1>6. \A i \in 1..Len(s) : s[i] = t[i]
  BY <1>5
<1>7. s = t
  BY <1>1, <1>4, <1>6, SeqEqual
<1> QED BY <1>7, Comparable

\* Three lists in a row.
LEMMA ConcatAssoc ==
  ASSUME NEW s, IsList(s), NEW t, IsList(t), NEW u, IsList(u)
  PROVE  (s \o t) \o u = s \o (t \o u) /\ Len(s \o t) = Len(s) + Len(t)
<1> DEFINE S == Range(s) \cup (Range(t) \cup Range(u))
<1>1. s \in Seq(S) /\ t \in Seq(S) /\ u \in Seq(S)
  BY SeqMonotonic DEF IsList
<1> HIDE DEF S
<1> QED BY <1>1, ConcatAssociative

\* A list with one element for each of another.
LEMMA ListMap ==
  ASSUME NEW d, IsList(d), NEW h, NEW s, s = [j \in DOMAIN d |-> h[j]]
  PROVE  IsList(s) /\ Range(s) = {h[j] : j \in DOMAIN d}
<1>1. Len(d) \in Nat /\ DOMAIN d = 1..Len(d)
  BY ListParts
<1>2. s = [j \in 1..Len(d) |-> s[j]] /\ \A j \in 1..Len(d) : s[j] = h[j]
  BY <1>1
<1>3. IsList(s) /\ Range(s) = {s[j] : j \in 1..Len(d)}
  BY <1>1, <1>2, ListIndexed
<1> QED BY <1>1, <1>2, <1>3

\* All but the last element of a list.
LEMMA FrontList ==
  ASSUME NEW s, IsList(s), s # <<>>
  PROVE  IsList(Front(s)) /\ s = Append(Front(s), Last(s))
<1>1. PICK S, n : S = Range(s) /\ n = Len(s)
  OBVIOUS
<1>2. s \in Seq(S) /\ n \in Nat /\ n # 0
  BY <1>1, EmptySeq DEF IsList
<1>3. PICK t : t = Front(s)
  OBVIOUS
<1>4. t = SubSeq(s, 1, n - 1) /\ Last(s) = s[n]
  BY <1>1, <1>3 DEF Front, Last
<1>5. t = [i \in 1..n - 1 |-> s[i]] /\ s = [i \in 1..n |-> s[i]]
  BY <1>1, <1>2, <1>4
<1>6. t \in Seq(S) /\ Len(t) = n - 1
  <2>1. n - 1 \in Nat /\ \A i \in 1..n - 1 : s[i] \in S
    BY <1>1, <1>2
  <2>2. [i \in 1..n - 1 |-> s[i]] \in Seq(S) /\ Len([i \in 1..n - 1 |-> s[i]]) = n - 1
    BY <2>1
  <2> QED BY <1>5, <2>2
<1>7. s[n] \in S
  BY <1>1, <1>2, <1>5
<1>8. PICK u : u = Append(t, s[n])
  OBVIOUS
<1>9. u \in Seq(S) /\ Len(u) = n /\ \A i \in 1..n : u[i] = s[i]
  <2>1. u \in Seq(S) /\ Len(u) = n
    BY <1>2, <1>6, <1>7, <1>8
  <2>2. u[n] = s[n] /\ \A i \in 1..n - 1 : u[i] = t[i]
    BY <1>2, <1>6, <1>7, <1>8
  <2>3. \A i \in 1..n - 1 : t[i] = s[i]
    BY <1>5
  <2>4. ASSUME NEW i \in 1..n PROVE u[i] = s[i]
    BY <1>2, <2>2, <2>3
  <2> QED BY <2>1, <2>4
<1>10. s = u
  BY <1>1, <1>2, <1>9, SeqEqual
<1> QED BY <1>3, <1>4, <1>6, <1>8, <1>10, SeqIsList

-----------------------------------------------------------------------------
(* Recursion over finite sets.                                             *)

\* What holds of the empty set, and of a set if it holds of all smaller ones,
\* holds of every finite set.
LEMMA FiniteInduction ==
  ASSUME NEW S, IsFiniteSet(S), NEW T,
         \A s \in SUBSET S : (\A r \in SUBSET s : r # s => r \in T) => s \in T
  PROVE  S \in T
<1> SUFFICES ASSUME S \notin T PROVE FALSE
  OBVIOUS
<1> DEFINE out == {s \in SUBSET S : s \notin T}
           sizes == {Cardinality(s) : s \in out}
<1>1. \A s \in SUBSET S : IsFiniteSet(s) /\ Cardinality(s) \in Nat
  BY FS_Subset, FS_CardinalityType
<1>2. sizes \in SUBSET Nat /\ sizes # {}
  BY <1>1
<1>3. PICK k \in sizes : \A j \in sizes : k <= j
  BY <1>2, LeastNumber
<1>4. PICK s \in out : Cardinality(s) = k
  BY <1>3
<1>5. ASSUME NEW r \in SUBSET s, r # s PROVE r \in T
  <2>1. r \in SUBSET S /\ Cardinality(r) \in Nat /\ Cardinality(s) \in Nat
    BY <1>1
  <2>2. Cardinality(r) <= Cardinality(s) /\ Cardinality(r) # Cardinality(s)
    BY <1>1, <1>5, FS_Subset
  <2>3. Cardinality(r) < k
    BY <1>4, <2>1, <2>2
  <2>4. r \notin out
    <3>1. r \in out => Cardinality(r) \in sizes
      OBVIOUS
    <3>2. k \in Nat
      BY <1>2
    <3> HIDE DEF sizes, out
    <3> QED BY <1>3, <2>1, <2>3, <3>1, <3>2
  <2> QED BY <2>1, <2>4
<1> QED BY <1>4, <1>5

\* Taking S apart, pick[s] first: what step makes of that element and of what
\* the others came to.
FoldsUp(g, S, base, step, pick) ==
  g = [s \in SUBSET S |-> IF s = {} THEN base ELSE step[<<pick[s], g[s \ {pick[s]}]>>]]

\* Two ways of doing so agree on what both take apart.
LEMMA FoldsAgree ==
  ASSUME NEW R, NEW S, NEW base, NEW step, NEW pick, NEW f, NEW g,
         FoldsUp(f, R, base, step, pick), FoldsUp(g, S, base, step, pick),
         NEW s \in SUBSET (R \cap S), IsFiniteSet(s),
         \A t \in SUBSET s : t # {} => pick[t] \in t
  PROVE  f[s] = g[s]
<1> DEFINE good == {r \in SUBSET (R \cap S) : f[r] = g[r]}
<1>1. ASSUME NEW t \in SUBSET s, \A r \in SUBSET t : r # t => r \in good
      PROVE  t \in good
  <2>1. t \in SUBSET R /\ t \in SUBSET S
    OBVIOUS
  <2>2. CASE t = {}
    BY <2>1, <2>2 DEF FoldsUp
  <2>3. CASE t # {}
    <3>1. pick[t] \in t
      BY <2>3
    <3>2. f[t \ {pick[t]}] = g[t \ {pick[t]}]
      BY <1>1, <3>1
    <3>3. /\ f[t] = step[<<pick[t], f[t \ {pick[t]}]>>]
          /\ g[t] = step[<<pick[t], g[t \ {pick[t]}]>>]
      BY <2>1, <2>3 DEF FoldsUp
    <3> QED BY <2>1, <3>2, <3>3
  <2> QED BY <2>2, <2>3
<1> HIDE DEF good
<1>2. s \in good
  BY <1>1, FiniteInduction
<1> QED BY <1>2 DEF good

\* A finite set can be taken apart, within a set X that step does not leave.
LEMMA FoldsExists ==
  ASSUME NEW S, IsFiniteSet(S), NEW X, NEW base \in X, NEW step \in [S \X X -> X],
         NEW pick, \A t \in SUBSET S : t # {} => pick[t] \in t
  PROVE  \E g \in [SUBSET S -> X] : FoldsUp(g, S, base, step, pick)
<1> DEFINE has(s) == \E g \in [SUBSET s -> X] : FoldsUp(g, s, base, step, pick)
           good == {s \in SUBSET S : has(s)}
<1>1. ASSUME NEW s \in SUBSET S, \A r \in SUBSET s : r # s => r \in good
      PROVE  s \in good
  <2> DEFINE of(r) == CHOOSE g : g \in [SUBSET r -> X] /\ FoldsUp(g, r, base, step, pick)
             rest == s \ {pick[s]}
             last == IF s = {} THEN base ELSE step[<<pick[s], of(rest)[rest]>>]
             all == [r \in SUBSET s |-> IF r # s THEN of(r)[r] ELSE last]
  <2>1. ASSUME NEW r \in SUBSET s, r # s
        PROVE  of(r) \in [SUBSET r -> X] /\ FoldsUp(of(r), r, base, step, pick)
    <3>1. has(r)
      BY <1>1, <2>1
    <3> QED BY <3>1
  <2>2. s # {} => pick[s] \in s /\ rest \in SUBSET s /\ rest # s
    OBVIOUS
  <2> HIDE DEF of
  <2>3. last \in X
    <3>1. CASE s = {}
      BY <3>1
    <3>2. CASE s # {}
      <4>1. of(rest) \in [SUBSET rest -> X] /\ pick[s] \in S
        BY <2>1, <2>2, <3>2
      <4>2. of(rest)[rest] \in X
        <5> HIDE DEF rest
        <5> QED BY <4>1
      <4>3. step[<<pick[s], of(rest)[rest]>>] \in X
        <5> HIDE DEF rest
        <5> QED BY <4>1, <4>2
      <4> QED BY <3>2, <4>3
    <3> QED BY <3>1, <3>2
  <2>4. \A r \in SUBSET s : all[r] = IF r # s THEN of(r)[r] ELSE last
    <3> HIDE DEF last
    <3> QED OBVIOUS
  <2>5. all \in [SUBSET s -> X]
    <3> HIDE DEF last
    <3>1. ASSUME NEW r \in SUBSET s, r # s PROVE of(r)[r] \in X
      <4>1. of(r) \in [SUBSET r -> X] /\ r \in SUBSET r
        BY <2>1, <3>1
      <4> QED BY <4>1
    <3>2. ASSUME NEW r \in SUBSET s PROVE (IF r # s THEN of(r)[r] ELSE last) \in X
      BY <2>3, <3>1
    <3> QED BY <3>2
  <2> HIDE DEF all
  <2>6. ASSUME NEW r \in SUBSET s, r # {}
        PROVE  all[r] = step[<<pick[r], all[r \ {pick[r]}]>>]
    <3> DEFINE q == r \ {pick[r]}
    <3>1. pick[r] \in r /\ q \in SUBSET r /\ q # r /\ q \in SUBSET s /\ q # s
      BY <2>6
    <3>2. all[q] = of(q)[q]
      <4> HIDE DEF q, last
      <4> QED BY <2>4, <3>1
    <3>3. CASE r = s
      <4>1. all[r] = step[<<pick[r], of(rest)[rest]>>]
        BY <2>4, <2>6, <3>3
      <4>2. q = rest
        BY <3>3
      <4> QED BY <3>2, <4>1, <4>2
    <3>4. CASE r # s
      <4>1. all[r] = of(r)[r]
        BY <2>4, <3>4
      <4>2. of(r)[r] = step[<<pick[r], of(r)[q]>>]
        <5>1. FoldsUp(of(r), r, base, step, pick) /\ r \in SUBSET r
          BY <2>1, <3>4
        <5>2. \A g : FoldsUp(g, r, base, step, pick) => g[r] = step[<<pick[r], g[q]>>]
          BY <2>6 DEF FoldsUp
        <5> QED BY <5>1, <5>2
      <4>3. IsFiniteSet(q)
        BY FS_Subset
      <4>4. q \in SUBSET (r \cap q) /\ \A t \in SUBSET q : t # {} => pick[t] \in t
        BY <3>1
      <4>5. FoldsUp(of(r), r, base, step, pick) /\ FoldsUp(of(q), q, base, step, pick)
        BY <2>1, <3>1, <3>4
      <4> HIDE DEF q
      <4>6. of(r)[q] = of(q)[q]
        BY <4>3, <4>4, <4>5, FoldsAgree
      <4> QED BY <3>2, <4>1, <4>2, <4>6 DEF q
    <3> QED BY <3>3, <3>4
  <2>7. all[{}] = base
    <3>1. CASE s = {}
      BY <2>4, <3>1
    <3>2. CASE s # {}
      <4>1. FoldsUp(of({}), {}, base, step, pick) /\ all[{}] = of({})[{}]
        BY <2>1, <2>4, <3>2
      <4> QED BY <4>1 DEF FoldsUp
    <3> QED BY <3>1, <3>2
  <2>8. FoldsUp(all, s, base, step, pick)
    BY <2>5, <2>6, <2>7 DEF FoldsUp
  <2> QED BY <2>5, <2>8
<1> HIDE DEF good
<1>2. S \in good
  BY <1>1, FiniteInduction
<1> QED BY <1>2 DEF good

-----------------------------------------------------------------------------
(* Sums.                                                                   *)

Pick(s) == CHOOSE x \in s : TRUE

\* Summing h over the subsets of S, element by element.
AddsUp(g, S, h) ==
  g = [s \in SUBSET S |-> IF s = {} THEN 0 ELSE h[Pick(s)] + g[s \ {Pick(s)}]]

\* Two ways of summing agree on what both sum.
LEMMA AddsAgree ==
  ASSUME NEW R, NEW S, NEW h, NEW f, NEW g, AddsUp(f, R, h), AddsUp(g, S, h),
         NEW s \in SUBSET (R \cap S), IsFiniteSet(s)
  PROVE  f[s] = g[s]
<1> DEFINE good == {r \in SUBSET (R \cap S) : f[r] = g[r]}
<1>1. ASSUME NEW t \in SUBSET s, \A r \in SUBSET t : r # t => r \in good
      PROVE  t \in good
  <2>1. t \in SUBSET R /\ t \in SUBSET S
    OBVIOUS
  <2>2. CASE t = {}
    BY <2>1, <2>2 DEF AddsUp
  <2>3. CASE t # {}
    <3>1. Pick(t) \in t
      BY <2>3 DEF Pick
    <3>2. f[t \ {Pick(t)}] = g[t \ {Pick(t)}]
      BY <1>1, <3>1
    <3>3. /\ f[t] = h[Pick(t)] + f[t \ {Pick(t)}]
          /\ g[t] = h[Pick(t)] + g[t \ {Pick(t)}]
      BY <2>1, <2>3 DEF AddsUp
    <3> QED BY <3>2, <3>3
  <2> QED BY <2>2, <2>3
<1> HIDE DEF good
<1>2. s \in good
  BY <1>1, FiniteInduction
<1> QED BY <1>2 DEF good

\* Numbers can be summed.
LEMMA AddsExists ==
  ASSUME NEW S, IsFiniteSet(S), NEW h, \A x \in S : h[x] \in Nat
  PROVE  \E g \in [SUBSET S -> Nat] : AddsUp(g, S, h)
<1> DEFINE step == [p \in S \X Nat |-> h[p[1]] + p[2]]
           pick == [s \in SUBSET S |-> Pick(s)]
<1>1. \A x \in S, v \in Nat : step[<<x, v>>] = h[x] + v
  OBVIOUS
<1>2. step \in [S \X Nat -> Nat]
  OBVIOUS
<1>3. \A s \in SUBSET S : pick[s] = Pick(s) /\ (s # {} => Pick(s) \in s)
  BY DEF Pick
<1> HIDE DEF step, pick
<1>4. PICK g \in [SUBSET S -> Nat] : FoldsUp(g, S, 0, step, pick)
  <2>1. 0 \in Nat /\ \A t \in SUBSET S : t # {} => pick[t] \in t
    BY <1>3
  <2> QED BY <1>2, <2>1, FoldsExists
<1>5. ASSUME NEW s \in SUBSET S
      PROVE  g[s] = IF s = {} THEN 0 ELSE h[Pick(s)] + g[s \ {Pick(s)}]
  <2>1. g[s] = IF s = {} THEN 0 ELSE step[<<Pick(s), g[s \ {Pick(s)}]>>]
    BY <1>3, <1>4 DEF FoldsUp
  <2>2. g[s \ {Pick(s)}] \in Nat
    OBVIOUS
  <2>3. s # {} => step[<<Pick(s), g[s \ {Pick(s)}]>>] = h[Pick(s)] + g[s \ {Pick(s)}]
    BY <1>1, <1>3, <2>2
  <2> QED BY <2>1, <2>3
<1> QED BY <1>4, <1>5 DEF AddsUp

\* The sum of h over a finite set S.
Total(h, S) == (CHOOSE g : AddsUp(g, S, h))[S]

\* However it is obtained, a sum is Total.
LEMMA TotalAdds ==
  ASSUME NEW S, IsFiniteSet(S), NEW h, \A x \in S : h[x] \in Nat,
         NEW g, AddsUp(g, S, h)
  PROVE  Total(h, S) = g[S]
<1>1. AddsUp(CHOOSE k : AddsUp(k, S, h), S, h)
  OBVIOUS
<1>2. S \in SUBSET (S \cap S)
  OBVIOUS
<1> QED BY <1>1, <1>2, AddsAgree DEF Total

\* A total is a number, and the sum of one element and the rest.
LEMMA TotalPicked ==
  ASSUME NEW S, IsFiniteSet(S), NEW h, \A x \in S : h[x] \in Nat
  PROVE  /\ Total(h, S) \in Nat
         /\ S = {} => Total(h, S) = 0
         /\ S # {} => Total(h, S) = h[Pick(S)] + Total(h, S \ {Pick(S)})
<1>1. PICK g \in [SUBSET S -> Nat] : AddsUp(g, S, h)
  BY AddsExists
<1>2. Total(h, S) = g[S]
  BY <1>1, TotalAdds
<1>3. g[S] = IF S = {} THEN 0 ELSE h[Pick(S)] + g[S \ {Pick(S)}]
  BY <1>1 DEF AddsUp
<1> DEFINE R == S \ {Pick(S)}
<1>4. IsFiniteSet(R) /\ R \in SUBSET S
  BY FS_Subset
<1>5. PICK f \in [SUBSET R -> Nat] : AddsUp(f, R, h)
  BY <1>4, AddsExists
<1>6. Total(h, R) = f[R]
  BY <1>4, <1>5, TotalAdds
<1>7. f[R] = g[R]
  <2>1. R \in SUBSET (R \cap S)
    BY <1>4
  <2> HIDE DEF R
  <2> QED BY <1>1, <1>4, <1>5, <2>1, AddsAgree
<1> QED BY <1>1, <1>2, <1>3, <1>6, <1>7

\* The order of the elements does not matter.
LEMMA TotalRemove ==
  ASSUME NEW S, IsFiniteSet(S), NEW h, \A x \in S : h[x] \in Nat, NEW x \in S
  PROVE  Total(h, S) = h[x] + Total(h, S \ {x})
<1> DEFINE splits(s) == \A y \in s : Total(h, s) = h[y] + Total(h, s \ {y})
           good == {s \in SUBSET S : splits(s)}
<1>1. \A s \in SUBSET S : IsFiniteSet(s) /\ \A y \in s : h[y] \in Nat
  BY FS_Subset
<1>2. ASSUME NEW s \in SUBSET S, \A r \in SUBSET s : r # s => r \in good
      PROVE  s \in good
  <2> SUFFICES ASSUME NEW y \in s PROVE Total(h, s) = h[y] + Total(h, s \ {y})
    OBVIOUS
  <2> DEFINE p == Pick(s)
             a == s \ {p}
             b == s \ {y}
             c == s \ {p, y}
  <2>1. p \in s
    BY DEF Pick
  <2>2. Total(h, s) = h[p] + Total(h, a)
    BY <1>1, TotalPicked
  <2>3. CASE y = p
    BY <2>2, <2>3
  <2>4. CASE y # p
    <3>1. a \in good /\ b \in good
      BY <1>2, <2>1
    <3>2. a \ {y} = c /\ b \ {p} = c /\ y \in a /\ p \in b
      BY <2>1, <2>4
    <3>3. Total(h, a) = h[y] + Total(h, c) /\ Total(h, b) = h[p] + Total(h, c)
      BY <3>1, <3>2
    <3>4. Total(h, c) \in Nat /\ h[p] \in Nat /\ h[y] \in Nat
      BY <1>1, <2>1, TotalPicked
    <3> QED BY <2>2, <3>3, <3>4
  <2> QED BY <2>3, <2>4
<1> HIDE DEF good
<1>3. S \in good
  BY <1>2, FiniteInduction
<1> QED BY <1>3 DEF good

\* The sum of sums is the sum of both.
LEMMA TotalSplits ==
  ASSUME NEW S, IsFiniteSet(S), NEW h, NEW a, NEW b,
         \A x \in S : a[x] \in Nat /\ b[x] \in Nat /\ h[x] = a[x] + b[x]
  PROVE  Total(h, S) = Total(a, S) + Total(b, S)
<1> DEFINE good == {s \in SUBSET S : Total(h, s) = Total(a, s) + Total(b, s)}
<1>1. \A s \in SUBSET S : /\ IsFiniteSet(s)
                          /\ \A x \in s : a[x] \in Nat /\ b[x] \in Nat /\ h[x] \in Nat
  BY FS_Subset
<1>2. ASSUME NEW s \in SUBSET S, \A r \in SUBSET s : r # s => r \in good
      PROVE  s \in good
  <2> DEFINE p == Pick(s)
             rest == s \ {p}
  <2>1. CASE s = {}
    <3>1. Total(h, s) = 0 /\ Total(a, s) = 0 /\ Total(b, s) = 0
      BY <1>1, <2>1, TotalPicked
    <3> QED BY <3>1
  <2>2. CASE s # {}
    <3>1. p \in s
      BY <2>2 DEF Pick
    <3>2. rest \in SUBSET S /\ Total(h, rest) = Total(a, rest) + Total(b, rest)
      BY <1>2, <3>1
    <3>3. /\ Total(h, s) = h[p] + Total(h, rest)
          /\ Total(a, s) = a[p] + Total(a, rest)
          /\ Total(b, s) = b[p] + Total(b, rest)
      BY <1>1, <2>2, TotalPicked
    <3>4. Total(a, rest) \in Nat /\ Total(b, rest) \in Nat
      BY <1>1, <3>2, TotalPicked
    <3>5. a[p] \in Nat /\ b[p] \in Nat /\ h[p] = a[p] + b[p]
      BY <3>1
    <3> HIDE DEF p, rest
    <3>6. Total(h, s) = Total(a, s) + Total(b, s)
      BY <3>2, <3>3, <3>4, <3>5
    <3> QED BY <3>6
  <2> QED BY <2>1, <2>2
<1> HIDE DEF good
<1>3. S \in good
  BY <1>2, FiniteInduction
<1> QED BY <1>3 DEF good

\* A sum of numbers above 0 grows with its bound.
LEMMA TotalGrows ==
  ASSUME NEW n \in Nat, NEW h, \A j \in 1..n : h[j] \in Nat \ {0},
         NEW k \in Nat, k < n
  PROVE  Total(h, 1..k) + 1 <= Total(h, 1..n)
<1>1. \A m \in Nat : IsFiniteSet(1..m)
  BY FS_Interval
<1>2. \A m \in 0..n : Total(h, 1..m) \in Nat
  <2> SUFFICES ASSUME NEW m \in 0..n PROVE Total(h, 1..m) \in Nat
    OBVIOUS
  <2>1. IsFiniteSet(1..m) /\ \A j \in 1..m : h[j] \in Nat
    BY <1>1
  <2> QED BY <2>1, TotalPicked
<1>3. ASSUME NEW m \in 1..n
      PROVE  Total(h, 1..(m - 1)) + 1 <= Total(h, 1..m)
  <2>1. IsFiniteSet(1..m) /\ (\A j \in 1..m : h[j] \in Nat) /\ m \in 1..m
    BY <1>1
  <2>2. (1..m) \ {m} = 1..(m - 1)
    OBVIOUS
  <2>3. Total(h, 1..m) = h[m] + Total(h, 1..(m - 1))
    BY <2>1, <2>2, TotalRemove
  <2>4. Total(h, 1..(m - 1)) \in Nat /\ h[m] \in Nat \ {0}
    BY <1>2
  <2> QED BY <2>3, <2>4
<1> DEFINE good == {m \in (k + 1)..n : Total(h, 1..k) + 1 <= Total(h, 1..m)}
<1>4. k + 1 \in good
  BY <1>3
<1>5. ASSUME NEW m \in (k + 1)..n, m > k + 1, m - 1 \in good PROVE m \in good
  <2>1. Total(h, 1..k) + 1 <= Total(h, 1..(m - 1))
    BY <1>5
  <2>2. Total(h, 1..(m - 1)) + 1 <= Total(h, 1..m)
    BY <1>3
  <2>3. /\ Total(h, 1..k) \in Nat /\ Total(h, 1..(m - 1)) \in Nat
        /\ Total(h, 1..m) \in Nat
    BY <1>2
  <2> QED BY <2>1, <2>2, <2>3
<1> HIDE DEF good
<1>6. n \in good
  BY <1>4, <1>5, UpTo
<1> QED BY <1>6 DEF good
=============================================================================
