----------------------------- MODULE DataFacts -----------------------------
(***************************************************************************)
(* Facts about numbers and sequences that the proofs of more than one      *)
(* component rest on: quotients and remainders by a number that is not     *)
(* fixed, induction over the natural numbers, and FlattenSeq.              *)
(***************************************************************************)
EXTENDS Integers, SequencesExt, SequenceTheorems, WellFoundedInduction, TLAPS

LEMMA Division ==
  ASSUME NEW a \in Int, NEW n \in Nat \ {0}
  PROVE  /\ a % n \in 0 .. n - 1 /\ a \div n \in Int
         /\ a = n * (a \div n) + (a % n)
OBVIOUS

\* A quotient and a remainder that are not negative stay below the number.
LEMMA QuotientBelow ==
  ASSUME NEW a \in Nat, NEW n \in Nat \ {0}
  PROVE  a \div n \in 0 .. a
<1> DEFINE q == a \div n
<1>1. q \in Int /\ a = n * q + (a % n) /\ a % n \in 0 .. n - 1
  BY Division
<1>2. ASSUME q < 0 PROVE FALSE
  <2>1. n * q <= -n
    BY <1>1, <1>2
  <2> QED
    BY <1>1, <2>1
<1>3. q <= n * q
  BY <1>1, <1>2
<1> HIDE DEF q
<1>4. q \in 0 .. a
  BY <1>1, <1>2, <1>3
<1> QED
  BY <1>4 DEF q

LEMMA QuotientBounded ==
  ASSUME NEW n \in Nat \ {0}, NEW k \in Nat, NEW v \in 0 .. n * k - 1
  PROVE  v \div n \in 0 .. k - 1
<1> DEFINE q == v \div n
<1>1. n * k \in Int
  OBVIOUS
<1>2. v \in Nat /\ v < n * k
  BY <1>1
<1>3. q \in Nat /\ v = n * q + (v % n) /\ v % n \in 0 .. n - 1
  <2>1. q \in 0 .. v
    BY <1>2, QuotientBelow
  <2>2. v = n * q + (v % n) /\ v % n \in 0 .. n - 1
    BY <1>2, Division
  <2> QED
    BY <2>1, <2>2
<1> HIDE DEF q
<1>4. ASSUME q >= k PROVE FALSE
  <2>1. n * q >= n * k
    BY <1>3, <1>4
  <2> QED
    BY <1>1, <1>2, <1>3, <2>1
<1>5. q \in 0 .. k - 1
  BY <1>3, <1>4
<1> QED
  BY <1>5 DEF q

LEMMA Remainder ==
  ASSUME NEW n \in Nat \ {0}, NEW a \in Int
  PROVE  /\ a \in 0 .. n - 1 => a % n = a
         /\ a \in n .. 2 * n - 1 => a % n = a - n
         /\ a \in -n .. -1 => a % n = a + n
<1>1. a \in 0 .. n - 1 => a % n = a
  OBVIOUS
<1>2. a \in n .. 2 * n - 1 => a % n = a - n
  OBVIOUS
<1>3. a \in -n .. -1 => a % n = a + n
  OBVIOUS
<1> QED
  BY <1>1, <1>2, <1>3

\* A multiple of the divisor is not seen in the remainder.
LEMMA Congruence ==
  ASSUME NEW n \in Nat \ {0}, NEW a \in Int, NEW k \in Int
  PROVE  (a + k * n) % n = a % n /\ ((a % n) - a) % n = 0
<1> DEFINE q == a \div n  r == a % n
<1>1. q \in Int /\ r \in 0 .. n - 1 /\ a = n * q + r
  BY Division
<1> HIDE DEF q, r
<1>2. ASSUME NEW b \in Int, NEW j \in Int, NEW t \in 0 .. n - 1, b = n * j + t
      PROVE  b % n = t
  <2> DEFINE j2 == b \div n  t2 == b % n
  <2>1. j2 \in Int /\ t2 \in 0 .. n - 1 /\ b = n * j2 + t2
    BY Division
  <2> HIDE DEF j2, t2
  <2>2. n * (j - j2) = t2 - t
    BY <1>2, <2>1
  <2>3. t2 - t < n /\ t2 - t > -n
    BY <2>1
  <2>4. ~(j - j2 >= 1) /\ ~(j - j2 <= -1)
    <3>1. j - j2 >= 1 => n * (j - j2) >= n
      BY <2>1
    <3>2. j - j2 <= -1 => n * (j - j2) <= -n
      BY <2>1
    <3> QED
      BY <2>1, <2>2, <2>3, <3>1, <3>2
  <2>5. j = j2
    BY <2>1, <2>4
  <2>6. t2 = t
    BY <2>1, <2>2, <2>5
  <2> QED
    BY <2>6 DEF t2
<1>3. a + k * n = n * (q + k) + r /\ a + k * n \in Int /\ q + k \in Int
  BY <1>1
<1>4. (a + k * n) % n = r
  BY <1>1, <1>2, <1>3
<1>5. r - a = n * (-q) + 0 /\ r - a \in Int /\ -q \in Int /\ 0 \in 0 .. n - 1
  BY <1>1
<1>6. (r - a) % n = 0
  BY <1>2, <1>5
<1> QED
  BY <1>4, <1>6 DEF r

----------------------------------------------------------------------------
(* Induction.  A property is given as the set of numbers that have it: the
   theorems of the library take it as an operator, which the provers cannot
   instantiate. *)

LEMMA LessThanWellFounded == IsWellFoundedOn({p \in Nat \X Nat : p[1] < p[2]}, Nat)
BY NatLessThanWellFounded DEF OpToRel

LEMMA LeastNumber ==
  ASSUME NEW T, T \subseteq Nat, T # {}
  PROVE  \E m \in T : \A n \in T : m <= n
<1>1. PICK m \in T : \A n \in T : ~(<<n, m>> \in {p \in Nat \X Nat : p[1] < p[2]})
  BY LessThanWellFounded, WFMin, Zenon
<1>2. ASSUME NEW n \in T PROVE m <= n
  <2>1. ~(<<n, m>>[1] < <<n, m>>[2]) \/ <<n, m>> \notin Nat \X Nat
    BY <1>1, <1>2
  <2> QED
    BY <2>1
<1> QED
  BY <1>2

LEMMA SetInduction ==
  ASSUME NEW S, 0 \in S, \A n \in Nat : n \in S => n + 1 \in S
  PROVE  Nat \subseteq S
<1> DEFINE T == Nat \ S
<1>1. SUFFICES ASSUME T # {} PROVE FALSE
  BY Zenon
<1>2. PICK m \in T : \A n \in T : m <= n
  <2>1. T \subseteq Nat
    OBVIOUS
  <2> HIDE DEF T
  <2> QED
    BY <1>1, <2>1, LeastNumber, Zenon
<1>3. m # 0 /\ m - 1 \in Nat
  BY <1>2
<1>4. m - 1 \in S
  BY <1>2, <1>3
<1>5. m - 1 + 1 \in S
  BY <1>3, <1>4
<1> QED
  BY <1>2, <1>5

----------------------------------------------------------------------------
(* FlattenSeq.  Its recursive function is a choice among the functions that
   satisfy its equation; induction shows that there is one, and only one. *)

Unfolds(f, ss, n) == f = [i \in 1 .. n |-> IF i = 1 THEN ss[i] ELSE f[i - 1] \o ss[i]]

LEMMA UnfoldingExists ==
  ASSUME NEW ss, NEW n \in Nat
  PROVE  \E f : Unfolds(f, ss, n)
<1> DEFINE T == {m \in Nat : \E f : Unfolds(f, ss, m)}
<1>1. 0 \in T
  <2>1. Unfolds([i \in 1 .. 0 |-> ss[i]], ss, 0)
    BY DEF Unfolds
  <2> QED
    BY <2>1
<1>2. ASSUME NEW m \in Nat, m \in T PROVE m + 1 \in T
  <2>1. PICK f : Unfolds(f, ss, m)
    BY <1>2
  <2> DEFINE g == [i \in 1 .. m + 1 |->
                     IF i = m + 1 THEN (IF i = 1 THEN ss[i] ELSE f[m] \o ss[i]) ELSE f[i]]
             h == [i \in 1 .. m + 1 |-> IF i = 1 THEN ss[i] ELSE g[i - 1] \o ss[i]]
  <2>2. ASSUME NEW i \in 1 .. m PROVE f[i] = IF i = 1 THEN ss[i] ELSE f[i - 1] \o ss[i]
    BY <2>1 DEF Unfolds
  <2>3. ASSUME NEW i \in 1 .. m + 1 PROVE g[i] = h[i]
    <3>1. CASE i = m + 1
      <4>1. CASE i = 1
        BY <3>1, <4>1
      <4>2. CASE i # 1
        <5>1. i - 1 \in 1 .. m + 1 /\ i - 1 # m + 1 /\ i - 1 = m
          BY <3>1, <4>2
        <5>2. g[i - 1] = f[m]
          BY <5>1
        <5> QED
          BY <3>1, <4>2, <5>2
      <4> QED
        BY <4>1, <4>2
    <3>2. CASE i # m + 1
      <4>1. i \in 1 .. m /\ g[i] = f[i]
        BY <3>2
      <4>2. i # 1 => g[i - 1] = f[i - 1]
        BY <3>2
      <4> QED
        BY <2>2, <4>1, <4>2
    <3> QED
      BY <3>1, <3>2
  <2>4. g = h
    BY <2>3
  <2>5. Unfolds(g, ss, m + 1)
    BY <2>4 DEF Unfolds
  <2> QED
    BY <2>5
<1> HIDE DEF T
<1>3. n \in T
  BY <1>1, <1>2, SetInduction
<1> QED
  BY <1>3 DEF T

LEMMA UnfoldingFirst ==
  ASSUME NEW ss, NEW n \in Nat, NEW f, Unfolds(f, ss, n), 1 <= n
  PROVE  f[1] = ss[1]
<1> DEFINE h == [i \in 1 .. n |-> IF i = 1 THEN ss[i] ELSE f[i - 1] \o ss[i]]
<1>1. h[1] = ss[1]
  OBVIOUS
<1>2. f = h
  BY Zenon DEF Unfolds
<1> HIDE DEF h
<1> QED
  BY <1>1, <1>2

LEMMA UnfoldingNext ==
  ASSUME NEW ss, NEW n \in Nat, NEW f, Unfolds(f, ss, n), NEW k \in 1 .. n - 1
  PROVE  f[k + 1] = f[k] \o ss[k + 1]
<1> DEFINE h == [i \in 1 .. n |-> IF i = 1 THEN ss[i] ELSE f[i - 1] \o ss[i]]
<1>1. k + 1 \in 1 .. n /\ k + 1 # 1 /\ k + 1 - 1 = k
  OBVIOUS
<1>2. h[k + 1] = f[k] \o ss[k + 1]
  <2>1. PICK p \in 1 .. n : p = k + 1 /\ p # 1 /\ p - 1 = k
    BY <1>1
  <2>2. h[p] = f[p - 1] \o ss[p]
    BY <2>1
  <2>3. f[p - 1] = f[k]
    BY <2>1
  <2> HIDE DEF h
  <2> QED
    BY <2>1, <2>2, <2>3
<1>3. f = h
  BY Zenon DEF Unfolds
<1> HIDE DEF h
<1> QED
  BY <1>2, <1>3

LEMMA UnfoldingType ==
  ASSUME NEW S, NEW ss, NEW n \in Nat, \A i \in 1 .. n : ss[i] \in Seq(S),
         NEW f, Unfolds(f, ss, n), NEW k \in 1 .. n
  PROVE  f[k] \in Seq(S)
<1> DEFINE T == {m \in Nat : m \in 1 .. n => f[m] \in Seq(S)}
<1>1. 0 \in T
  OBVIOUS
<1>2. ASSUME NEW m \in Nat, m \in T PROVE m + 1 \in T
  <2>1. SUFFICES ASSUME m + 1 \in 1 .. n PROVE f[m + 1] \in Seq(S)
    OBVIOUS
  <2>3. CASE m = 0
    <3>1. f[1] = ss[1] /\ 1 \in 1 .. n
      BY <2>1, <2>3, UnfoldingFirst
    <3> QED
      BY <2>3, <3>1
  <2>4. CASE m # 0
    <3>1. m \in 1 .. n - 1
      BY <2>1, <2>4
    <3>2. f[m] \in Seq(S)
      BY <1>2, <3>1
    <3>3. f[m + 1] = f[m] \o ss[m + 1]
      BY <3>1, UnfoldingNext
    <3>4. ss[m + 1] \in Seq(S)
      BY <2>1
    <3> QED
      BY <3>2, <3>3, <3>4
  <2> QED
    BY <2>3, <2>4
<1> HIDE DEF T
<1>3. k \in T
  BY <1>1, <1>2, SetInduction
<1> QED
  BY <1>3 DEF T

LEMMA UnfoldingUnique ==
  ASSUME NEW ss, NEW rr, NEW n \in Nat, NEW m \in Nat, NEW f, NEW g, NEW k \in 1 .. n,
         n <= m, Unfolds(f, ss, n), Unfolds(g, rr, m),
         \A i \in 1 .. n : ss[i] = rr[i]
  PROVE  f[k] = g[k]
<1> DEFINE T == {h \in Nat : h \in 1 .. n => f[h] = g[h]}
<1>1. 0 \in T
  OBVIOUS
<1>2. ASSUME NEW h \in Nat, h \in T PROVE h + 1 \in T
  <2>1. SUFFICES ASSUME h + 1 \in 1 .. n PROVE f[h + 1] = g[h + 1]
    OBVIOUS
  <2>2. ss[h + 1] = rr[h + 1]
    BY <2>1
  <2>3. CASE h = 0
    <3>1. f[1] = ss[1] /\ g[1] = rr[1]
      BY <2>1, <2>3, UnfoldingFirst
    <3> QED
      BY <2>2, <2>3, <3>1
  <2>4. CASE h # 0
    <3>1. h \in 1 .. n - 1 /\ h \in 1 .. m - 1
      BY <2>1, <2>4
    <3>2. f[h + 1] = f[h] \o ss[h + 1] /\ g[h + 1] = g[h] \o rr[h + 1]
      BY <3>1, UnfoldingNext
    <3>3. f[h] = g[h]
      BY <1>2, <3>1
    <3> QED
      BY <2>2, <3>2, <3>3
  <2> QED
    BY <2>3, <2>4
<1> HIDE DEF T
<1>3. k \in T
  BY <1>1, <1>2, SetInduction
<1> QED
  BY <1>3 DEF T

LEMMA FlattenUnfolds ==
  ASSUME NEW S, NEW ss \in Seq(Seq(S)), Len(ss) # 0,
         NEW f, Unfolds(f, ss, Len(ss))
  PROVE  FlattenSeq(ss) = f[Len(ss)]
<1> DEFINE g == CHOOSE g : Unfolds(g, ss, Len(ss))
<1>1. FlattenSeq(ss) = g[Len(ss)]
  BY DEF FlattenSeq, Unfolds
<1>2. Len(ss) \in Nat /\ Len(ss) \in 1 .. Len(ss)
  OBVIOUS
<1>3. Unfolds(g, ss, Len(ss))
  BY Zenon
<1> HIDE DEF g
<1>4. f[Len(ss)] = g[Len(ss)]
  BY <1>2, <1>3, UnfoldingUnique
<1> QED
  BY <1>1, <1>4

LEMMA FlattenEmpty == FlattenSeq(<<>>) = <<>>
BY DEF FlattenSeq

LEMMA FlattenType ==
  ASSUME NEW S, NEW ss \in Seq(Seq(S))
  PROVE  FlattenSeq(ss) \in Seq(S)
<1>1. CASE Len(ss) = 0
  <2>1. ss = <<>>
    BY <1>1
  <2>2. FlattenSeq(ss) = <<>>
    BY <2>1, FlattenEmpty
  <2> QED
    BY <2>2
<1>2. CASE Len(ss) # 0
  <2>1. Len(ss) \in Nat /\ Len(ss) \in 1 .. Len(ss) /\ \A i \in 1 .. Len(ss) : ss[i] \in Seq(S)
    BY <1>2
  <2>2. PICK f : Unfolds(f, ss, Len(ss))
    BY <2>1, UnfoldingExists
  <2>3. f[Len(ss)] \in Seq(S)
    BY <2>1, <2>2, UnfoldingType
  <2> QED
    BY <1>2, <2>2, <2>3, FlattenUnfolds
<1> QED
  BY <1>1, <1>2

\* What FlattenSeq does with one sequence more.
LEMMA FlattenAppend ==
  ASSUME NEW S, NEW ss \in Seq(Seq(S)), NEW s \in Seq(S)
  PROVE  FlattenSeq(Append(ss, s)) = FlattenSeq(ss) \o s
<1> DEFINE rr == Append(ss, s)
<1>0. PICK n \in Nat : n = Len(ss)
  OBVIOUS
<1>1. /\ rr \in Seq(Seq(S)) /\ Len(rr) = n + 1 /\ n \in Nat /\ rr[n + 1] = s
      /\ \A i \in 1 .. n : ss[i] = rr[i]
  BY <1>0
<1> HIDE DEF rr
<1>2. PICK f : Unfolds(f, rr, n + 1)
  <2>1. n + 1 \in Nat
    BY <1>1
  <2> QED
    BY <2>1, UnfoldingExists
<1>3. FlattenSeq(rr) = f[n + 1]
  <2>1. Len(rr) # 0
    BY <1>1
  <2>2. Unfolds(f, rr, Len(rr))
    BY <1>1, <1>2
  <2>3. FlattenSeq(rr) = f[Len(rr)]
    BY <1>1, <2>1, <2>2, FlattenUnfolds
  <2> QED
    BY <1>1, <2>3
<1>5. CASE n = 0
  <2>1. ss = <<>>
    BY <1>0, <1>5, EmptySeq
  <2>2. FlattenSeq(ss) \o s = s
    BY <2>1, FlattenEmpty
  <2>3. f[1] = rr[1]
    <3>1. PICK m \in Nat : m = n + 1 /\ 1 <= m
      BY <1>5
    <3>2. Unfolds(f, rr, m)
      BY <1>2, <3>1
    <3> QED
      BY <3>1, <3>2, UnfoldingFirst
  <2> QED
    BY <1>1, <1>3, <1>5, <2>2, <2>3 DEF rr
<1>6. CASE n # 0
  <2>1. PICK g : Unfolds(g, ss, n)
    BY <1>1, UnfoldingExists
  <2>2. FlattenSeq(ss) = g[n]
    BY <1>0, <1>6, <2>1, FlattenUnfolds
  <2>3. n \in 1 .. n /\ n + 1 \in Nat /\ n <= n + 1 /\ n \in 1 .. (n + 1) - 1
    BY <1>1, <1>6
  <2>4. g[n] = f[n]
    <3>1. PICK m \in Nat : m = n + 1
      BY <2>3
    <3>2. n <= m /\ Unfolds(f, rr, m) /\ n \in Nat /\ \A i \in 1 .. n : ss[i] = rr[i]
      BY <1>1, <1>2, <2>3, <3>1
    <3>3. Unfolds(g, ss, n) /\ Unfolds(f, rr, m) /\ n \in 1 .. n
      BY <2>1, <2>3, <3>2
    <3>4. n <= m
      BY <3>2
    <3>5. \A i \in 1 .. n : ss[i] = rr[i]
      BY <3>2
    <3> QED
      BY <3>3, <3>4, <3>5, UnfoldingUnique, SMTT(60)
  <2>5. f[n + 1] = f[n] \o rr[n + 1]
    <3>1. PICK m \in Nat : m = n + 1
      BY <2>3
    <3>2. n \in 1 .. m - 1 /\ Unfolds(f, rr, m)
      BY <1>2, <2>3, <3>1
    <3> QED
      BY <3>2, UnfoldingNext
  <2> QED
    BY <1>1, <1>3, <2>2, <2>4, <2>5 DEF rr
<1> QED
  BY <1>5, <1>6

LEMMA JoinedElements ==
  ASSUME NEW S, NEW s \in Seq(S), NEW t \in Seq(S)
  PROVE  ToSet(s \o t) = ToSet(s) \cup ToSet(t)
<1>1. PICK n \in Nat : n = Len(s) /\ DOMAIN s = 1 .. n
  OBVIOUS
<1>2. PICK k \in Nat : k = Len(t) /\ DOMAIN t = 1 .. k
  OBVIOUS
<1>3. PICK r : r = s \o t
  OBVIOUS
<1>4. DOMAIN r = 1 .. n + k /\ \A p \in 1 .. n + k : r[p] = IF p <= n THEN s[p] ELSE t[p - n]
  BY <1>1, <1>2, <1>3
<1>5. ASSUME NEW v \in ToSet(r) PROVE v \in ToSet(s) \cup ToSet(t)
  <2>1. PICK p \in 1 .. n + k : r[p] = v
    BY <1>4, <1>5 DEF ToSet
  <2>2. CASE p <= n
    BY <1>1, <1>4, <2>1, <2>2 DEF ToSet
  <2>3. CASE ~(p <= n)
    <3>1. p - n \in 1 .. k /\ t[p - n] = v
      BY <1>4, <2>1, <2>3
    <3> QED
      BY <1>2, <3>1 DEF ToSet
  <2> QED
    BY <2>2, <2>3
<1>6. ASSUME NEW v \in ToSet(s) PROVE v \in ToSet(r)
  <2>1. PICK p \in 1 .. n : s[p] = v
    BY <1>1, <1>6 DEF ToSet
  <2>2. p \in 1 .. n + k /\ r[p] = v
    BY <1>4, <2>1
  <2> QED
    BY <1>4, <2>2 DEF ToSet
<1>7. ASSUME NEW v \in ToSet(t) PROVE v \in ToSet(r)
  <2>1. PICK p \in 1 .. k : t[p] = v
    BY <1>2, <1>7 DEF ToSet
  <2>2. n + p \in 1 .. n + k /\ ~(n + p <= n) /\ (n + p) - n = p
    OBVIOUS
  <2>3. r[n + p] = v
    BY <1>4, <2>1, <2>2
  <2> QED
    BY <1>4, <2>2, <2>3 DEF ToSet
<1> QED
  BY <1>3, <1>5, <1>6, <1>7

\* What is in a flattened sequence is what is in one of its sequences.
LEMMA FlattenElements ==
  ASSUME NEW S, NEW ss \in Seq(Seq(S))
  PROVE  ToSet(FlattenSeq(ss)) = UNION {ToSet(ss[i]) : i \in DOMAIN ss}
<1> DEFINE H == {n \in Nat : \A rr \in Seq(Seq(S)) : Len(rr) = n =>
                     ToSet(FlattenSeq(rr)) = UNION {ToSet(rr[i]) : i \in DOMAIN rr}}
<1>1. 0 \in H
  <2>1. ASSUME NEW rr \in Seq(Seq(S)), Len(rr) = 0
        PROVE  ToSet(FlattenSeq(rr)) = UNION {ToSet(rr[i]) : i \in DOMAIN rr}
    <3>1. rr = <<>> /\ DOMAIN rr = {}
      BY <2>1, EmptySeq
    <3>2. FlattenSeq(rr) = <<>>
      BY <3>1, FlattenEmpty
    <3>3. ToSet(<<>>) = {}
      BY DEF ToSet
    <3> QED
      BY <3>1, <3>2, <3>3
  <2> QED
    BY <2>1
<1>2. ASSUME NEW n \in Nat, n \in H PROVE n + 1 \in H
  <2>1. ASSUME NEW rr \in Seq(Seq(S)), Len(rr) = n + 1
        PROVE  ToSet(FlattenSeq(rr)) = UNION {ToSet(rr[i]) : i \in DOMAIN rr}
    <3> DEFINE p == [i \in 1 .. n |-> rr[i]]
    <3>1. p \in Seq(Seq(S)) /\ Len(p) = n /\ DOMAIN p = 1 .. n /\ \A i \in 1 .. n : p[i] = rr[i]
      BY <2>1
    <3>2. rr = Append(p, rr[n + 1]) /\ rr[n + 1] \in Seq(S) /\ DOMAIN rr = 1 .. n + 1
      BY <2>1
    <3> HIDE DEF p
    <3>3. FlattenSeq(rr) = FlattenSeq(p) \o rr[n + 1]
      BY <3>1, <3>2, FlattenAppend
    <3>4. FlattenSeq(p) \in Seq(S)
      BY <3>1, FlattenType
    <3>5. ToSet(FlattenSeq(rr)) = ToSet(FlattenSeq(p)) \cup ToSet(rr[n + 1])
      BY <3>2, <3>3, <3>4, JoinedElements
    <3>6. ToSet(FlattenSeq(p)) = UNION {ToSet(p[i]) : i \in 1 .. n}
      BY <1>2, <3>1
    <3>7. \A i \in 1 .. n + 1 : i \in 1 .. n \/ i = n + 1
      OBVIOUS
    <3>8. n + 1 \in 1 .. n + 1 /\ \A i \in 1 .. n : i \in 1 .. n + 1
      OBVIOUS
    <3>9. (UNION {ToSet(rr[i]) : i \in 1 .. n + 1}) = (UNION {ToSet(p[i]) : i \in 1 .. n}) \cup ToSet(rr[n + 1])
      BY <3>1, <3>7, <3>8
    <3> QED
      BY <3>2, <3>5, <3>6, <3>9
  <2> QED
    BY <2>1
<1> HIDE DEF H
<1>3. Nat \subseteq H
  BY <1>1, <1>2, SetInduction
<1>4. Len(ss) \in H
  BY <1>3
<1> QED
  BY <1>4 DEF H

=============================================================================
