--------------------------- MODULE SequenceFacts ----------------------------
(* Facts about data that is built step by step: natural numbers, functions *)
(* defined by recursion on them, sums and concatenations of sequences.     *)
EXTENDS Integers, Sequences, SequencesExt, SequenceTheorems, WellFoundedInduction, TLAPS

\* A set of natural numbers has a least element.
LEMMA LeastElement ==
  ASSUME NEW S \in SUBSET Nat, S # {}
  PROVE  \E i \in S : \A j \in S : i <= j
<1> DEFINE R == OpToRel(<, Nat)
<1>1. IsWellFoundedOn(R, Nat)
  BY NatLessThanWellFounded, Zenon
<1>2. ASSUME NEW i \in S, NEW j \in S, ~(<<j, i>> \in R) PROVE i <= j
  <2>1. i \in Nat /\ j \in Nat /\ ~(j < i)
    BY <1>2 DEF OpToRel
  <2> QED
    BY <2>1
<1> HIDE DEF R
<1>3. \E i \in S : \A j \in S : ~(<<j, i>> \in R)
  BY <1>1, WFMin
<1> QED
  BY <1>2, <1>3

\* Induction, with a set for the property.
LEMMA Induction ==
  ASSUME NEW S, 0 \in S, \A n \in Nat : n \in S => n + 1 \in S
  PROVE  Nat \subseteq S
<1> SUFFICES ASSUME Nat \ S # {} PROVE FALSE
  OBVIOUS
<1>1. PICK i \in Nat \ S : \A j \in Nat \ S : i <= j
  BY LeastElement
<1>2. i - 1 \in Nat /\ i = (i - 1) + 1
  BY <1>1
<1>3. i - 1 \in S
  BY <1>1, <1>2
<1> QED
  BY <1>1, <1>2, <1>3

\* A function on the natural numbers may be defined by recursion.
Iterates(f, X, c, g) ==
    f \in [Nat -> X] /\ f[0] = c /\ \A n \in Nat : f[n + 1] = g[<<n, f[n]>>]
LEMMA Recursion ==
  ASSUME NEW X, NEW c \in X, NEW g \in [Nat \X X -> X]
  PROVE  \E f : Iterates(f, X, c, g)
<1> DEFINE Starts(f, n) == /\ f \in [0 .. n -> X] /\ f[0] = c
                           /\ \A i \in 0 .. n - 1 : f[i + 1] = g[<<i, f[i]>>]
           S == {n \in Nat : \E f : Starts(f, n)}
           start(n) == CHOOSE f : Starts(f, n)
           whole == [n \in Nat |-> start(n)[n]]
\* Each beginning is there.
<1>1. Nat \subseteq S
  <2>1. 0 \in S
    <3>1. Starts([i \in 0 .. 0 |-> c], 0)
      OBVIOUS
    <3> HIDE DEF Starts
    <3> QED
      BY <3>1
  <2>2. ASSUME NEW n \in Nat, n \in S PROVE n + 1 \in S
    <3>1. PICK f : Starts(f, n)
      BY <2>2
    <3>2. f[n] \in X /\ g[<<n, f[n]>>] \in X
      BY <3>1
    <3> DEFINE h == [i \in 0 .. n + 1 |-> IF i = n + 1 THEN g[<<n, f[n]>>] ELSE f[i]]
    <3>3. h \in [0 .. n + 1 -> X] /\ h[0] = c
      BY <3>1, <3>2
    <3>4. ASSUME NEW i \in 0 .. (n + 1) - 1 PROVE h[i + 1] = g[<<i, h[i]>>]
      <4>1. h[i] = f[i]
        OBVIOUS
      <4>2. CASE i = n
        <5>1. h[n + 1] = g[<<n, f[n]>>]
          OBVIOUS
        <5> HIDE DEF h
        <5> QED
          BY <4>1, <4>2, <5>1
      <4>3. CASE i # n
        <5>1. i \in 0 .. n - 1 /\ h[i + 1] = f[i + 1]
          BY <4>3
        <5> QED
          BY <3>1, <4>1, <5>1
      <4> QED
        BY <4>2, <4>3
    <3>5. Starts(h, n + 1)
      <4> HIDE DEF h
      <4> QED
        BY <3>3, <3>4
    <3> HIDE DEF Starts
    <3> QED
      BY <3>5
  <2> HIDE DEF S
  <2> QED
    BY <2>1, <2>2, Induction
<1> HIDE DEF Starts
<1>2. ASSUME NEW n \in Nat PROVE Starts(start(n), n)
  BY <1>1
<1> HIDE DEF start
\* Two beginnings are the same as far as both go.
<1>3. ASSUME NEW n \in Nat PROVE start(n + 1)[n] = start(n)[n]
  <2> DEFINE T == {i \in Nat : i <= n => start(n)[i] = start(n + 1)[i]}
  <2>1. Starts(start(n), n) /\ Starts(start(n + 1), n + 1)
    BY <1>2
  <2>2. 0 \in T
    BY <2>1 DEF Starts
  <2>3. ASSUME NEW i \in Nat, i \in T PROVE i + 1 \in T
    <3>1. CASE i + 1 <= n
      <4>1. start(n)[i] = start(n + 1)[i] /\ i \in 0 .. n - 1 /\ i \in 0 .. (n + 1) - 1
        BY <2>3, <3>1
      <4>2. /\ start(n)[i + 1] = g[<<i, start(n)[i]>>]
            /\ start(n + 1)[i + 1] = g[<<i, start(n + 1)[i]>>]
        BY <2>1, <4>1, Zenon DEF Starts
      <4> QED
        BY <4>1, <4>2
    <3> QED
      BY <3>1
  <2> HIDE DEF T
  <2>4. n \in T
    BY <2>2, <2>3, Induction
  <2> QED
    BY <2>4 DEF T
<1>4. whole \in [Nat -> X] /\ whole[0] = c
  BY <1>2 DEF Starts
<1>5. ASSUME NEW n \in Nat PROVE whole[n + 1] = g[<<n, whole[n]>>]
  <2>1. start(n + 1)[n + 1] = g[<<n, start(n + 1)[n]>>]
    BY <1>2 DEF Starts
  <2> QED
    BY <2>1, <1>3
<1>6. Iterates(whole, X, c, g)
  <2> HIDE DEF whole
  <2> QED
    BY <1>4, <1>5 DEF Iterates
<1> QED
  BY <1>6

\* The sums of the beginnings of a sequence, from c on.
LEMMA PartialSums ==
  ASSUME NEW s \in Seq(Nat), NEW c \in Nat
  PROVE  LET end[i \in 0 .. Len(s)] == IF i = 0 THEN c ELSE end[i - 1] + s[i]
         IN  /\ end \in [0 .. Len(s) -> Nat]
             /\ end[0] = c
             /\ \A i \in 1 .. Len(s) : end[i] = end[i - 1] + s[i]
<1> DEFINE end[i \in 0 .. Len(s)] == IF i = 0 THEN c ELSE end[i - 1] + s[i]
           Is(f) == f = [i \in 0 .. Len(s) |-> IF i = 0 THEN c ELSE f[i - 1] + s[i]]
           g == [p \in Nat \X Nat |-> p[2] + (IF p[1] + 1 \in 1 .. Len(s) THEN s[p[1] + 1] ELSE 0)]
<1>0. Len(s) \in Nat /\ \A i \in 1 .. Len(s) : s[i] \in Nat
  BY LenProperties, ElementOfSeq
<1>1. g \in [Nat \X Nat -> Nat]
  BY <1>0
<1>2. PICK f : Iterates(f, Nat, c, g)
  <2> HIDE DEF g
  <2> QED
    BY <1>1, Recursion, Zenon
<1>3. ASSUME NEW i \in 1 .. Len(s) PROVE f[i] = f[i - 1] + s[i]
  <2>1. i - 1 \in Nat /\ (i - 1) + 1 = i
    BY <1>0
  <2>2. f[i] = g[<<i - 1, f[i - 1]>>]
    BY <1>2, <2>1, Zenon DEF Iterates
  <2>3. f[i - 1] \in Nat
    BY <1>2, <2>1 DEF Iterates
  <2> QED
    BY <1>0, <2>1, <2>2, <2>3
<1> DEFINE h == [i \in 0 .. Len(s) |-> f[i]]
<1>4. Is(h)
  <2>1. ASSUME NEW i \in 0 .. Len(s) PROVE h[i] = IF i = 0 THEN c ELSE h[i - 1] + s[i]
    <3>1. CASE i = 0
      BY <1>2, <3>1 DEF Iterates
    <3>2. CASE i # 0
      <4>1. i \in 1 .. Len(s) /\ i - 1 \in 0 .. Len(s)
        BY <1>0, <3>2
      <4> QED
        BY <1>3, <3>2, <4>1
    <3> QED
      BY <3>1, <3>2
  <2> QED
    BY <2>1
<1>5. Is(end)
  <2> HIDE DEF h
  <2> QED
    BY <1>4, Zenon
<1>6. ASSUME NEW f1, Is(f1)
      PROVE  /\ DOMAIN f1 = 0 .. Len(s) /\ f1[0] = c
             /\ \A i \in 1 .. Len(s) : f1[i] = f1[i - 1] + s[i]
             /\ f1 = [i \in 0 .. Len(s) |-> f1[i]]
  <2> DEFINE F == [i \in 0 .. Len(s) |-> IF i = 0 THEN c ELSE f1[i - 1] + s[i]]
  <2>1. /\ DOMAIN F = 0 .. Len(s) /\ F[0] = c
        /\ \A i \in 1 .. Len(s) : F[i] = f1[i - 1] + s[i]
        /\ F = [i \in 0 .. Len(s) |-> F[i]]
    BY <1>0
  <2>2. f1 = F
    BY <1>6
  <2> HIDE DEF F
  <2> QED
    BY <2>1, <2>2
<1> HIDE DEF end
<1>7. end[0] = c /\ \A i \in 1 .. Len(s) : end[i] = end[i - 1] + s[i]
  BY <1>5, <1>6
<1>8. end \in [0 .. Len(s) -> Nat]
  <2> DEFINE T == {n \in Nat : n <= Len(s) => end[n] \in Nat}
  <2>1. 0 \in T
    BY <1>7
  <2>2. ASSUME NEW n \in Nat, n \in T PROVE n + 1 \in T
    <3>1. CASE n + 1 <= Len(s)
      <4>1. end[n + 1] = end[n] + s[n + 1] /\ s[n + 1] \in Nat /\ end[n] \in Nat
        BY <1>0, <1>7, <2>2, <3>1
      <4>2. end[n + 1] \in Nat
        BY <4>1
      <4> QED
        BY <4>2
    <3> QED
      BY <3>1
  <2> HIDE DEF T
  <2>3. Nat \subseteq T
    BY <2>1, <2>2, Induction
  <2>4. \A n \in 0 .. Len(s) : end[n] \in Nat
    BY <1>0, <2>3 DEF T
  <2>5. end = [i \in 0 .. Len(s) |-> end[i]]
    BY <1>5, <1>6
  <2> QED
    BY <2>4, <2>5
<1> QED
  BY <1>7, <1>8, Zenon DEF end

----------------------------------------------------------------------------
(* Concatenations.                                                         *)

\* What FlattenSeq computes on the way.
Flattens(f, ss) ==
    /\ f[1] = ss[1]
    /\ \A i \in 2 .. Len(ss) : f[i] = f[i - 1] \o ss[i]

LEMMA FlattenSteps ==
  ASSUME NEW S, NEW ss \in Seq(Seq(S)), ss # <<>>
  PROVE  \E f \in [1 .. Len(ss) -> Seq(S)] : Flattens(f, ss) /\ FlattenSeq(ss) = f[Len(ss)]
<1> DEFINE flatten[i \in 1 .. Len(ss)] == IF i = 1 THEN ss[i] ELSE flatten[i - 1] \o ss[i]
           Is(f) == f = [i \in 1 .. Len(ss) |-> IF i = 1 THEN ss[i] ELSE f[i - 1] \o ss[i]]
           g == [p \in Nat \X Seq(S) |->
                   IF p[1] + 2 \in 1 .. Len(ss) THEN p[2] \o ss[p[1] + 2] ELSE p[2]]
<1>0. /\ Len(ss) \in Nat \ {0} /\ 1 \in 1 .. Len(ss)
      /\ \A i \in 1 .. Len(ss) : ss[i] \in Seq(S)
  BY EmptySeq, LenProperties, ElementOfSeq
<1>1. g \in [Nat \X Seq(S) -> Seq(S)]
  <2>1. ASSUME NEW p \in Nat \X Seq(S)
        PROVE (IF p[1] + 2 \in 1 .. Len(ss) THEN p[2] \o ss[p[1] + 2] ELSE p[2]) \in Seq(S)
    <3>1. p[2] \in Seq(S)
      OBVIOUS
    <3>2. CASE p[1] + 2 \in 1 .. Len(ss)
      BY <1>0, <3>1, <3>2, ConcatProperties
    <3> QED
      BY <3>1, <3>2
  <2> QED
    BY <2>1
<1>2. PICK f : Iterates(f, Seq(S), ss[1], g)
  <2> HIDE DEF g
  <2> QED
    BY <1>0, <1>1, Recursion, Zenon
<1>3. ASSUME NEW i \in 2 .. Len(ss) PROVE f[i - 1] = f[i - 2] \o ss[i]
  <2>1. i - 2 \in Nat /\ (i - 2) + 1 = i - 1 /\ (i - 2) + 2 = i
    BY <1>0
  <2>2. f[i - 1] = g[<<i - 2, f[i - 2]>>]
    <3> HIDE DEF g
    <3>1. \A n \in Nat : f[n + 1] = g[<<n, f[n]>>]
      BY <1>2, Zenon DEF Iterates
    <3>2. f[(i - 2) + 1] = g[<<i - 2, f[i - 2]>>]
      BY <2>1, <3>1, Zenon
    <3> QED
      BY <2>1, <3>2
  <2>3. f[i - 2] \in Seq(S)
    BY <1>2, <2>1 DEF Iterates
  <2>4. ASSUME NEW t \in Seq(S), NEW j \in Nat, j + 2 \in 1 .. Len(ss)
        PROVE  g[<<j, t>>] = t \o ss[j + 2]
    BY <2>4
  <2> HIDE DEF g
  <2>5. g[<<i - 2, f[i - 2]>>] = f[i - 2] \o ss[(i - 2) + 2]
    <3>1. (i - 2) + 2 \in 1 .. Len(ss) /\ i - 2 \in Nat
      BY <1>0
    <3> QED
      BY <2>3, <2>4, <3>1, Zenon
  <2> QED
    BY <2>1, <2>2, <2>5
<1> DEFINE h == [i \in 1 .. Len(ss) |-> f[i - 1]]
<1>4. Is(h)
  <2>1. ASSUME NEW i \in 1 .. Len(ss)
        PROVE  h[i] = IF i = 1 THEN ss[i] ELSE h[i - 1] \o ss[i]
    <3>1. CASE i = 1
      BY <1>2, <3>1 DEF Iterates
    <3>2. CASE i # 1
      <4>1. i \in 2 .. Len(ss) /\ i - 1 \in 1 .. Len(ss) /\ (i - 1) - 1 = i - 2
        BY <1>0, <3>2
      <4>2. h[i] = f[i - 1] /\ h[i - 1] = f[i - 2]
        BY <4>1
      <4> QED
        BY <1>3, <3>2, <4>1, <4>2, Zenon
    <3> QED
      BY <3>1, <3>2
  <2> QED
    BY <2>1
<1>5. Is(flatten)
  <2> HIDE DEF h
  <2> QED
    BY <1>4, Zenon
<1>6. ASSUME NEW f1, Is(f1)
      PROVE  Flattens(f1, ss) /\ f1 = [i \in 1 .. Len(ss) |-> f1[i]]
  <2> DEFINE F == [i \in 1 .. Len(ss) |-> IF i = 1 THEN ss[i] ELSE f1[i - 1] \o ss[i]]
  <2>1. F[1] = ss[1] /\ F = [i \in 1 .. Len(ss) |-> F[i]]
    BY <1>0
  <2>3. ASSUME NEW i \in 2 .. Len(ss) PROVE F[i] = f1[i - 1] \o ss[i]
    <3>1. i \in 1 .. Len(ss) /\ i # 1
      BY <1>0
    <3> QED
      BY <3>1
  <2>2. f1 = F
    BY <1>6
  <2> HIDE DEF F
  <2> QED
    BY <2>1, <2>2, <2>3 DEF Flattens
<1> HIDE DEF flatten
<1>7. flatten \in [1 .. Len(ss) -> Seq(S)] /\ Flattens(flatten, ss)
  <2> DEFINE T == {n \in Nat : n + 1 <= Len(ss) => flatten[n + 1] \in Seq(S)}
  <2>0. Flattens(flatten, ss) /\ flatten = [i \in 1 .. Len(ss) |-> flatten[i]]
    BY <1>5, <1>6
  <2>1. 0 \in T
    BY <1>0, <2>0 DEF Flattens
  <2>2. ASSUME NEW n \in Nat, n \in T PROVE n + 1 \in T
    <3>1. CASE (n + 1) + 1 <= Len(ss)
      <4>1. /\ (n + 1) + 1 \in 2 .. Len(ss) /\ ((n + 1) + 1) - 1 = n + 1
            /\ flatten[n + 1] \in Seq(S)
        BY <1>0, <2>2, <3>1
      <4>2. flatten[(n + 1) + 1] = flatten[n + 1] \o ss[(n + 1) + 1]
        BY <2>0, <4>1 DEF Flattens
      <4>3. ss[(n + 1) + 1] \in Seq(S)
        BY <1>0, <4>1
      <4>4. flatten[(n + 1) + 1] \in Seq(S)
        BY <4>1, <4>2, <4>3, ConcatProperties
      <4> QED
        BY <4>4
    <3> QED
      BY <3>1
  <2> HIDE DEF T
  <2>3. Nat \subseteq T
    BY <2>1, <2>2, Induction
  <2>4. ASSUME NEW n \in 1 .. Len(ss) PROVE flatten[n] \in Seq(S)
    <3>1. n - 1 \in T /\ (n - 1) + 1 = n
      BY <2>3
    <3> QED
      BY <3>1 DEF T
  <2> QED
    BY <2>0, <2>4
<1>8. FlattenSeq(ss) = flatten[Len(ss)]
  BY <1>0, Zenon DEF FlattenSeq, flatten
<1> QED
  BY <1>7, <1>8

\* The concatenation of no sequences, and of one more.
LEMMA FlattenEmpty == FlattenSeq(<<>>) = <<>>
BY EmptySeq DEF FlattenSeq

LEMMA FlattenType ==
  ASSUME NEW S, NEW ss \in Seq(Seq(S))
  PROVE  FlattenSeq(ss) \in Seq(S)
<1>1. CASE ss = <<>>
  BY <1>1, FlattenEmpty, EmptySeq
<1>2. CASE ss # <<>>
  <2>1. PICK f \in [1 .. Len(ss) -> Seq(S)] : FlattenSeq(ss) = f[Len(ss)]
    BY <1>2, FlattenSteps
  <2>2. Len(ss) \in 1 .. Len(ss)
    BY <1>2, EmptySeq
  <2> QED
    BY <2>1, <2>2
<1> QED
  BY <1>1, <1>2

LEMMA FlattenAppend ==
  ASSUME NEW S, NEW ss \in Seq(Seq(S)), NEW s \in Seq(S)
  PROVE  FlattenSeq(Append(ss, s)) = FlattenSeq(ss) \o s
<1> DEFINE tt == Append(ss, s)
           n == Len(ss)
<1>1. /\ tt \in Seq(Seq(S)) /\ tt # <<>> /\ Len(tt) = n + 1 /\ n \in Nat
      /\ \A i \in 1 .. n : tt[i] = ss[i]
      /\ tt[n + 1] = s
  BY AppendProperties, LenProperties
<1>2. PICK h \in [1 .. n + 1 -> Seq(S)] : Flattens(h, tt) /\ FlattenSeq(tt) = h[n + 1]
  <2> HIDE DEF tt, n
  <2> QED
    BY <1>1, FlattenSteps
<1> HIDE DEF tt
<1>3. CASE ss = <<>>
  <2>1. n = 0
    BY <1>3, EmptySeq
  <2>2. FlattenSeq(tt) = s
    BY <1>1, <1>2, <2>1 DEF Flattens
  <2>3. <<>> \o s = s
    BY ConcatEmptySeq
  <2> QED
    BY <1>3, <2>2, <2>3, FlattenEmpty DEF tt
<1>4. CASE ss # <<>>
  <2>1. PICK f \in [1 .. n -> Seq(S)] : Flattens(f, ss) /\ FlattenSeq(ss) = f[n]
    BY <1>4, FlattenSteps
  <2>2. n \in Nat \ {0}
    BY <1>4, EmptySeq
  <2> HIDE DEF n
  <2> DEFINE T == {k \in Nat : k + 1 <= n => f[k + 1] = h[k + 1]}
  <2>3. 0 \in T
    BY <1>1, <1>2, <2>1, <2>2 DEF Flattens
  <2>4. ASSUME NEW k \in Nat, k \in T PROVE k + 1 \in T
    <3>1. CASE (k + 1) + 1 <= n
      <4>1. /\ (k + 1) + 1 \in 2 .. n /\ (k + 1) + 1 \in 2 .. n + 1
            /\ (k + 1) + 1 \in 1 .. n /\ ((k + 1) + 1) - 1 = k + 1
            /\ f[k + 1] = h[k + 1]
        BY <2>2, <2>4, <3>1
      <4>2. f[(k + 1) + 1] = f[k + 1] \o ss[(k + 1) + 1]
        BY <2>1, <4>1, Zenon DEF Flattens, n
      <4>3. h[(k + 1) + 1] = h[k + 1] \o tt[(k + 1) + 1]
        BY <1>1, <1>2, <4>1, Zenon DEF Flattens
      <4>4. f[(k + 1) + 1] = h[(k + 1) + 1]
        BY <1>1, <4>1, <4>2, <4>3
      <4> QED
        BY <4>4
    <3> QED
      BY <3>1
  <2> HIDE DEF T
  <2>9. Nat \subseteq T
    BY <2>3, <2>4, Induction
  <2>5. n - 1 \in T /\ (n - 1) + 1 = n
    BY <2>2, <2>9
  <2>6. f[n] = h[n]
    BY <2>5 DEF T
  <2>7. n + 1 \in 2 .. Len(tt) /\ (n + 1) - 1 = n
    BY <1>1, <2>2
  <2>8. h[n + 1] = h[n] \o s
    BY <1>1, <1>2, <2>7 DEF Flattens
  <2> QED
    BY <1>2, <2>1, <2>6, <2>8 DEF tt
<1> QED
  BY <1>3, <1>4

\* The concatenation of pairs.
LEMMA FlattenPairs ==
  ASSUME NEW S, NEW ss \in Seq(Seq(S)), \A i \in 1 .. Len(ss) : Len(ss[i]) = 2
  PROVE  /\ FlattenSeq(ss) \in Seq(S) /\ Len(FlattenSeq(ss)) = 2 * Len(ss)
         /\ \A i \in 1 .. Len(ss) : /\ FlattenSeq(ss)[2 * i - 1] = ss[i][1]
                                    /\ FlattenSeq(ss)[2 * i] = ss[i][2]
<1> DEFINE n == Len(ss)
           Pairs(r, k) == /\ r \in Seq(S) /\ Len(r) = 2 * k
                          /\ \A i \in 1 .. k : r[2 * i - 1] = ss[i][1] /\ r[2 * i] = ss[i][2]
<1>0. n \in Nat /\ \A i \in 1 .. n : ss[i] \in Seq(S) /\ Len(ss[i]) = 2
  BY LenProperties, ElementOfSeq
<1>1. CASE ss = <<>>
  <2>1. Len(ss) = 0 /\ FlattenSeq(ss) = <<>>
    BY <1>1, FlattenEmpty
  <2>2. <<>> \in Seq(S) /\ Len(<<>>) = 0
    OBVIOUS
  <2> QED
    BY <2>1, <2>2
<1>2. CASE ss # <<>>
  <2>1. PICK f \in [1 .. n -> Seq(S)] : Flattens(f, ss) /\ FlattenSeq(ss) = f[n]
    BY <1>2, FlattenSteps
  <2>2. n \in Nat \ {0}
    BY <1>2, EmptySeq
  <2> HIDE DEF n
  <2> DEFINE T == {k \in Nat : k + 1 <= n => Pairs(f[k + 1], k + 1)}
  <2>3. 0 \in T
    <3>1. 1 \in 1 .. n /\ f[1] = ss[1]
      BY <2>1, <2>2 DEF Flattens
    <3>2. ss[1] \in Seq(S) /\ Len(ss[1]) = 2
      BY <1>0, <3>1 DEF n
    <3>3. \A i \in 1 .. 1 : 2 * i - 1 = 1 /\ 2 * i = 2 /\ i = 1
      OBVIOUS
    <3>4. Pairs(ss[1], 1)
      BY <3>2, <3>3
    <3> QED
      BY <3>1, <3>4
  <2>4. ASSUME NEW k \in Nat, k \in T PROVE k + 1 \in T
    <3>1. CASE (k + 1) + 1 <= n
      <4> DEFINE j == k + 1
                 a == f[j]
                 b == ss[j + 1]
      <4>1. j + 1 \in 2 .. n /\ j + 1 \in 1 .. n /\ (j + 1) - 1 = j /\ j \in Nat
        BY <2>2, <3>1
      <4>2. Pairs(a, j)
        BY <2>2, <2>4, <3>1
      <4>3. f[j + 1] = f[(j + 1) - 1] \o b
        BY <2>1, <4>1 DEF Flattens, n
      <4>4. f[j + 1] = a \o b
        BY <4>1, <4>3
      <4>5. b \in Seq(S) /\ Len(b) = 2
        BY <1>0, <4>1 DEF n
      <4> HIDE DEF a, b, j
      <4>6. /\ a \o b \in Seq(S) /\ Len(a \o b) = 2 * j + 2
            /\ \A i \in 1 .. 2 * j + 2 : (a \o b)[i] = IF i <= 2 * j THEN a[i] ELSE b[i - 2 * j]
        <5>1. /\ a \o b \in Seq(S) /\ Len(a \o b) = Len(a) + Len(b)
              /\ \A i \in 1 .. Len(a) + Len(b) :
                    (a \o b)[i] = IF i <= Len(a) THEN a[i] ELSE b[i - Len(a)]
          <6>1. a \in Seq(S) /\ b \in Seq(S)
            BY <4>2, <4>5
          <6> QED
            BY <6>1, ConcatProperties, Zenon
        <5>2. Len(a) = 2 * j /\ Len(b) = 2
          BY <4>2, <4>5
        <5> QED
          BY <5>1, <5>2, Zenon
      <4>7. ASSUME NEW i \in 1 .. j + 1
            PROVE  (a \o b)[2 * i - 1] = ss[i][1] /\ (a \o b)[2 * i] = ss[i][2]
        <5>1. CASE i \in 1 .. j
          <6>1. /\ 2 * i - 1 \in 1 .. 2 * j + 2 /\ 2 * i \in 1 .. 2 * j + 2
                /\ 2 * i - 1 <= 2 * j /\ 2 * i <= 2 * j
            BY <4>1, <5>1
          <6> QED
            BY <4>2, <4>6, <5>1, <6>1
        <5>2. CASE i = j + 1
          <6> DEFINE u == 2 * i - 1
                     v == 2 * i
          <6>1. /\ u \in 1 .. 2 * j + 2 /\ v \in 1 .. 2 * j + 2
                /\ ~(u <= 2 * j) /\ ~(v <= 2 * j) /\ u - 2 * j = 1 /\ v - 2 * j = 2
            BY <4>1, <5>2
          <6> HIDE DEF u, v
          <6>2. (a \o b)[u] = b[1] /\ (a \o b)[v] = b[2]
            BY <4>6, <6>1
          <6> QED
            BY <5>2, <6>2 DEF b, u, v
        <5>3. i \in 1 .. j \/ i = j + 1
          BY <4>1
        <5> QED
          BY <5>1, <5>2, <5>3, Zenon
      <4>8. 2 * (j + 1) = 2 * j + 2
        BY <4>1
      <4>9. Pairs(a \o b, j + 1)
        BY <4>6, <4>7, <4>8
      <4>10. j = k + 1
        BY DEF j
      <4>11. Pairs(f[(k + 1) + 1], (k + 1) + 1)
        BY <4>4, <4>9, <4>10
      <4> HIDE DEF Pairs
      <4> QED
        BY <4>11
    <3> QED
      BY <3>1
  <2>5. Nat \subseteq T
    <3> HIDE DEF T
    <3> QED
      BY <2>3, <2>4, Induction
  <2>6. n - 1 \in Nat /\ (n - 1) + 1 = n /\ n <= n
    BY <2>2
  <2>7. Pairs(f[n], n)
    <3> HIDE DEF Pairs
    <3>1. n - 1 \in T
      BY <2>5, <2>6, Zenon
    <3> QED
      BY <2>6, <3>1
  <2> QED
    BY <2>1, <2>7 DEF n
<1> QED
  BY <1>1, <1>2

----------------------------------------------------------------------------
(* Functions that grow.                                                    *)

\* A function that never falls from one step to the next is monotone.
LEMMA StepsMonotone ==
  ASSUME NEW n \in Nat, NEW f \in [0 .. n -> Nat], \A i \in 1 .. n : f[i - 1] <= f[i]
  PROVE  \A i, j \in 0 .. n : i <= j => f[i] <= f[j]
<1> DEFINE T == {j \in Nat : j <= n => \A i \in 0 .. j : f[i] <= f[j]}
<1>1. 0 \in T
  OBVIOUS
<1>2. ASSUME NEW k \in Nat, k \in T PROVE k + 1 \in T
  <2> SUFFICES ASSUME k + 1 <= n PROVE \A i \in 0 .. k + 1 : f[i] <= f[k + 1]
    OBVIOUS
  <2>1. k + 1 \in 1 .. n /\ (k + 1) - 1 = k /\ k \in 0 .. n /\ k + 1 \in 0 .. n
    OBVIOUS
  <2>2. f[k] <= f[k + 1]
    BY <2>1
  <2>3. ASSUME NEW i \in 0 .. k PROVE f[i] <= f[k] /\ f[i] \in Nat
    BY <1>2, <2>1
  <2> QED
    BY <2>1, <2>2, <2>3
<1> HIDE DEF T
<1>3. Nat \subseteq T
  BY <1>1, <1>2, Induction
<1> QED
  BY <1>3 DEF T

\* And a number between its ends lies between two of its values.
LEMMA StepsCover ==
  ASSUME NEW n \in Nat, NEW f \in [0 .. n -> Nat], NEW m \in Nat, f[0] <= m, m < f[n]
  PROVE  \E i \in 1 .. n : f[i - 1] <= m /\ m < f[i]
<1> DEFINE S == {i \in 0 .. n : m < f[i]}
<1>1. S \in SUBSET Nat /\ n \in S
  OBVIOUS
<1> HIDE DEF S
<1>2. PICK i \in S : \A j \in S : i <= j
  BY <1>1, LeastElement
<1>3. i \in 0 .. n /\ m < f[i] /\ i # 0
  BY <1>2 DEF S
<1>4. i \in 1 .. n /\ i - 1 \in 0 .. n /\ i - 1 \notin S
  BY <1>2, <1>3
<1>5. f[i - 1] <= m
  BY <1>4 DEF S
<1> QED
  BY <1>3, <1>4, <1>5
=============================================================================
