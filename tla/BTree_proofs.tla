---------------------------- MODULE BTree_proofs ----------------------------
(* Proofs about BTree, for every node size, record and number of records.  *)
EXTENDS BTree, SequenceFacts, FiniteSetTheorems

----------------------------------------------------------------------------
(* Levels.                                                                 *)

LEMMA StretchIs ==
    ASSUME NEW a \in Nat, NEW b \in Nat, a <= b
    PROVE  /\ Stretch(a, b) \in Seq(Nat) /\ Len(Stretch(a, b)) = b - a
           /\ \A j \in 1 .. b - a : Stretch(a, b)[j] = a + j
<1>1. b - a \in Nat /\ \A j \in 1 .. b - a : a + j \in Nat
  OBVIOUS
<1>2. [j \in 1 .. b - a |-> a + j] \in Seq(Nat)
  BY <1>1, IsASeq
<1> QED
  BY <1>1, <1>2, LenProperties DEF Stretch

\* A stretch is empty when it ends where it starts.
LEMMA OwnEdge ==
    ASSUME NEW a \in Nat, NEW b \in Nat, a <= b
    PROVE  Stretch(a, b) = <<>> <=> a = b
<1>1. Stretch(a, b) \in Seq(Nat) /\ Len(Stretch(a, b)) = b - a
  BY StretchIs
<1> QED
  BY <1>1, EmptySeq

LEMMA StretchGrows ==
    ASSUME NEW a \in Nat, NEW b \in Nat, a <= b
    PROVE  Append(Stretch(a, b), b + 1) = Stretch(a, b + 1)
<1>1. /\ Stretch(a, b) \in Seq(Nat) /\ Len(Stretch(a, b)) = b - a
      /\ \A j \in 1 .. b - a : Stretch(a, b)[j] = a + j
  BY StretchIs
<1>2. /\ Stretch(a, b + 1) \in Seq(Nat) /\ Len(Stretch(a, b + 1)) = b + 1 - a
      /\ \A j \in 1 .. b + 1 - a : Stretch(a, b + 1)[j] = a + j
  BY StretchIs
<1> DEFINE s == Stretch(a, b)
           t == Stretch(a, b + 1)
<1> HIDE DEF s, t
<1>3. /\ Append(s, b + 1) \in Seq(Nat) /\ Len(Append(s, b + 1)) = b - a + 1
      /\ \A j \in 1 .. b - a : Append(s, b + 1)[j] = a + j
      /\ Append(s, b + 1)[b - a + 1] = b + 1
  BY <1>1, AppendProperties DEF s
<1>4. Append(s, b + 1) = t
  <2>1. Len(Append(s, b + 1)) = Len(t) /\ t \in Seq(Nat)
    BY <1>2, <1>3 DEF t
  <2>2. ASSUME NEW j \in 1 .. Len(t) PROVE Append(s, b + 1)[j] = t[j]
    BY <1>2, <1>3 DEF t
  <2> QED
    BY <1>3, <2>1, <2>2, SeqEqual
<1> QED
  BY <1>4 DEF s, t

\* The edges of a partition: where each of its nodes ends.
Edges(ns) == [i \in 0 .. Len(ns) |-> Edge(ns, i)]

LEMMA TilesEdges ==
    ASSUME NEW ns, NEW n, Tiles(ns, n)
    PROVE  LET f == Edges(ns)
           IN  /\ ns \in Seq(Seq(Nat)) /\ Len(ns) \in Nat /\ DOMAIN ns = 1 .. Len(ns)
               /\ n \in Nat /\ Len(ns) <= n
               /\ f \in [0 .. Len(ns) -> Nat] /\ f[0] = 0 /\ f[Len(ns)] = n
               /\ \A i \in 1 .. Len(ns) : f[i - 1] < f[i]
               /\ \A i, j \in 0 .. Len(ns) : i <= j => f[i] <= f[j]
               /\ \A i \in 1 .. Len(ns) :
                     /\ ns[i] \in Seq(Nat) /\ ns[i] # <<>> /\ Len(ns[i]) = f[i] - f[i - 1]
                     /\ DOMAIN ns[i] = 1 .. Len(ns[i])
                     /\ \A j \in 1 .. Len(ns[i]) : ns[i][j] = f[i - 1] + j
<1> DEFINE f == [i \in 0 .. Len(ns) |-> Edge(ns, i)]
<1>0. f = Edges(ns)
  BY DEF Edges
<1>1. ns \in Seq(Seq(Nat)) /\ Len(ns) \in Nat /\ DOMAIN ns = 1 .. Len(ns)
  BY LenProperties DEF Tiles
<1>2. ASSUME NEW i \in 1 .. Len(ns)
      PROVE  /\ Edge(ns, i - 1) \in Nat /\ Edge(ns, i) \in Nat
             /\ Edge(ns, i - 1) < Edge(ns, i)
             /\ ns[i] = Stretch(Edge(ns, i - 1), Edge(ns, i))
  BY <1>1 DEF Tiles
<1>3. Edge(ns, 0) = 0 /\ Edge(ns, Len(ns)) = n
  BY DEF Tiles, Edge
<1>4. f \in [0 .. Len(ns) -> Nat]
  <2>1. ASSUME NEW i \in 0 .. Len(ns) PROVE Edge(ns, i) \in Nat
    <3>1. i = 0 \/ i \in 1 .. Len(ns)
      BY <1>1
    <3> QED
      BY <1>2, <1>3, <3>1
  <2> QED
    BY <2>1
<1>5. /\ f[0] = 0 /\ f[Len(ns)] = n
      /\ \A i \in 1 .. Len(ns) : f[i - 1] < f[i]
      /\ \A i \in 1 .. Len(ns) : ns[i] = Stretch(f[i - 1], f[i])
  <2>1. 0 \in 0 .. Len(ns) /\ Len(ns) \in 0 .. Len(ns)
    BY <1>1
  <2>2. ASSUME NEW i \in 1 .. Len(ns) PROVE i \in 0 .. Len(ns) /\ i - 1 \in 0 .. Len(ns)
    BY <1>1
  <2> QED
    BY <1>2, <1>3, <2>1, <2>2
<1> HIDE DEF f
<1>a. ASSUME NEW i \in 1 .. Len(ns)
      PROVE  /\ f[i - 1] \in Nat /\ f[i] \in Nat /\ f[i - 1] < f[i] /\ f[i - 1] <= f[i]
             /\ ns[i] = Stretch(f[i - 1], f[i])
  <2>1. i \in 0 .. Len(ns) /\ i - 1 \in 0 .. Len(ns)
    BY <1>1
  <2>2. f[i - 1] \in Nat /\ f[i] \in Nat
    BY <1>4, <2>1
  <2>3. f[i - 1] < f[i] /\ ns[i] = Stretch(f[i - 1], f[i])
    BY <1>5
  <2> QED
    BY <2>2, <2>3
<1>6. \A i, j \in 0 .. Len(ns) : i <= j => f[i] <= f[j]
  <2>1. \A i \in 1 .. Len(ns) : f[i - 1] <= f[i]
    BY <1>a
  <2> QED
    BY <1>1, <1>4, <2>1, StepsMonotone
<1>7. ASSUME NEW i \in 1 .. Len(ns)
      PROVE  /\ ns[i] \in Seq(Nat) /\ ns[i] # <<>> /\ Len(ns[i]) = f[i] - f[i - 1]
             /\ DOMAIN ns[i] = 1 .. Len(ns[i])
             /\ \A j \in 1 .. Len(ns[i]) : ns[i][j] = f[i - 1] + j
  <2> DEFINE a == f[i - 1]
             b == f[i]
  <2>1. a \in Nat /\ b \in Nat /\ a < b /\ a <= b /\ ns[i] = Stretch(a, b)
    BY <1>a
  <2> HIDE DEF a, b
  <2>2. /\ ns[i] \in Seq(Nat) /\ Len(ns[i]) = b - a
        /\ \A j \in 1 .. b - a : ns[i][j] = a + j
    BY <2>1, StretchIs
  <2>3. Len(ns[i]) > 0 /\ DOMAIN ns[i] = 1 .. Len(ns[i])
    BY <2>1, <2>2, LenProperties
  <2> QED
    BY <2>2, <2>3, EmptySeq DEF a, b
<1>8. Len(ns) <= n
  <2> DEFINE T == {i \in Nat : i <= Len(ns) => i <= f[i]}
  <2>1. 0 \in T
    BY <1>5
  <2>2. ASSUME NEW i \in Nat, i \in T PROVE i + 1 \in T
    <3> SUFFICES ASSUME i + 1 <= Len(ns) PROVE i + 1 <= f[i + 1]
      OBVIOUS
    <3>1. i + 1 \in 1 .. Len(ns) /\ (i + 1) - 1 = i /\ i \in 0 .. Len(ns) /\ i + 1 \in 0 .. Len(ns)
      BY <1>1
    <3>2. f[i] < f[i + 1] /\ f[i] \in Nat /\ f[i + 1] \in Nat
      BY <1>4, <1>5, <3>1
    <3>3. i <= f[i]
      BY <2>2, <3>1
    <3> QED
      BY <3>2, <3>3
  <2> HIDE DEF T
  <2>3. Nat \subseteq T
    BY <2>1, <2>2, Induction
  <2> QED
    BY <1>1, <1>5, <2>3 DEF T
<1>9. n \in Nat
  BY <1>1, <1>4, <1>5
<1> QED
  BY <1>0, <1>1, <1>4, <1>5, <1>6, <1>7, <1>8, <1>9

LEMMA TilesEmpty == Tiles(<<>>, 0)
BY EmptySeq DEF Tiles, Edge

\* A node is closed behind the last one.
LEMMA TilesAppend ==
    ASSUME NEW ns, NEW m \in Nat, NEW k \in Nat, m < k, Tiles(ns, m)
    PROVE  Tiles(Append(ns, Stretch(m, k)), k)
<1> DEFINE s == Stretch(m, k)
           t == Append(ns, s)
<1>1. /\ s \in Seq(Nat) /\ Len(s) = k - m
      /\ \A j \in 1 .. k - m : s[j] = m + j
  <2>1. m <= k
    OBVIOUS
  <2> QED
    BY <2>1, StretchIs
<1>2. ns \in Seq(Seq(Nat)) /\ Len(ns) \in Nat /\ DOMAIN ns = 1 .. Len(ns)
  BY TilesEdges
<1>3. s = Stretch(m, k)
  OBVIOUS
<1> HIDE DEF s
<1>4. /\ t \in Seq(Seq(Nat)) /\ Len(t) = Len(ns) + 1 /\ DOMAIN t = 1 .. Len(ns) + 1
      /\ \A i \in 1 .. Len(ns) : t[i] = ns[i]
      /\ t[Len(ns) + 1] = s
  BY <1>1, <1>2, AppendProperties, LenProperties
<1> HIDE DEF t
<1>5. ASSUME NEW i \in 0 .. Len(ns) PROVE Edge(t, i) = Edge(ns, i)
  BY <1>2, <1>4 DEF Edge
<1>6. Edge(ns, Len(ns)) = m
  BY DEF Tiles
<1>7. Edge(t, Len(ns) + 1) = k
  <2>1. Len(s) \in 1 .. k - m /\ s[Len(s)] = m + Len(s) /\ Len(ns) + 1 # 0
    BY <1>1, <1>2
  <2> QED
    BY <1>1, <1>4, <2>1 DEF Edge
<1>8. ASSUME NEW i \in DOMAIN t
      PROVE  /\ Edge(t, i - 1) \in Nat /\ Edge(t, i) \in Nat
             /\ Edge(t, i - 1) < Edge(t, i)
             /\ t[i] = Stretch(Edge(t, i - 1), Edge(t, i))
  <2>1. CASE i \in 1 .. Len(ns)
    <3>1. i \in 0 .. Len(ns) /\ i - 1 \in 0 .. Len(ns)
      BY <1>2, <2>1
    <3>2. Edge(t, i) = Edge(ns, i) /\ Edge(t, i - 1) = Edge(ns, i - 1) /\ t[i] = ns[i]
      BY <1>4, <1>5, <2>1, <3>1
    <3>3. /\ Edge(ns, i - 1) \in Nat /\ Edge(ns, i) \in Nat
          /\ Edge(ns, i - 1) < Edge(ns, i)
          /\ ns[i] = Stretch(Edge(ns, i - 1), Edge(ns, i))
      BY <1>2, <2>1 DEF Tiles
    <3> QED
      BY <3>2, <3>3
  <2>2. CASE i = Len(ns) + 1
    <3>1. Edge(t, i - 1) = m /\ Edge(t, i) = k /\ t[i] = s
      BY <1>2, <1>4, <1>5, <1>6, <1>7, <2>2
    <3> QED
      BY <1>3, <3>1
  <2> QED
    BY <1>2, <1>4, <2>1, <2>2
<1>9. Tiles(t, k)
  BY <1>4, <1>7, <1>8 DEF Tiles
<1> QED
  BY <1>9 DEF t, s

\* The first keys of a level that is packed from ascending keys ascend.
LEMMA FirstAscend ==
    ASSUME NEW ns, NEW keys, NEW n \in Nat, Tiles(ns, Len(keys)), Ascends(keys, n)
    PROVE  LET first == [i \in DOMAIN ns |-> keys[ns[i][1]]]
           IN  /\ Ascends(first, n) /\ Len(first) = Len(ns)
               /\ first \in Seq(Nat) /\ DOMAIN first = 1 .. Len(ns)
<1> DEFINE f == Edges(ns)
           first == [i \in DOMAIN ns |-> keys[ns[i][1]]]
<1>1. /\ Len(ns) \in Nat /\ DOMAIN ns = 1 .. Len(ns)
      /\ f \in [0 .. Len(ns) -> Nat] /\ f[0] = 0 /\ f[Len(ns)] = Len(keys)
      /\ \A i \in 1 .. Len(ns) : f[i - 1] < f[i]
      /\ \A i, j \in 0 .. Len(ns) : i <= j => f[i] <= f[j]
      /\ \A i \in 1 .. Len(ns) :
            /\ ns[i] \in Seq(Nat) /\ ns[i] # <<>> /\ Len(ns[i]) = f[i] - f[i - 1]
            /\ \A j \in 1 .. Len(ns[i]) : ns[i][j] = f[i - 1] + j
      /\ Len(ns) <= Len(keys)
  BY TilesEdges
<1>2. /\ keys \in Seq(1 .. n) /\ Len(keys) \in Nat
      /\ \A i \in 1 .. Len(keys) : keys[i] \in 1 .. n
      /\ \A i, j \in 1 .. Len(keys) : i < j => keys[i] < keys[j]
      /\ n > 0 => keys # <<>> /\ keys[1] = 1
  BY LenProperties, ElementOfSeq DEF Ascends
<1> HIDE DEF f
<1>3. ASSUME NEW i \in 1 .. Len(ns)
      PROVE  ns[i][1] = f[i - 1] + 1 /\ f[i - 1] + 1 \in 1 .. Len(keys)
  <2>1. i \in 0 .. Len(ns) /\ i - 1 \in 0 .. Len(ns) /\ Len(ns) \in 0 .. Len(ns)
    BY <1>1
  <2>0. f[i] <= f[Len(ns)]
    BY <1>1, <2>1
  <2>2. f[i - 1] \in Nat /\ f[i] \in Nat /\ f[i - 1] < f[i] /\ f[i] <= Len(keys)
    BY <1>1, <2>0, <2>1
  <2>3. Len(ns[i]) = f[i] - f[i - 1] /\ \A j \in 1 .. Len(ns[i]) : ns[i][j] = f[i - 1] + j
    BY <1>1
  <2>4. ns[i][1] = f[i - 1] + 1
    BY <2>2, <2>3
  <2>5. Len(keys) \in Nat
    BY <1>2
  <2>6. f[i - 1] + 1 \in 1 .. Len(keys)
    BY <2>2, <2>5
  <2> QED
    BY <2>4, <2>6
<1>4. ASSUME NEW i \in 1 .. Len(ns)
      PROVE  first[i] = keys[f[i - 1] + 1] /\ first[i] \in 1 .. n
  <2>1. first[i] = keys[ns[i][1]]
    BY <1>1
  <2> HIDE DEF first
  <2> QED
    BY <1>2, <1>3, <2>1
<1>5. first \in Seq(1 .. n) /\ Len(first) = Len(ns) /\ DOMAIN first = 1 .. Len(ns)
  <2>1. first = [i \in 1 .. Len(ns) |-> first[i]]
    BY <1>1
  <2> HIDE DEF first
  <2>2. [i \in 1 .. Len(ns) |-> first[i]] \in Seq(1 .. n)
    BY <1>1, <1>4, IsASeq
  <2> QED
    BY <1>1, <2>1, <2>2, LenProperties
<1> HIDE DEF first
<1>6. ASSUME NEW i \in 1 .. Len(ns), NEW j \in 1 .. Len(ns), i < j PROVE first[i] < first[j]
  <2>1. i \in 0 .. Len(ns) /\ i - 1 \in 0 .. Len(ns) /\ j - 1 \in 0 .. Len(ns) /\ i <= j - 1
    BY <1>1, <1>6
  <2>2. f[i - 1] \in Nat /\ f[i] \in Nat /\ f[j - 1] \in Nat /\ f[i - 1] < f[i] /\ f[i] <= f[j - 1]
    BY <1>1, <2>1
  <2>3. f[i - 1] + 1 \in 1 .. Len(keys) /\ f[j - 1] + 1 \in 1 .. Len(keys)
    BY <1>3
  <2>4. f[i - 1] + 1 < f[j - 1] + 1
    BY <2>2
  <2> QED
    BY <1>2, <1>4, <2>3, <2>4
<1>7. ASSUME n > 0 PROVE first # <<>> /\ first[1] = 1
  <2>1. Len(keys) > 0 /\ keys[1] = 1
    BY <1>2, <1>7, EmptySeq
  <2>2. Len(ns) > 0
    BY <1>1, <2>1
  <2>3. 1 \in 1 .. Len(ns) /\ 1 - 1 = 0
    BY <1>1, <2>2
  <2>4. first[1] = keys[0 + 1]
    BY <1>1, <1>4, <2>3
  <2> QED
    BY <1>5, <2>1, <2>2, <2>4, EmptySeq
<1>8. first \in Seq(Nat)
  <2>1. \A i \in 1 .. Len(first) : first[i] \in Nat
    BY <1>4, <1>5
  <2> QED
    BY <1>5, <2>1, SeqDef
<1> QED
  BY <1>5, <1>6, <1>7, <1>8 DEF Ascends, first

----------------------------------------------------------------------------
(* What a node holds.                                                      *)

LEMMA FillEnds ==
    ASSUME NEW s \in Seq(Nat)
    PROVE  \E end \in [0 .. Len(s) -> Nat] :
              /\ end[0] = Descriptor
              /\ \A i \in 1 .. Len(s) : end[i] = end[i - 1] + s[i]
              /\ Fill(s) = end[Len(s)] + (Len(s) + 1) * Slot
<1> DEFINE end[i \in 0 .. Len(s)] == IF i = 0 THEN Descriptor ELSE end[i - 1] + s[i]
<1>1. Descriptor \in Nat
  BY BTreeAssumption
<1>2. /\ end \in [0 .. Len(s) -> Nat]
      /\ end[0] = Descriptor
      /\ \A i \in 1 .. Len(s) : end[i] = end[i - 1] + s[i]
  BY <1>1, PartialSums
<1>3. Fill(s) = end[Len(s)] + (Len(s) + 1) * Slot
  BY Zenon DEF Fill
<1> HIDE DEF end
<1> QED
  BY <1>2, <1>3

LEMMA FillType ==
    ASSUME NEW s \in Seq(Nat)
    PROVE  Fill(s) \in Nat
<1>1. PICK end \in [0 .. Len(s) -> Nat] : Fill(s) = end[Len(s)] + (Len(s) + 1) * Slot
  BY FillEnds
<1>2. Len(s) \in 0 .. Len(s) /\ Len(s) \in Nat
  BY LenProperties
<1>3. end[Len(s)] \in Nat
  BY <1>2
<1>4. (Len(s) + 1) * Slot \in Nat
  BY <1>2, BTreeAssumption
<1> QED
  BY <1>1, <1>3, <1>4

LEMMA FillEmpty == Fill(<<>>) = EmptyNode
<1> DEFINE s == <<>>
<1>1. s \in Seq(Nat) /\ Len(s) = 0
  BY EmptySeq
<1> HIDE DEF s
<1>2. PICK end \in [0 .. Len(s) -> Nat] :
              end[0] = Descriptor /\ Fill(s) = end[Len(s)] + (Len(s) + 1) * Slot
  BY <1>1, FillEnds
<1>3. Fill(s) = Descriptor + Slot
  BY <1>1, <1>2, BTreeAssumption
<1> QED
  BY <1>3 DEF s, EmptyNode

LEMMA FillAppend ==
    ASSUME NEW s \in Seq(Nat), NEW x \in Nat
    PROVE  Fill(Append(s, x)) = Fill(s) + x + Slot
<1> DEFINE t == Append(s, x)
           n == Len(s)
<1>1. /\ t \in Seq(Nat) /\ n \in Nat /\ Len(t) = n + 1 /\ t[n + 1] = x
      /\ \A i \in 1 .. n : t[i] = s[i]
      /\ \A i \in 1 .. n : s[i] \in Nat
  BY AppendProperties, LenProperties, ElementOfSeq
<1> HIDE DEF t
<1>2. PICK e \in [0 .. n -> Nat] :
              /\ e[0] = Descriptor
              /\ \A i \in 1 .. n : e[i] = e[i - 1] + s[i]
              /\ Fill(s) = e[n] + (n + 1) * Slot
  BY FillEnds
<1>3. PICK f \in [0 .. n + 1 -> Nat] :
              /\ f[0] = Descriptor
              /\ \A i \in 1 .. n + 1 : f[i] = f[i - 1] + t[i]
              /\ Fill(t) = f[n + 1] + ((n + 1) + 1) * Slot
  <2>1. \E f \in [0 .. Len(t) -> Nat] :
              /\ f[0] = Descriptor
              /\ \A i \in 1 .. Len(t) : f[i] = f[i - 1] + t[i]
              /\ Fill(t) = f[Len(t)] + (Len(t) + 1) * Slot
    BY <1>1, FillEnds
  <2> HIDE DEF n
  <2> QED
    BY <1>1, <2>1
<1> HIDE DEF n
<1> DEFINE T == {i \in Nat : i <= n => e[i] = f[i]}
<1>4. 0 \in T
  BY <1>2, <1>3
<1>5. ASSUME NEW i \in Nat, i \in T PROVE i + 1 \in T
  <2> SUFFICES ASSUME i + 1 <= n PROVE e[i + 1] = f[i + 1]
    OBVIOUS
  <2>1. i + 1 \in 1 .. n /\ (i + 1) - 1 = i /\ i + 1 \in 1 .. n + 1 /\ i <= n
    BY <1>1
  <2>2. e[i + 1] = e[i] + s[i + 1] /\ f[i + 1] = f[i] + t[i + 1] /\ t[i + 1] = s[i + 1]
    BY <1>1, <1>2, <1>3, <2>1
  <2>3. e[i] = f[i]
    BY <1>5, <2>1
  <2> QED
    BY <2>2, <2>3
<1> HIDE DEF T
<1>6. Nat \subseteq T
  BY <1>4, <1>5, Induction
<1>7. e[n] = f[n]
  BY <1>1, <1>6 DEF T
<1>8. f[n + 1] = e[n] + x /\ e[n] \in Nat
  <2>1. n + 1 \in 1 .. n + 1 /\ (n + 1) - 1 = n /\ n \in 0 .. n
    BY <1>1
  <2>2. f[n + 1] = f[n] + t[n + 1]
    BY <1>3, <2>1
  <2> QED
    BY <1>1, <1>2, <1>7, <2>1, <2>2
<1>9. ((n + 1) + 1) * Slot = (n + 1) * Slot + Slot /\ (n + 1) * Slot \in Nat /\ Slot \in Nat
  BY <1>1, BTreeAssumption
<1>10. Fill(t) = Fill(s) + x + Slot
  <2> DEFINE A == (n + 1) * Slot
             B == ((n + 1) + 1) * Slot
  <2>1. Fill(s) = e[n] + A /\ Fill(t) = f[n + 1] + B /\ B = A + Slot /\ A \in Nat /\ Slot \in Nat
    BY <1>2, <1>3, <1>9
  <2> HIDE DEF A, B
  <2> QED
    BY <1>8, <2>1
<1> QED
  BY <1>10 DEF t

LEMMA OfType ==
    ASSUME NEW bytes \in Seq(Nat), NEW a \in Nat, NEW b \in Nat, a <= b, b <= Len(bytes)
    PROVE  Of(bytes, Stretch(a, b)) \in Seq(Nat)
<1> DEFINE s == Stretch(a, b)
<1>1. /\ s \in Seq(Nat) /\ Len(s) = b - a
      /\ \A j \in 1 .. b - a : s[j] = a + j
  BY StretchIs
<1> HIDE DEF s
<1>2. DOMAIN s = 1 .. Len(s) /\ Len(s) \in Nat /\ Len(bytes) \in Nat
  BY <1>1, LenProperties
<1>3. ASSUME NEW j \in 1 .. Len(s) PROVE bytes[s[j]] \in Nat
  <2>1. s[j] \in 1 .. Len(bytes)
    <3>1. j \in 1 .. b - a
      BY <1>1
    <3>2. s[j] = a + j
      BY <1>1, <3>1
    <3> QED
      BY <1>2, <3>1, <3>2
  <2> QED
    BY <2>1, ElementOfSeq
<1>4. [j \in 1 .. Len(s) |-> bytes[s[j]]] \in Seq(Nat)
  BY <1>2, <1>3, IsASeq
<1>5. Of(bytes, s) \in Seq(Nat)
  BY <1>2, <1>4 DEF Of
<1> QED
  BY <1>5 DEF s

LEMMA OfAppend ==
    ASSUME NEW bytes \in Seq(Nat), NEW a \in Nat, NEW b \in Nat, a <= b, b < Len(bytes)
    PROVE  Of(bytes, Stretch(a, b + 1)) = Append(Of(bytes, Stretch(a, b)), bytes[b + 1])
<1> DEFINE s == Stretch(a, b)
           t == Stretch(a, b + 1)
           u == Of(bytes, s)
           w == Of(bytes, t)
           x == bytes[b + 1]
<1>1. /\ s \in Seq(Nat) /\ Len(s) = b - a
      /\ \A j \in 1 .. b - a : s[j] = a + j
  BY StretchIs
<1>2. /\ t \in Seq(Nat) /\ Len(t) = b + 1 - a
      /\ \A j \in 1 .. b + 1 - a : t[j] = a + j
  <2> DEFINE c == b + 1
  <2>1. c \in Nat /\ a <= c
    OBVIOUS
  <2> HIDE DEF c
  <2>2. /\ Stretch(a, c) \in Seq(Nat) /\ Len(Stretch(a, c)) = c - a
        /\ \A j \in 1 .. c - a : Stretch(a, c)[j] = a + j
    BY <2>1, StretchIs
  <2> QED
    BY <2>2 DEF c
<1>0. Len(bytes) \in Nat /\ b + 1 <= Len(bytes) /\ b + 1 \in Nat /\ a <= b + 1 /\ b <= Len(bytes)
  BY LenProperties
<1>3. u \in Seq(Nat) /\ w \in Seq(Nat)
  BY <1>0, OfType
<1>4. x \in Nat
  BY <1>0, ElementOfSeq
<1> HIDE DEF s, t
<1>5. DOMAIN s = 1 .. b - a /\ DOMAIN t = 1 .. b + 1 - a
  BY <1>1, <1>2, LenProperties
<1>6. /\ Len(u) = b - a /\ \A j \in 1 .. b - a : u[j] = bytes[a + j]
      /\ Len(w) = b + 1 - a /\ \A j \in 1 .. b + 1 - a : w[j] = bytes[a + j]
  <2>1. DOMAIN u = 1 .. b - a /\ DOMAIN w = 1 .. b + 1 - a
    BY <1>5 DEF Of
  <2>2. /\ \A j \in 1 .. b - a : u[j] = bytes[a + j]
        /\ \A j \in 1 .. b + 1 - a : w[j] = bytes[a + j]
    BY <1>1, <1>2, <1>5 DEF Of
  <2> HIDE DEF u, w
  <2>3. /\ Len(u) \in Nat /\ DOMAIN u = 1 .. Len(u) /\ Len(w) \in Nat /\ DOMAIN w = 1 .. Len(w)
    BY <1>3, LenProperties
  <2>4. b - a \in Nat /\ b + 1 - a \in Nat
    OBVIOUS
  <2> QED
    BY <2>1, <2>2, <2>3, <2>4
<1> HIDE DEF u, w, x
<1>7. /\ Append(u, x) \in Seq(Nat) /\ Len(Append(u, x)) = b - a + 1
      /\ \A j \in 1 .. b - a : Append(u, x)[j] = u[j]
      /\ Append(u, x)[b - a + 1] = x
  <2>1. /\ Append(u, x) \in Seq(Nat) /\ Len(Append(u, x)) = Len(u) + 1
        /\ \A j \in 1 .. Len(u) : Append(u, x)[j] = u[j]
        /\ Append(u, x)[Len(u) + 1] = x
    BY <1>3, <1>4, AppendProperties
  <2> QED
    BY <1>6, <2>1
<1>8. ASSUME NEW j \in 1 .. b + 1 - a PROVE w[j] = Append(u, x)[j]
  <2>1. CASE j \in 1 .. b - a
    BY <1>6, <1>7, <2>1
  <2>2. CASE j = b - a + 1
    <3>1. a + j = b + 1
      BY <2>2
    <3> QED
      BY <1>6, <1>7, <2>2, <3>1 DEF x
  <2>3. j \in 1 .. b - a \/ j = b - a + 1
    OBVIOUS
  <2> QED
    BY <2>1, <2>2, <2>3, Zenon
<1>9. w = Append(u, x)
  <2>1. Len(w) = Len(Append(u, x)) /\ \A j \in 1 .. Len(w) : w[j] = Append(u, x)[j]
    BY <1>6, <1>7, <1>8
  <2> QED
    BY <1>3, <1>7, <2>1, SeqEqual
<1> QED
  BY <1>9 DEF s, t, u, w, x

----------------------------------------------------------------------------
(* Packing.                                                                *)

LEMMA PackedNothing ==
    ASSUME NEW bytes \in Seq(Nat)
    PROVE  PackedTo(<<>>, <<>>, 1, EmptyNode, bytes)
<1>1. Len(bytes) \in Nat /\ Len(<<>>) = 0 /\ DOMAIN <<>> = {}
  BY LenProperties, EmptySeq
<1>2. Stretch(0, 0) = <<>>
  <2>1. \A a \in Nat : Stretch(a, a) = <<>>
    BY OwnEdge
  <2> QED
    BY <2>1
<1>3. Of(bytes, <<>>) = <<>>
  BY <1>1 DEF Of
<1>4. Descriptor + Slot <= NodeSize /\ Descriptor + Slot \in Nat
  BY BTreeAssumption
<1>5. /\ 1 \in 1 .. Len(bytes) + 1
      /\ Tiles(<<>>, 0)
      /\ Stretch(1 - 1 - 0, 1 - 1) = <<>>
      /\ 1 - 1 - 0 = 0
  BY <1>1, <1>2, TilesEmpty
<1> DEFINE e == <<>>
<1>6. /\ Len(e) = 0 /\ DOMAIN e = {} /\ Of(bytes, e) = e /\ Tiles(e, 0)
      /\ Stretch(1 - 1 - 0, 1 - 1) = e /\ EmptyNode = Fill(e)
  BY <1>1, <1>2, <1>3, <1>5, FillEmpty
<1> HIDE DEF e
<1>7. PackedTo(e, e, 1, EmptyNode, bytes)
  <2>1. EmptyNode <= EmptyNode /\ EmptyNode <= NodeSize
    BY <1>4 DEF EmptyNode
  <2> QED
    BY <1>5, <1>6, <2>1 DEF PackedTo
<1> QED
  BY <1>7 DEF e

LEMMA PutPacks ==
    ASSUME NEW bytes \in Seq(Nat), PackedTo(nodes, cur, pos, used, bytes),
           pos <= Len(bytes), bytes[pos] + Slot + EmptyNode <= NodeSize,
           Put(bytes[pos] + Slot)
    PROVE  PackedTo(nodes', cur', pos', used', bytes)
<1> DEFINE m == pos - 1 - Len(cur)
           x == bytes[pos]
<1>1. /\ pos \in Nat \ {0} /\ m \in Nat /\ Tiles(nodes, m) /\ cur = Stretch(m, pos - 1)
      /\ used = Fill(Of(bytes, cur)) /\ EmptyNode <= used /\ used <= NodeSize
      /\ \A i \in DOMAIN nodes : Fill(Of(bytes, nodes[i])) <= NodeSize
  BY LenProperties DEF PackedTo
<1>2. pos - 1 \in Nat /\ m <= pos - 1 /\ (pos - 1) + 1 = pos /\ Len(cur) = (pos - 1) - m
      /\ cur \in Seq(Nat) /\ Len(cur) \in Nat /\ Len(bytes) \in Nat
  <2>1. Len(cur) \in Nat
    <3>1. cur = [j \in 1 .. (pos - 1) - m |-> m + j]
      BY <1>1 DEF Stretch
    <3>2. (pos - 1) - m \in Nat \/ (pos - 1) - m \in Int \ Nat
      BY <1>1
    <3> QED
      BY <3>1, <3>2
  <2>2. m <= pos - 1
    BY <1>1, <2>1
  <2> QED
    BY <1>1, <2>1, <2>2, StretchIs, LenProperties
<1> HIDE DEF m
<1>3. x \in Nat /\ Slot \in Nat /\ NodeSize \in Nat /\ EmptyNode \in Nat /\ pos \in 1 .. Len(bytes)
  BY <1>1, <1>2, BTreeAssumption, ElementOfSeq DEF EmptyNode
<1> DEFINE o == Of(bytes, cur)
<1>4. o \in Seq(Nat) /\ Fill(o) \in Nat /\ used = Fill(o)
  <2> DEFINE q == pos - 1
  <2>1. q \in Nat /\ m <= q /\ q <= Len(bytes) /\ cur = Stretch(m, q)
    BY <1>1, <1>2, <1>3
  <2> HIDE DEF q
  <2>2. Of(bytes, cur) \in Seq(Nat)
    BY <1>1, <2>1, OfType
  <2> QED
    BY <1>1, <2>2, FillType
<1> HIDE DEF x
<1>5. pos' = pos + 1
  BY DEF Put
<1>6. CASE /\ used + (x + Slot) > NodeSize /\ cur # <<>>
           /\ nodes' = Append(nodes, cur) /\ cur' = <<pos>> /\ used' = EmptyNode + (x + Slot)
  <2>1. m < pos - 1
    BY <1>1, <1>2, <1>6, OwnEdge
  <2>2. Tiles(nodes', pos - 1)
    BY <1>1, <1>2, <1>6, <2>1, TilesAppend
  <2>3. cur' = Stretch(pos - 1, pos) /\ Len(cur') = 1
    <3>1. Stretch(pos - 1, pos) = [j \in 1 .. 1 |-> (pos - 1) + j]
      BY <1>1 DEF Stretch
    <3>2. (pos - 1) + 1 = pos
      BY <1>1
    <3> QED
      BY <1>6, <3>1, <3>2
  <2>4. used' = Fill(Of(bytes, cur'))
    <3>1. Of(bytes, cur') = Append(Of(bytes, Stretch(pos - 1, pos - 1)), x)
      <4> DEFINE q == pos - 1
      <4>1. q \in Nat /\ q <= q /\ q < Len(bytes) /\ q + 1 = pos
        BY <1>2, <1>3
      <4> HIDE DEF q
      <4>2. Of(bytes, Stretch(q, q + 1)) = Append(Of(bytes, Stretch(q, q)), bytes[q + 1])
        BY <4>1, OfAppend
      <4> QED
        BY <2>3, <4>1, <4>2 DEF q, x
    <3>2. Stretch(pos - 1, pos - 1) = <<>>
      BY <1>2, OwnEdge
    <3>3. Of(bytes, <<>>) = <<>> /\ <<>> \in Seq(Nat)
      BY EmptySeq DEF Of
    <3>4. Fill(Append(<<>>, x)) = Fill(<<>>) + x + Slot
      BY <1>3, <3>3, FillAppend
    <3>5. Of(bytes, cur') = Append(<<>>, x)
      BY <3>1, <3>2, <3>3, Zenon
    <3>6. Fill(Of(bytes, cur')) = EmptyNode + x + Slot
      BY <3>4, <3>5, FillEmpty, Zenon
    <3> QED
      BY <1>3, <1>6, <3>6
  <2>5. EmptyNode <= used' /\ used' <= NodeSize
    BY <1>3, <1>6 DEF x
  <2>6. \A i \in DOMAIN nodes' : Fill(Of(bytes, nodes'[i])) <= NodeSize
    <3>1. nodes \in Seq(Seq(Nat)) /\ DOMAIN nodes = 1 .. Len(nodes) /\ Len(nodes) \in Nat
      BY <1>1, <1>2, TilesEdges
    <3>2. /\ DOMAIN nodes' = 1 .. Len(nodes) + 1 /\ nodes'[Len(nodes) + 1] = cur
          /\ \A i \in 1 .. Len(nodes) : nodes'[i] = nodes[i]
      <4>1. /\ Append(nodes, cur) \in Seq(Seq(Nat)) /\ Len(Append(nodes, cur)) = Len(nodes) + 1
            /\ \A i \in 1 .. Len(nodes) : Append(nodes, cur)[i] = nodes[i]
            /\ Append(nodes, cur)[Len(nodes) + 1] = cur
        BY <1>2, <3>1, AppendProperties
      <4> QED
        BY <1>6, <4>1, LenProperties
    <3>3. ASSUME NEW i \in 1 .. Len(nodes) + 1 PROVE i \in 1 .. Len(nodes) \/ i = Len(nodes) + 1
      BY <3>1
    <3> QED
      BY <1>1, <3>1, <3>2, <3>3
  <2>7. pos' \in 1 .. Len(bytes) + 1 /\ pos' - 1 = pos /\ pos' - 1 - Len(cur') = pos - 1
    <3>1. Len(cur') = 1
      BY <2>3
    <3> QED
      BY <1>1, <1>2, <1>3, <1>5, <3>1
  <2> QED
    BY <1>2, <2>2, <2>3, <2>4, <2>5, <2>6, <2>7 DEF PackedTo
<1>7. CASE /\ ~(used + (x + Slot) > NodeSize /\ cur # <<>>)
           /\ cur' = Append(cur, pos) /\ used' = used + (x + Slot) /\ nodes' = nodes
  <2>1. cur' = Stretch(m, pos) /\ Len(cur') = pos - m
    <3>1. Append(Stretch(m, pos - 1), (pos - 1) + 1) = Stretch(m, (pos - 1) + 1)
      BY <1>1, <1>2, StretchGrows
    <3>2. Len(Stretch(m, pos)) = pos - m
      BY <1>1, <1>2, StretchIs
    <3> QED
      BY <1>1, <1>2, <1>7, <3>1, <3>2
  <2>2. used' = Fill(Of(bytes, cur'))
    <3>1. Of(bytes, Stretch(m, (pos - 1) + 1)) = Append(Of(bytes, Stretch(m, pos - 1)), bytes[(pos - 1) + 1])
      <4>1. pos - 1 < Len(bytes)
        BY <1>2, <1>3
      <4> QED
        BY <1>1, <1>2, <4>1, OfAppend
    <3>2. Of(bytes, cur') = Append(o, x)
      BY <1>1, <1>2, <2>1, <3>1 DEF x
    <3>3. Fill(Append(o, x)) = Fill(o) + x + Slot
      BY <1>3, <1>4, FillAppend
    <3> HIDE DEF o
    <3> QED
      BY <1>3, <1>4, <1>7, <3>2, <3>3
  <2>3. EmptyNode <= used' /\ used' <= NodeSize
    <3>1. CASE cur = <<>>
      <4>1. used = EmptyNode
        <5>1. Of(bytes, <<>>) = <<>>
          BY EmptySeq DEF Of
        <5> QED
          BY <1>1, <3>1, <5>1, FillEmpty
      <4> QED
        BY <1>3, <1>7, <4>1 DEF x
    <3>2. CASE cur # <<>>
      <4>1. used \in Nat /\ EmptyNode <= used /\ ~(used + (x + Slot) > NodeSize)
        BY <1>1, <1>4, <1>7, <3>2
      <4>2. used' = used + (x + Slot)
        BY <1>7
      <4> QED
        BY <1>3, <4>1, <4>2
    <3> QED
      BY <3>1, <3>2
  <2>4. pos' \in 1 .. Len(bytes) + 1 /\ pos' - 1 = pos /\ pos' - 1 - Len(cur') = m
    BY <1>1, <1>2, <1>3, <1>5, <2>1
  <2>5. /\ Tiles(nodes', m)
        /\ \A i \in DOMAIN nodes' : Fill(Of(bytes, nodes'[i])) <= NodeSize
    BY <1>1, <1>7
  <2> QED
    BY <1>1, <2>1, <2>2, <2>3, <2>4, <2>5 DEF PackedTo
<1> QED
  BY <1>6, <1>7 DEF Put, Closes, x

\* When the items are used up, the last node is closed.
LEMMA ClosedTiles ==
    ASSUME NEW bytes \in Seq(Nat), PackedTo(nodes, cur, pos, used, bytes), pos > Len(bytes)
    PROVE  /\ Tiles(Closed, Len(bytes))
           /\ \A i \in DOMAIN Closed : Fill(Of(bytes, Closed[i])) <= NodeSize
<1> DEFINE m == pos - 1 - Len(cur)
<1>1. /\ pos \in 1 .. Len(bytes) + 1 /\ m \in Nat /\ Tiles(nodes, m) /\ cur = Stretch(m, pos - 1)
      /\ used = Fill(Of(bytes, cur)) /\ used <= NodeSize
      /\ \A i \in DOMAIN nodes : Fill(Of(bytes, nodes[i])) <= NodeSize
      /\ Len(bytes) \in Nat
  BY LenProperties DEF PackedTo
<1>2. pos - 1 = Len(bytes)
  BY <1>1
<1>3. Len(cur) \in Nat
  <2>1. cur = [j \in 1 .. (pos - 1) - m |-> m + j]
    BY <1>1 DEF Stretch
  <2>2. (pos - 1) - m \in Nat \/ (pos - 1) - m \in Int \ Nat
    BY <1>1
  <2> QED
    BY <2>1, <2>2
<1>4. m <= Len(bytes) /\ cur = Stretch(m, Len(bytes))
  BY <1>1, <1>2, <1>3
<1>5. nodes \in Seq(Seq(Nat)) /\ DOMAIN nodes = 1 .. Len(nodes) /\ Len(nodes) \in Nat
  BY <1>1, TilesEdges
<1> HIDE DEF m
<1>6. CASE cur = <<>>
  <2>1. m = Len(bytes)
    BY <1>1, <1>4, <1>6, OwnEdge
  <2> QED
    BY <1>1, <1>6, <2>1 DEF Closed
<1>7. CASE cur # <<>>
  <2>1. m < Len(bytes)
    BY <1>1, <1>4, <1>7, OwnEdge
  <2>2. Tiles(Append(nodes, cur), Len(bytes))
    BY <1>1, <1>4, <2>1, TilesAppend
  <2>3. cur \in Seq(Nat)
    BY <1>1, <1>4, StretchIs
  <2>4. /\ Append(nodes, cur) \in Seq(Seq(Nat)) /\ Len(Append(nodes, cur)) = Len(nodes) + 1
        /\ \A i \in 1 .. Len(nodes) : Append(nodes, cur)[i] = nodes[i]
        /\ Append(nodes, cur)[Len(nodes) + 1] = cur
    BY <1>5, <2>3, AppendProperties
  <2>5. DOMAIN Append(nodes, cur) = 1 .. Len(nodes) + 1
    BY <2>4, LenProperties
  <2>6. ASSUME NEW i \in 1 .. Len(nodes) + 1 PROVE i \in 1 .. Len(nodes) \/ i = Len(nodes) + 1
    BY <1>5
  <2>7. \A i \in DOMAIN Append(nodes, cur) : Fill(Of(bytes, Append(nodes, cur)[i])) <= NodeSize
    BY <1>1, <1>5, <2>4, <2>5, <2>6
  <2> QED
    BY <1>7, <2>2, <2>7 DEF Closed
<1> QED
  BY <1>6, <1>7

LEMMA PackedTypes ==
    ASSUME NEW bytes \in Seq(Nat), NEW ns, NEW c, NEW p, NEW u, PackedTo(ns, c, p, u, bytes)
    PROVE  /\ c \in Seq(Nat) /\ ns \in Seq(Seq(Nat))
           /\ \A i \in DOMAIN ns : ns[i] \in Seq(Nat) /\ ns[i] # <<>>
           /\ p \in Nat \ {0} /\ u \in EmptyNode .. NodeSize
<1> DEFINE m == p - 1 - Len(c)
           q == p - 1
<1>1. /\ p \in 1 .. Len(bytes) + 1 /\ m \in Nat /\ Tiles(ns, m) /\ c = Stretch(m, q)
      /\ u = Fill(Of(bytes, c)) /\ EmptyNode <= u /\ u <= NodeSize
      /\ Len(bytes) \in Nat
  BY LenProperties DEF PackedTo
<1>2. ns \in Seq(Seq(Nat)) /\ \A i \in DOMAIN ns : ns[i] \in Seq(Nat) /\ ns[i] # <<>>
  BY <1>1, TilesEdges
<1>3. p \in Nat \ {0} /\ q \in Nat /\ q <= Len(bytes)
  BY <1>1
<1>4. m <= q
  <2>1. c = [j \in 1 .. q - m |-> m + j]
    BY <1>1 DEF Stretch
  <2>2. q - m \in Nat \/ q - m \in Int \ Nat
    BY <1>1, <1>3
  <2>3. Len(c) \in Nat
    BY <2>1, <2>2
  <2> QED
    BY <1>1, <2>3
<1> HIDE DEF m, q
<1>5. c \in Seq(Nat)
  BY <1>1, <1>3, <1>4, StretchIs
<1>6. u \in Nat
  <2>1. Of(bytes, c) \in Seq(Nat)
    BY <1>1, <1>3, <1>4, OfType
  <2> QED
    BY <1>1, <2>1, FillType
<1>7. EmptyNode \in Nat /\ NodeSize \in Nat
  BY BTreeAssumption DEF EmptyNode
<1> QED
  BY <1>1, <1>2, <1>3, <1>5, <1>6, <1>7

----------------------------------------------------------------------------
(* The items a level is packed from.                                       *)

LEMMA KeysAscend ==
    ASSUME RecordsInv, LevelsInv, NEW l \in 1 .. Len(levels) + 1
    PROVE  Ascends(Keys(records, levels, l), Len(records))
<1>1. levels \in Seq([nodes : Seq(Seq(Nat)), firstKey : Seq(Nat)])
  BY DEF LevelsInv
<1>2. Len(levels) \in Nat /\ DOMAIN levels = 1 .. Len(levels)
  BY <1>1, LenProperties
<1>3. CASE l = 1
  <2> DEFINE n == Len(records)
             k == [r \in 1 .. n |-> r]
  <2>1. n \in Nat /\ DOMAIN records = 1 .. n
    BY LenProperties DEF RecordsInv
  <2>2. Keys(records, levels, l) = k
    BY <1>3, <2>1 DEF Keys
  <2> HIDE DEF n
  <2>3. k \in Seq(1 .. n)
    BY <2>1, IsASeq
  <2>4. DOMAIN k = 1 .. n /\ \A r \in 1 .. n : k[r] = r
    OBVIOUS
  <2> HIDE DEF k
  <2>5. /\ n > 0 => k # <<>> /\ k[1] = 1
        /\ \A i, j \in DOMAIN k : i < j => k[i] < k[j]
    BY <2>1, <2>3, <2>4, LenProperties, EmptySeq
  <2>6. Ascends(k, n)
    BY <2>3, <2>5 DEF Ascends
  <2> QED
    BY <2>2, <2>6 DEF n
<1>4. CASE l # 1
  <2>1. l - 1 \in DOMAIN levels
    BY <1>2, <1>4
  <2>2. Ascends(levels[l - 1].firstKey, Len(records))
    BY <2>1 DEF LevelsInv, Packed
  <2> QED
    BY <1>4, <2>2 DEF Keys
<1> QED
  BY <1>3, <1>4

\* An item that a leaf takes is no larger above: a pointer is no longer than the data.
Sized(recs, keys, l) ==
    /\ Bytes(recs, keys, l) \in Seq(Nat) /\ Len(keys) \in Nat
    /\ Len(Bytes(recs, keys, l)) = Len(keys)
    /\ \A c \in 1 .. Len(keys) :
          /\ keys[c] \in DOMAIN recs
          /\ recs[keys[c]].key \in Nat /\ recs[keys[c]].data \in Nat
          /\ recs[keys[c]].data >= Pointer
          /\ Bytes(recs, keys, l)[c] = KeyLength + recs[keys[c]].key
                                        + (IF l = 1 THEN recs[keys[c]].data ELSE Pointer)

LEMMA BytesType ==
    ASSUME NEW recs \in Seq([key : KeySizes, data : DataSizes]), NEW keys,
           Ascends(keys, Len(recs)), NEW l \in Nat
    PROVE  Sized(recs, keys, l)
<1> DEFINE b == Bytes(recs, keys, l)
<1>1. /\ keys \in Seq(1 .. Len(recs)) /\ Len(keys) \in Nat /\ DOMAIN keys = 1 .. Len(keys)
      /\ Len(recs) \in Nat /\ DOMAIN recs = 1 .. Len(recs)
      /\ \A c \in 1 .. Len(keys) : keys[c] \in 1 .. Len(recs)
  BY LenProperties, ElementOfSeq DEF Ascends
<1>2. ASSUME NEW r \in 1 .. Len(recs)
      PROVE  recs[r].key \in Nat /\ recs[r].data \in Nat /\ recs[r].data >= Pointer
  <2>1. recs[r] \in [key : KeySizes, data : DataSizes]
    BY ElementOfSeq
  <2>2. recs[r].key \in KeySizes /\ recs[r].data \in DataSizes
    BY <2>1
  <2> QED
    BY <2>2, BTreeAssumption
<1>3. ASSUME NEW c \in 1 .. Len(keys)
      PROVE  /\ keys[c] \in DOMAIN recs
             /\ recs[keys[c]].key \in Nat /\ recs[keys[c]].data \in Nat
             /\ recs[keys[c]].data >= Pointer
             /\ b[c] = KeyLength + recs[keys[c]].key + (IF l = 1 THEN recs[keys[c]].data ELSE Pointer)
  BY <1>1, <1>2 DEF Bytes
<1>4. ASSUME NEW c \in 1 .. Len(keys) PROVE b[c] \in Nat
  <2>1. KeyLength \in Nat /\ Pointer \in Nat
    BY BTreeAssumption
  <2>2. CASE l = 1
    <3>1. b[c] = KeyLength + recs[keys[c]].key + recs[keys[c]].data
      BY <1>3, <2>2
    <3> QED
      BY <1>3, <2>1, <3>1
  <2>3. CASE l # 1
    <3>1. b[c] = KeyLength + recs[keys[c]].key + Pointer
      BY <1>3, <2>3
    <3> QED
      BY <1>3, <2>1, <3>1
  <2> QED
    BY <2>2, <2>3
<1>5. b = [c \in 1 .. Len(keys) |-> b[c]]
  BY <1>1 DEF Bytes
<1> HIDE DEF b
<1>6. b \in Seq(Nat) /\ Len(b) = Len(keys)
  <2>1. [c \in 1 .. Len(keys) |-> b[c]] \in Seq(Nat)
    BY <1>1, <1>4, IsASeq
  <2> QED
    BY <1>1, <1>5, <2>1, LenProperties
<1> QED
  BY <1>1, <1>3, <1>6 DEF Sized, b

\* What the level being packed is packed from.
Below == Keys(records, levels, Len(levels) + 1)
ItemBytes == Bytes(records, Below, Len(levels) + 1)

LEMMA BelowType ==
    ASSUME RecordsInv, LevelsInv
    PROVE  /\ Ascends(Below, Len(records)) /\ Len(Below) \in Nat
           /\ ItemBytes \in Seq(Nat) /\ Len(ItemBytes) = Len(Below)
           /\ \A c \in 1 .. Len(Below) :
                 /\ Below[c] \in DOMAIN records
                 /\ records[Below[c]].key \in Nat /\ records[Below[c]].data \in Nat
                 /\ records[Below[c]].data >= Pointer
                 /\ ItemBytes[c] = KeyLength + records[Below[c]].key
                             + (IF Len(levels) + 1 = 1 THEN records[Below[c]].data ELSE Pointer)
<1> DEFINE l == Len(levels) + 1
<1>1. Len(levels) \in Nat
  BY LenProperties DEF LevelsInv
<1>2. Ascends(Below, Len(records))
  <2>1. l \in 1 .. Len(levels) + 1
    BY <1>1
  <2> QED
    BY <2>1, KeysAscend DEF Below
<1>3. records \in Seq([key : KeySizes, data : DataSizes]) /\ l \in Nat
  BY <1>1 DEF RecordsInv
<1> DEFINE keys == Below
<1> HIDE DEF l, keys
<1>4. /\ Bytes(records, keys, l) \in Seq(Nat) /\ Len(keys) \in Nat
      /\ Len(Bytes(records, keys, l)) = Len(keys)
      /\ \A c \in 1 .. Len(keys) :
                 /\ keys[c] \in DOMAIN records
                 /\ records[keys[c]].key \in Nat /\ records[keys[c]].data \in Nat
                 /\ records[keys[c]].data >= Pointer
                 /\ Bytes(records, keys, l)[c] = KeyLength + records[keys[c]].key
                             + (IF l = 1 THEN records[keys[c]].data ELSE Pointer)
  <2>1. Ascends(keys, Len(records))
    BY <1>2 DEF keys
  <2>2. Sized(records, keys, l)
    BY <1>3, <2>1, BytesType
  <2> QED
    BY <2>2 DEF Sized
<1> QED
  BY <1>2, <1>4 DEF l, keys, ItemBytes

LEMMA InvParts ==
    BTreeInv <=> /\ BTreeTypeOK /\ RecordsInv /\ LevelsInv /\ PackInv /\ CountInv
                 /\ NumberInv /\ ImageInv
BY DEF BTreeInv

----------------------------------------------------------------------------
(* The invariant, while the levels are packed.                             *)

LEMMA ItemBytesOf ==
    /\ PackInv => (Packing => PackedTo(nodes, cur, pos, used, ItemBytes))
    /\ PackInv' <=> /\ cur' \in Seq(Nat) /\ nodes' \in Seq(Seq(Nat))
                    /\ Packing' => PackedTo(nodes', cur', pos', used', ItemBytes')
BY DEF PackInv, ItemBytes, Below

\* A step of the packing leaves the rest as it is.
LEMMA PackFrame ==
    ASSUME BTreeInv, Packing, pc' \in {pc, "error"},
           UNCHANGED <<records, levels, totalNodes, mapNodes, assigned, nextNode, image, blockSize>>
    PROVE  LevelsInv' /\ CountInv' /\ NumberInv' /\ ImageInv'
<1>1. LevelsInv'
  BY DEF BTreeInv, LevelsInv, Packing, Top
<1>2. CountInv'
  <2>1. totalNodes = 1 /\ mapNodes = 0 /\ assigned = <<>> /\ nextNode = 1
    BY DEF BTreeInv, CountInv, Packing
  <2>2. pc' \in {"leaves", "levels", "error"}
    BY DEF Packing
  <2> QED
    BY <2>1, <2>2 DEF CountInv, Settled
<1>3. NumberInv'
  <2>1. assigned = <<>> /\ ~Settled'
    BY DEF BTreeInv, CountInv, Packing, Settled
  <2>2. DOMAIN assigned = {}
    BY <2>1
  <2> QED
    BY <2>1, <2>2 DEF BTreeInv, NumberInv
<1>4. ImageInv'
  BY DEF BTreeInv, ImageInv, Packing
<1> QED
  BY <1>1, <1>2, <1>3, <1>4

LEMMA PackTypeOK ==
    ASSUME BTreeInv, Packing, pc' \in {pc, "error"},
           UNCHANGED <<records, levels, totalNodes, mapNodes, assigned, nextNode, image, blockSize>>,
           /\ cur' \in Seq(Nat) /\ pos' \in Nat \ {0} /\ used' \in EmptyNode .. NodeSize
           /\ \A i \in DOMAIN nodes' : nodes'[i] \in Seq(Nat) /\ nodes'[i] # <<>>
    PROVE  BTreeTypeOK'
BY DEF BTreeInv, BTreeTypeOK, Packing, EmptyNode

LEMMA PackLeafStep == BTreeInv /\ PackLeaf => BTreeInv'
<1> SUFFICES ASSUME BTreeInv, PackLeaf PROVE BTreeInv'
  OBVIOUS
<1>1. /\ BTreeTypeOK /\ RecordsInv /\ LevelsInv /\ PackInv
      /\ pc = "leaves" /\ Packing
      /\ UNCHANGED <<records, levels, totalNodes, mapNodes, assigned, nextNode, image, blockSize>>
      /\ pos <= Len(records)
  BY DEF BTreeInv, PackLeaf, Packing
<1>2. CASE LeafSize(pos) + EmptyNode > NodeSize /\ pc' = "error" /\ UNCHANGED <<pos, cur, used, nodes>>
  <2>1. LevelsInv' /\ CountInv' /\ NumberInv' /\ ImageInv'
    BY <1>1, <1>2, PackFrame
  <2>2. BTreeTypeOK'
    BY <1>1, <1>2 DEF BTreeTypeOK, EmptyNode
  <2>3. RecordsInv'
    BY <1>1, <1>2 DEF RecordsInv
  <2>4. PackInv'
    BY <1>1, <1>2 DEF PackInv, Packing
  <2> QED
    BY <2>1, <2>2, <2>3, <2>4 DEF BTreeInv
<1>3. CASE LeafSize(pos) + EmptyNode <= NodeSize /\ Put(LeafSize(pos)) /\ pc' = pc
  <2>1. levels = <<>>
    BY <1>1 DEF LevelsInv
  <2>2. /\ Len(levels) + 1 = 1 /\ Below = [r \in DOMAIN records |-> r]
    <3>1. Len(levels) + 1 = 1
      BY <2>1
    <3> QED
      BY <3>1 DEF Below, Keys
  <2>3. PackedTo(nodes, cur, pos, used, ItemBytes)
    BY <1>1, ItemBytesOf
  <2>4. /\ ItemBytes \in Seq(Nat) /\ Len(ItemBytes) = Len(Below)
        /\ \A c \in 1 .. Len(Below) :
                 /\ Below[c] \in DOMAIN records
                 /\ records[Below[c]].key \in Nat /\ records[Below[c]].data \in Nat
                 /\ ItemBytes[c] = KeyLength + records[Below[c]].key
                             + (IF Len(levels) + 1 = 1 THEN records[Below[c]].data ELSE Pointer)
    BY <1>1, BelowType
  <2>5. Len(Below) = Len(records) /\ DOMAIN records = 1 .. Len(records) /\ Len(records) \in Nat
    <3>1. DOMAIN records = 1 .. Len(records) /\ Len(records) \in Nat
      BY <1>1, LenProperties DEF RecordsInv
    <3> QED
      BY <2>2, <3>1
  <2>6. pos \in Nat \ {0} /\ pos \in 1 .. Len(records)
    BY <1>1, <2>5 DEF BTreeTypeOK
  <2>7. LeafSize(pos) = ItemBytes[pos] + Slot /\ ItemBytes[pos] \in Nat
    <3>1. Below[pos] = pos
      BY <2>2, <2>5, <2>6
    <3>2. KeyLength \in Nat /\ Slot \in Nat
      BY BTreeAssumption
    <3>3. /\ ItemBytes[pos] = KeyLength + records[pos].key + records[pos].data
          /\ records[pos].key \in Nat /\ records[pos].data \in Nat
      BY <2>2, <2>4, <2>5, <2>6, <3>1
    <3> QED
      BY <3>2, <3>3 DEF LeafSize
  <2>8. PackedTo(nodes', cur', pos', used', ItemBytes)
    <3>1. Put(ItemBytes[pos] + Slot) /\ ItemBytes[pos] + Slot + EmptyNode <= NodeSize
      BY <1>3, <2>7
    <3>2. pos <= Len(ItemBytes)
      BY <1>1, <2>4, <2>5
    <3> QED
      BY <2>3, <2>4, <3>1, <3>2, PutPacks
  <2>9. ItemBytes' = ItemBytes
    BY <1>1 DEF ItemBytes, Below
  <2>10. /\ cur' \in Seq(Nat) /\ nodes' \in Seq(Seq(Nat))
         /\ \A i \in DOMAIN nodes' : nodes'[i] \in Seq(Nat) /\ nodes'[i] # <<>>
         /\ pos' \in Nat \ {0} /\ used' \in EmptyNode .. NodeSize
    BY <2>4, <2>8, PackedTypes
  <2>11. PackInv'
    BY <2>8, <2>9, <2>10, ItemBytesOf
  <2>12. LevelsInv' /\ CountInv' /\ NumberInv' /\ ImageInv'
    BY <1>1, <1>3, PackFrame
  <2>13. BTreeTypeOK'
    BY <1>1, <1>3, <2>10, PackTypeOK
  <2>14. RecordsInv'
    <3>1. pos' = pos + 1
      BY <1>3 DEF Put
    <3>2. \A r \in DOMAIN records : r >= pos /\ ~(r >= pos + 1) => r = pos
      BY <2>5, <2>6
    <3>3. \A r \in DOMAIN records : LeafSize(r)' = LeafSize(r)
      BY <1>1 DEF LeafSize
    <3>4. \A r \in DOMAIN records :
            LeafSize(r) + EmptyNode <= NodeSize \/ (pc = "leaves" /\ r >= pos) \/ pc = "error"
      BY <1>1 DEF RecordsInv
    <3>5. ASSUME NEW r \in DOMAIN records
          PROVE LeafSize(r)' + EmptyNode <= NodeSize \/ (pc' = "leaves" /\ r >= pos') \/ pc' = "error"
      BY <1>1, <1>3, <3>1, <3>2, <3>3, <3>4
    <3> QED
      BY <1>1, <3>5 DEF RecordsInv, EmptyNode
  <2> QED
    BY <2>11, <2>12, <2>13, <2>14 DEF BTreeInv
<1> QED
  BY <1>2, <1>3 DEF PackLeaf

LEMMA PackIndexStep == BTreeInv /\ PackIndex => BTreeInv'
<1> SUFFICES ASSUME BTreeInv, PackIndex PROVE BTreeInv'
  OBVIOUS
<1>1. /\ BTreeTypeOK /\ RecordsInv /\ LevelsInv /\ PackInv
      /\ pc = "levels" /\ Packing /\ pc' = pc
      /\ UNCHANGED <<records, levels, totalNodes, mapNodes, assigned, nextNode, image, blockSize>>
      /\ pos <= Len(Top.firstKey) /\ Put(IndexSize(Top.firstKey[pos]))
  BY DEF BTreeInv, PackIndex, Packing
<1>2. Len(levels) \in Nat \ {0}
  <2>1. levels # <<>> /\ levels \in Seq([nodes : Seq(Seq(Nat)), firstKey : Seq(Nat)])
    BY <1>1 DEF LevelsInv
  <2> QED
    BY <2>1, EmptySeq, LenProperties
<1>3. Below = Top.firstKey /\ Len(levels) + 1 # 1
  BY <1>2 DEF Below, Keys, Top
<1>4. PackedTo(nodes, cur, pos, used, ItemBytes)
  BY <1>1, ItemBytesOf
<1>5. /\ ItemBytes \in Seq(Nat) /\ Len(ItemBytes) = Len(Below) /\ Len(Below) \in Nat
      /\ \A c \in 1 .. Len(Below) :
                 /\ Below[c] \in DOMAIN records
                 /\ records[Below[c]].key \in Nat /\ records[Below[c]].data \in Nat
                 /\ records[Below[c]].data >= Pointer
                 /\ ItemBytes[c] = KeyLength + records[Below[c]].key
                             + (IF Len(levels) + 1 = 1 THEN records[Below[c]].data ELSE Pointer)
  BY <1>1, BelowType
<1>6. pos \in 1 .. Len(Below)
  BY <1>1, <1>3, <1>5 DEF BTreeTypeOK
<1>7. /\ IndexSize(Top.firstKey[pos]) = ItemBytes[pos] + Slot /\ ItemBytes[pos] \in Nat
      /\ ItemBytes[pos] + Slot + EmptyNode <= NodeSize
  <2> DEFINE r == Below[pos]
  <2>1. /\ r \in DOMAIN records /\ records[r].key \in Nat /\ records[r].data \in Nat
        /\ records[r].data >= Pointer
        /\ ItemBytes[pos] = KeyLength + records[r].key + Pointer
    BY <1>3, <1>5, <1>6
  <2>2. LeafSize(r) + EmptyNode <= NodeSize
    BY <1>1, <2>1 DEF RecordsInv
  <2>3. KeyLength \in Nat /\ Slot \in Nat /\ Pointer \in Nat /\ Descriptor \in Nat /\ NodeSize \in Nat
    BY BTreeAssumption
  <2> HIDE DEF r
  <2>4. ItemBytes[pos] + Slot + EmptyNode <= NodeSize /\ ItemBytes[pos] \in Nat
    BY <2>1, <2>2, <2>3 DEF LeafSize, EmptyNode
  <2>5. IndexSize(r) = ItemBytes[pos] + Slot
    BY <2>1, <2>3 DEF IndexSize
  <2> QED
    BY <1>3, <2>4, <2>5 DEF r
<1>8. PackedTo(nodes', cur', pos', used', ItemBytes)
  <2>1. Put(ItemBytes[pos] + Slot)
    BY <1>1, <1>7
  <2>2. pos <= Len(ItemBytes)
    BY <1>1, <1>3, <1>5
  <2> QED
    BY <1>4, <1>5, <1>7, <2>1, <2>2, PutPacks
<1>9. ItemBytes' = ItemBytes
  BY <1>1 DEF ItemBytes, Below
<1>10. /\ cur' \in Seq(Nat) /\ nodes' \in Seq(Seq(Nat))
       /\ \A i \in DOMAIN nodes' : nodes'[i] \in Seq(Nat) /\ nodes'[i] # <<>>
       /\ pos' \in Nat \ {0} /\ used' \in EmptyNode .. NodeSize
  BY <1>5, <1>8, PackedTypes
<1>11. PackInv'
  BY <1>8, <1>9, <1>10, ItemBytesOf
<1>12. LevelsInv' /\ CountInv' /\ NumberInv' /\ ImageInv'
  BY <1>1, PackFrame
<1>13. BTreeTypeOK'
  BY <1>1, <1>10, PackTypeOK
<1>14. RecordsInv'
  BY <1>1 DEF RecordsInv, LeafSize, EmptyNode
<1> QED
  BY <1>11, <1>12, <1>13, <1>14 DEF BTreeInv

Levels == Seq([nodes : Seq(Seq(Nat)), firstKey : Seq(Nat)])

LEMMA LevelsType ==
    ASSUME LevelsInv
    PROVE  /\ levels \in Levels /\ Len(levels) \in Nat /\ DOMAIN levels = 1 .. Len(levels)
           /\ \A l \in 1 .. Len(levels) :
                 /\ Packed(levels[l], records, Keys(records, levels, l), l)
                 /\ levels[l] \in [nodes : Seq(Seq(Nat)), firstKey : Seq(Nat)]
BY LenProperties, ElementOfSeq DEF LevelsInv, Levels

\* What closing a level adds.
LEMMA LevelAdded ==
    ASSUME RecordsInv, LevelsInv, PackedTo(nodes, cur, pos, used, ItemBytes), pos > Len(Below),
           Len(Closed) + Len(levels) <= Len(records), records # <<>>,
           NEW lv, lv = [nodes |-> Closed, firstKey |-> [i \in DOMAIN Closed |-> Below[Closed[i][1]]]]
    PROVE  LET l == Len(levels) + 1
               lvs == Append(levels, lv)
           IN  /\ lvs \in Levels /\ Len(lvs) = l /\ DOMAIN lvs = 1 .. l /\ lvs[l] = lv
               /\ \A k \in 1 .. Len(levels) : lvs[k] = levels[k]
               /\ Len(lv.firstKey) = Len(lv.nodes) /\ Len(lv.nodes) \in Nat \ {0}
               /\ \A k \in 1 .. l : Packed(lvs[k], records, Keys(records, lvs, k), k)
               /\ PackedTo(<<>>, <<>>, 1, EmptyNode, Bytes(records, Keys(records, lvs, l + 1), l + 1))
<1> DEFINE l == Len(levels) + 1
           lvs == Append(levels, lv)
           n == Len(records)
<1>1. /\ levels \in Levels /\ Len(levels) \in Nat /\ DOMAIN levels = 1 .. Len(levels)
      /\ \A k \in 1 .. Len(levels) : Packed(levels[k], records, Keys(records, levels, k), k)
  BY LevelsType
<1>2. /\ Ascends(Below, n) /\ Len(Below) \in Nat
      /\ ItemBytes \in Seq(Nat) /\ Len(ItemBytes) = Len(Below)
  BY BelowType
<1>3. records \in Seq([key : KeySizes, data : DataSizes]) /\ n \in Nat \ {0}
  <2>1. records \in Seq([key : KeySizes, data : DataSizes])
    BY DEF RecordsInv
  <2> QED
    BY <2>1, LenProperties, EmptySeq
<1>4. /\ Tiles(Closed, Len(Below))
      /\ \A i \in DOMAIN Closed : Fill(Of(ItemBytes, Closed[i])) <= NodeSize
  <2>1. Tiles(Closed, Len(ItemBytes))
    BY <1>2, ClosedTiles
  <2>2. \A i \in DOMAIN Closed : Fill(Of(ItemBytes, Closed[i])) <= NodeSize
    BY <1>2, ClosedTiles
  <2> QED
    BY <1>2, <2>1, <2>2
<1> DEFINE ns == Closed
           first == [i \in DOMAIN ns |-> Below[ns[i][1]]]
           b == Below
<1>5. lv.nodes = ns /\ lv.firstKey = first
  OBVIOUS
<1> HIDE DEF ns
<1>6. /\ Ascends(first, n) /\ Len(first) = Len(ns) /\ first \in Seq(Nat)
  <2> HIDE DEF n
  <2>1. Ascends(b, n) /\ Tiles(ns, Len(b)) /\ n \in Nat
    BY <1>2, <1>3, <1>4 DEF ns
  <2> HIDE DEF b
  <2>2. [i \in DOMAIN ns |-> b[ns[i][1]]] = first
    BY DEF b
  <2> HIDE DEF first
  <2> QED
    BY <2>1, <2>2, FirstAscend
<1>7. ns \in Seq(Seq(Nat)) /\ Len(ns) \in Nat
  BY <1>4, TilesEdges DEF ns
<1> HIDE DEF first
<1>8. first # <<>> /\ Len(ns) # 0
  <2>1. first # <<>>
    BY <1>3, <1>6 DEF Ascends
  <2> QED
    BY <1>6, <2>1, EmptySeq
<1>9. lv \in [nodes : Seq(Seq(Nat)), firstKey : Seq(Nat)]
  BY <1>5, <1>6, <1>7
<1>10. /\ lvs \in Levels /\ Len(lvs) = l /\ DOMAIN lvs = 1 .. l /\ lvs[l] = lv
       /\ \A k \in 1 .. Len(levels) : lvs[k] = levels[k]
  BY <1>1, <1>9, AppendProperties, LenProperties DEF Levels
<1> HIDE DEF lvs
<1>11. ASSUME NEW k \in 1 .. l PROVE Keys(records, lvs, k) = Keys(records, levels, k)
  <2>1. k = 1 \/ (k # 1 /\ k - 1 \in 1 .. Len(levels))
    BY <1>1
  <2> QED
    BY <1>10, <2>1 DEF Keys
<1>12. Packed(lv, records, Below, l)
  <2>1. ItemBytes = Bytes(records, Below, l)
    BY DEF ItemBytes
  <2>2. Len(ns) + l <= n + 1
    BY <1>1, <1>3, <1>7 DEF ns
  <2>3. Tiles(ns, Len(Below)) /\ \A i \in DOMAIN ns : Fill(Of(ItemBytes, ns[i])) <= NodeSize
    BY <1>4 DEF ns
  <2> HIDE DEF l
  <2> QED
    BY <1>5, <1>6, <2>1, <2>2, <2>3 DEF Packed, first
<1>13. ASSUME NEW k \in 1 .. l PROVE Packed(lvs[k], records, Keys(records, lvs, k), k)
  <2>1. CASE k = l
    <3>1. Keys(records, lvs, k) = Below /\ lvs[k] = lv
      BY <1>10, <1>11, <2>1 DEF Below
    <3> QED
      BY <1>12, <2>1, <3>1
  <2>2. CASE k # l
    <3>1. k \in 1 .. Len(levels)
      BY <1>1, <2>2
    <3> QED
      BY <1>1, <1>10, <1>11, <3>1
  <2> QED
    BY <2>1, <2>2
<1>14. Keys(records, lvs, l + 1) = first
  BY <1>1, <1>5, <1>10 DEF Keys
<1>15. PackedTo(<<>>, <<>>, 1, EmptyNode, Bytes(records, Keys(records, lvs, l + 1), l + 1))
  <2> DEFINE m == l + 1
  <2>1. m \in Nat
    BY <1>1
  <2> HIDE DEF m
  <2>2. Bytes(records, first, m) \in Seq(Nat)
    BY <1>3, <1>6, <2>1, BytesType DEF Sized
  <2>3. PackedTo(<<>>, <<>>, 1, EmptyNode, Bytes(records, first, m))
    BY <2>2, PackedNothing
  <2> QED
    BY <1>14, <2>3 DEF m
<1> HIDE DEF l
<1> QED
  BY <1>5, <1>6, <1>7, <1>8, <1>10, <1>13, <1>15 DEF l, lvs

----------------------------------------------------------------------------
(* The counts.                                                             *)

LEMMA CountedSteps ==
    ASSUME NEW lvs \in Levels
    PROVE  /\ Counted(Widths(lvs)) \in [0 .. Len(lvs) -> Nat]
           /\ Len(lvs) \in Nat /\ DOMAIN lvs = 1 .. Len(lvs)
           /\ Counted(Widths(lvs))[0] = 1
           /\ \A l \in 1 .. Len(lvs) :
                 /\ Len(lvs[l].nodes) \in Nat
                 /\ Counted(Widths(lvs))[l] = Counted(Widths(lvs))[l - 1] + Len(lvs[l].nodes)
<1>1. Len(lvs) \in Nat /\ DOMAIN lvs = 1 .. Len(lvs)
  BY LenProperties DEF Levels
<1>2. ASSUME NEW l \in 1 .. Len(lvs) PROVE Len(lvs[l].nodes) \in Nat
  <2>1. lvs[l] \in [nodes : Seq(Seq(Nat)), firstKey : Seq(Nat)]
    BY ElementOfSeq DEF Levels
  <2>2. lvs[l].nodes \in Seq(Seq(Nat))
    BY <2>1
  <2> QED
    BY <2>2, LenProperties
<1> DEFINE w == Widths(lvs)
<1>3. w = [l \in 1 .. Len(lvs) |-> Len(lvs[l].nodes)]
  BY <1>1 DEF Widths
<1>4. w \in Seq(Nat) /\ Len(w) = Len(lvs) /\ \A l \in 1 .. Len(lvs) : w[l] = Len(lvs[l].nodes)
  <2>1. [l \in 1 .. Len(lvs) |-> Len(lvs[l].nodes)] \in Seq(Nat)
    BY <1>1, <1>2, IsASeq
  <2> HIDE DEF w
  <2> QED
    BY <1>1, <1>3, <2>1, LenProperties
<1> HIDE DEF w
<1> DEFINE end[i \in 0 .. Len(w)] == IF i = 0 THEN 1 ELSE end[i - 1] + w[i]
<1>5. /\ end \in [0 .. Len(w) -> Nat]
      /\ end[0] = 1
      /\ \A i \in 1 .. Len(w) : end[i] = end[i - 1] + w[i]
  <2>1. 1 \in Nat
    OBVIOUS
  <2> QED
    BY <1>4, <2>1, PartialSums
<1>6. Counted(w) = end
  BY Zenon DEF Counted
<1> HIDE DEF end
<1> QED
  BY <1>1, <1>2, <1>4, <1>5, <1>6 DEF w

LEMMA CountedGrows ==
    ASSUME NEW lvs \in Levels
    PROVE  /\ \A i \in 0 .. Len(lvs) : Counted(Widths(lvs))[i] \in Nat \ {0}
           /\ \A i, j \in 0 .. Len(lvs) :
                 i <= j => Counted(Widths(lvs))[i] <= Counted(Widths(lvs))[j]
<1> DEFINE c == Counted(Widths(lvs))
           n == Len(lvs)
<1>1. /\ c \in [0 .. n -> Nat] /\ c[0] = 1 /\ n \in Nat
      /\ \A l \in 1 .. n : c[l] = c[l - 1] + Len(lvs[l].nodes) /\ Len(lvs[l].nodes) \in Nat
  BY CountedSteps
<1> HIDE DEF c, n
<1>2. ASSUME NEW l \in 1 .. n PROVE c[l - 1] <= c[l]
  <2>1. l - 1 \in 0 .. n
    BY <1>1
  <2>2. c[l - 1] \in Nat
    BY <1>1, <2>1
  <2>3. c[l] = c[l - 1] + Len(lvs[l].nodes) /\ Len(lvs[l].nodes) \in Nat
    BY <1>1
  <2> DEFINE x == Len(lvs[l].nodes)
  <2> HIDE DEF x
  <2>4. c[l] = c[l - 1] + x /\ x \in Nat
    BY <2>3 DEF x
  <2> QED
    BY <2>2, <2>4
<1>3. \A i, j \in 0 .. n : i <= j => c[i] <= c[j]
  BY <1>1, <1>2, StepsMonotone
<1>4. ASSUME NEW i \in 0 .. n PROVE c[i] \in Nat \ {0}
  <2>1. 0 \in 0 .. n /\ 0 <= i
    BY <1>1
  <2>2. c[0] <= c[i] /\ c[i] \in Nat
    BY <1>1, <1>3, <2>1
  <2> QED
    BY <1>1, <2>2
<1> QED
  BY <1>3, <1>4 DEF c, n

LEMMA SumEmpty == Counted(Widths(<<>>))[0] = 1 /\ TreeNodes(<<>>) = 1
<1> DEFINE e == <<>>
<1>1. e \in Levels /\ Len(e) = 0
  BY EmptySeq DEF Levels
<1> HIDE DEF e
<1>2. Counted(Widths(e))[0] = 1
  BY <1>1, CountedSteps
<1>3. TreeNodes(e) = 1
  BY <1>1, <1>2, Zenon DEF TreeNodes
<1> QED
  BY <1>2, <1>3 DEF e

\* There is room for a bit in the header node and in each map node.
LEMMA CoverageType ==
    /\ mapBitsInHeaderNode \in Nat \ {0} /\ mapBitsInMapNode \in Nat \ {0}
    /\ HeaderMap = mapBitsInHeaderNode /\ MapNodeMap = mapBitsInMapNode
    /\ \A n \in Nat : /\ Coverage(n) \in Nat \ {0} /\ Coverage(n + 1) = Coverage(n) + mapBitsInMapNode
                      /\ n * mapBitsInMapNode \in Nat
<1>1. /\ NodeSize \in Nat /\ Descriptor \in Nat /\ HeaderRecords \in Nat
      /\ Slot \in Nat \ {0} /\ ByteBits \in Nat \ {0}
      /\ NodeSize > Descriptor + HeaderRecords + 4 * Slot
  BY BTreeAssumption
<1> DEFINE h == NodeSize - Descriptor - 4 * Slot - HeaderRecords
           k == NodeSize - Descriptor - 2 * Slot
<1>2. h \in Nat \ {0} /\ k \in Nat \ {0}
  BY <1>1
<1>3. NodeSize - 4 * Slot - (Descriptor + HeaderRecords) = h /\ NodeSize - 2 * Slot - Descriptor = k
  BY <1>1
<1>4. mapBitsInHeaderNode = h * ByteBits /\ mapBitsInMapNode = k * ByteBits
  BY DEF mapBitsInHeaderNode, mapBitsInMapNode
<1>5. HeaderMap = mapBitsInHeaderNode /\ MapNodeMap = mapBitsInMapNode
  BY <1>3, <1>4, Zenon DEF HeaderMap, MapNodeMap
<1> HIDE DEF h, k
<1>6. \A a, b \in Nat \ {0} : a * b \in Nat \ {0}
  OBVIOUS
<1>7. mapBitsInHeaderNode \in Nat \ {0} /\ mapBitsInMapNode \in Nat \ {0}
  BY <1>1, <1>2, <1>4, <1>6
<1> DEFINE p == mapBitsInMapNode
           q == mapBitsInHeaderNode
<1>8. p \in Nat \ {0} /\ q \in Nat \ {0} /\ \A n : Coverage(n) = q + n * p
  BY <1>7 DEF Coverage
<1> HIDE DEF p, q
<1>9. \A n \in Nat : n * p \in Nat /\ (n + 1) * p = n * p + p
  BY <1>8
<1>10. \A n \in Nat : Coverage(n) \in Nat \ {0} /\ Coverage(n + 1) = Coverage(n) + p
  <2> TAKE n \in Nat
  <2>1. Coverage(n) = q + n * p /\ Coverage(n + 1) = q + (n + 1) * p
    BY <1>8
  <2> DEFINE x == n * p
  <2>2. x \in Nat /\ Coverage(n) = q + x /\ Coverage(n + 1) = q + (x + p)
    BY <1>9, <2>1
  <2> HIDE DEF x
  <2> QED
    BY <1>8, <2>2
<1> QED
  BY <1>5, <1>7, <1>9, <1>10 DEF p

LEMMA MapCoverageIs == MapCoverage = Coverage(mapNodes)
BY DEF MapCoverage, Coverage

LEMMA LeavesPackedStep == BTreeInv /\ LeavesPacked => BTreeInv'
<1> SUFFICES ASSUME BTreeInv, LeavesPacked PROVE BTreeInv'
  OBVIOUS
<1>1. /\ BTreeTypeOK /\ RecordsInv /\ LevelsInv /\ PackInv /\ CountInv /\ NumberInv /\ ImageInv
      /\ pc = "leaves" /\ Packing
      /\ UNCHANGED <<records, totalNodes, mapNodes, assigned, nextNode, image, blockSize>>
      /\ pos > Len(records) /\ pos' = 1 /\ cur' = <<>> /\ used' = EmptyNode /\ nodes' = <<>>
  BY DEF BTreeInv, LeavesPacked, Reset, Packing
<1>2. levels = <<>> /\ Len(levels) = 0 /\ Len(levels) + 1 = 1
  BY <1>1 DEF LevelsInv
<1>3. /\ totalNodes = 1 /\ mapNodes = 0 /\ assigned = <<>> /\ nextNode = 1 /\ image = <<>>
      /\ DOMAIN assigned = {}
  BY <1>1 DEF CountInv, ImageInv, Packing
<1>4. EmptyNode \in Nat /\ NodeSize \in Nat /\ EmptyNode <= NodeSize
  BY BTreeAssumption DEF EmptyNode
<1>5. /\ cur' \in Seq(Nat) /\ nodes' \in Seq(Seq(Nat)) /\ DOMAIN nodes' = {}
      /\ pos' \in Nat \ {0} /\ used' \in EmptyNode .. NodeSize
  BY <1>1, <1>4, EmptySeq
<1>6. Below = [r \in DOMAIN records |-> r] /\ DOMAIN records = 1 .. Len(records) /\ Len(records) \in Nat
  <2>1. DOMAIN records = 1 .. Len(records) /\ Len(records) \in Nat
    BY <1>1, LenProperties DEF RecordsInv
  <2> QED
    BY <1>2, <2>1 DEF Below, Keys
<1>7. RecordsInv' /\ \A r \in DOMAIN records : LeafSize(r) + EmptyNode <= NodeSize
  <2>1. \A r \in DOMAIN records : ~(r >= pos)
    BY <1>1, <1>6 DEF BTreeTypeOK
  <2>2. \A r \in DOMAIN records : LeafSize(r) + EmptyNode <= NodeSize
    BY <1>1, <2>1 DEF RecordsInv
  <2>3. \A r \in DOMAIN records : LeafSize(r)' = LeafSize(r)
    BY <1>1 DEF LeafSize
  <2> QED
    BY <1>1, <2>2, <2>3 DEF RecordsInv, EmptyNode
<1>8. CASE records = <<>> /\ pc' = "emitHeader" /\ levels' = levels
  <2>1. BTreeTypeOK'
    BY <1>1, <1>2, <1>3, <1>5, <1>8 DEF BTreeTypeOK, EmptyNode
  <2>2. LevelsInv'
    BY <1>1, <1>2, <1>8 DEF LevelsInv, Packing
  <2>3. PackInv'
    BY <1>5, <1>8 DEF PackInv, Packing
  <2>4. CountInv'
    <3>1. TreeNodes(levels') = 1 /\ MapCoverage' = Coverage(0) /\ Coverage(0) \in Nat \ {0}
      <4>1. MapCoverage' = Coverage(mapNodes)
        BY <1>1 DEF MapCoverage, Coverage
      <4> QED
        BY <1>2, <1>3, <1>8, <4>1, SumEmpty, CoverageType
    <3>2. 0 + 1 <= 1 /\ 1 <= Coverage(0)
      BY <3>1
    <3>3. pc' = "emitHeader" /\ totalNodes' = 1 /\ mapNodes' = 0
      BY <1>1, <1>3, <1>8
    <3> QED
      BY <3>1, <3>2, <3>3 DEF CountInv, Packing, Settled
  <2>5. NumberInv'
    <3>1. Counted(Widths(levels'))[Len(assigned')] = 1
      BY <1>1, <1>2, <1>3, <1>8, SumEmpty
    <3> QED
      BY <1>1, <1>2, <1>3, <1>8, <3>1 DEF NumberInv, Settled
  <2>6. ImageInv'
    BY <1>1, <1>3, <1>8 DEF ImageInv
  <2> QED
    BY <1>7, <2>1, <2>2, <2>3, <2>4, <2>5, <2>6 DEF BTreeInv
<1>9. CASE /\ records # <<>> /\ pc' = "levels"
           /\ levels' = <<[nodes |-> Closed,
                           firstKey |-> [i \in DOMAIN Closed |-> Closed[i][1]]]>>
  <2> DEFINE lv == [nodes |-> Closed, firstKey |-> [i \in DOMAIN Closed |-> Below[Closed[i][1]]]]
             lvs == Append(levels, lv)
  <2>1. PackedTo(nodes, cur, pos, used, ItemBytes)
    BY <1>1, ItemBytesOf
  <2>2. Len(Below) = Len(records) /\ Len(ItemBytes) = Len(Below) /\ ItemBytes \in Seq(Nat)
    <3>1. Len(ItemBytes) = Len(Below) /\ ItemBytes \in Seq(Nat)
      BY <1>1, BelowType
    <3> QED
      BY <1>6, <3>1
  <2>3. Tiles(Closed, Len(records))
    <3>1. pos > Len(ItemBytes)
      BY <1>1, <2>2
    <3>2. Tiles(Closed, Len(ItemBytes))
      BY <2>1, <2>2, <3>1, ClosedTiles
    <3> QED
      BY <2>2, <3>2
  <2>4. levels' = lvs
    <3>1. ASSUME NEW i \in DOMAIN Closed PROVE Below[Closed[i][1]] = Closed[i][1]
      <4>1. Ascends([j \in DOMAIN Closed |-> Below[Closed[j][1]]], Len(records))
        <5>1. Ascends(Below, Len(records)) /\ Tiles(Closed, Len(Below)) /\ Len(records) \in Nat
          BY <1>1, <1>6, <2>2, <2>3, BelowType
        <5> QED
          BY <5>1, FirstAscend
      <4>2. Closed[i][1] \in 1 .. Len(records)
        <5> DEFINE f == Edges(Closed)
        <5>1. /\ Len(Closed) \in Nat /\ DOMAIN Closed = 1 .. Len(Closed)
              /\ f \in [0 .. Len(Closed) -> Nat] /\ f[Len(Closed)] = Len(records)
              /\ \A k, j \in 0 .. Len(Closed) : k <= j => f[k] <= f[j]
              /\ \A k \in 1 .. Len(Closed) :
                    /\ Closed[k] \in Seq(Nat) /\ Closed[k] # <<>> /\ Len(Closed[k]) = f[k] - f[k - 1]
                    /\ \A j \in 1 .. Len(Closed[k]) : Closed[k][j] = f[k - 1] + j
          BY <2>3, TilesEdges
        <5> HIDE DEF f
        <5>2. /\ i \in 1 .. Len(Closed) /\ i - 1 \in 0 .. Len(Closed) /\ i \in 0 .. Len(Closed)
              /\ Len(Closed) \in 0 .. Len(Closed)
          BY <5>1
        <5>3. f[i - 1] \in Nat /\ f[i] \in Nat /\ f[i] <= Len(records)
          BY <5>1, <5>2
        <5>4. Len(Closed[i]) \in Nat \ {0} /\ Len(Closed[i]) = f[i] - f[i - 1]
          <6>1. Closed[i] \in Seq(Nat) /\ Closed[i] # <<>> /\ Len(Closed[i]) = f[i] - f[i - 1]
            BY <5>1, <5>2
          <6> QED
            BY <6>1, LenProperties, EmptySeq
        <5>5. Closed[i][1] = f[i - 1] + 1
          BY <5>1, <5>2, <5>4
        <5> QED
          BY <1>6, <5>3, <5>4, <5>5
      <4> QED
        BY <1>6, <4>2
    <3>2. [i \in DOMAIN Closed |-> Closed[i][1]] = [i \in DOMAIN Closed |-> Below[Closed[i][1]]]
      BY <3>1
    <3>3. lvs = <<lv>>
      BY <1>2
    <3> QED
      BY <1>9, <3>2, <3>3
  <2>5. Len(Closed) + Len(levels) <= Len(records)
    <3>1. Len(Closed) <= Len(records) /\ Len(Closed) \in Nat
      BY <2>3, TilesEdges
    <3> QED
      BY <1>2, <3>1
  <2> DEFINE l == Len(levels) + 1
  <2>6. /\ lvs \in Levels /\ Len(lvs) = l /\ DOMAIN lvs = 1 .. l /\ lvs[l] = lv
        /\ Len(lv.firstKey) = Len(lv.nodes) /\ Len(lv.nodes) \in Nat \ {0}
        /\ \A k \in 1 .. l : Packed(lvs[k], records, Keys(records, lvs, k), k)
        /\ PackedTo(<<>>, <<>>, 1, EmptyNode, Bytes(records, Keys(records, lvs, l + 1), l + 1))
    <3>1. pos > Len(Below)
      BY <1>1, <2>2
    <3>2. lv = [nodes |-> Closed, firstKey |-> [i \in DOMAIN Closed |-> Below[Closed[i][1]]]]
      OBVIOUS
    <3> HIDE DEF lv
    <3> QED
      BY <1>1, <1>9, <2>1, <2>5, <3>1, <3>2, LevelAdded
  <2> HIDE DEF lvs, lv
  <2>7. l = 1 /\ Len(levels') = 1 /\ DOMAIN levels' = {1} /\ levels' \in Levels /\ levels' # <<>>
    <3>1. l = 1
      BY <1>2
    <3>2. Len(lvs) = 1 /\ DOMAIN lvs = {1} /\ lvs \in Levels
      BY <2>6, <3>1
    <3>3. lvs # <<>>
      BY <3>2, EmptySeq
    <3> QED
      BY <2>4, <3>1, <3>2, <3>3
  <2>8. BTreeTypeOK'
    <3>1. Len(records) >= 1
      BY <1>6, <1>9, EmptySeq, <1>1 DEF RecordsInv
    <3>2. \A k \in DOMAIN levels' : Len(levels'[k].firstKey) = Len(levels'[k].nodes)
      BY <2>4, <2>6, <2>7
    <3> QED
      BY <1>1, <1>3, <1>5, <1>9, <2>7, <3>1, <3>2 DEF BTreeTypeOK, EmptyNode
  <2>9. LevelsInv'
    <3>1. \A k \in DOMAIN levels' : Packed(levels'[k], records', Keys(records', levels', k), k)
      BY <1>1, <2>4, <2>6, <2>7
    <3> QED
      BY <1>1, <1>9, <2>7, <3>1 DEF LevelsInv, Packing, Levels
  <2>10. PackInv'
    <3>1. PackedTo(nodes', cur', pos', used', ItemBytes')
      <4>1. ItemBytes' = Bytes(records, Keys(records, lvs, l + 1), l + 1)
        BY <1>1, <2>4, <2>6 DEF ItemBytes, Below
      <4> QED
        BY <1>1, <2>6, <4>1
    <3> QED
      BY <1>5, <3>1, ItemBytesOf
  <2>11. CountInv'
    BY <1>1, <1>3, <1>9 DEF CountInv, Packing, Settled
  <2>12. NumberInv'
    BY <1>1, <1>3, <1>9 DEF NumberInv, Settled
  <2>13. ImageInv'
    BY <1>1, <1>3, <1>9 DEF ImageInv
  <2> QED
    BY <1>7, <2>8, <2>9, <2>10, <2>11, <2>12, <2>13 DEF BTreeInv
<1> QED
  BY <1>8, <1>9 DEF LeavesPacked

LEMMA LevelPackedStep == BTreeInv /\ LevelPacked => BTreeInv'
<1> SUFFICES ASSUME BTreeInv, LevelPacked PROVE BTreeInv'
  OBVIOUS
<1>1. /\ BTreeTypeOK /\ RecordsInv /\ LevelsInv /\ PackInv /\ CountInv /\ NumberInv /\ ImageInv
      /\ pc = "levels" /\ Packing /\ pos > Len(Top.firstKey)
      /\ UNCHANGED <<records, totalNodes, mapNodes, assigned, nextNode, image, blockSize>>
  BY DEF BTreeInv, LevelPacked, Packing
<1>2. /\ totalNodes = 1 /\ mapNodes = 0 /\ assigned = <<>> /\ nextNode = 1 /\ image = <<>>
      /\ DOMAIN assigned = {}
  BY <1>1 DEF CountInv, ImageInv, Packing
<1>3. /\ levels \in Levels /\ Len(levels) \in Nat \ {0} /\ DOMAIN levels = 1 .. Len(levels)
      /\ Len(levels) + 1 # 1 /\ records # <<>>
  <2>1. levels # <<>> /\ records # <<>>
    BY <1>1 DEF LevelsInv
  <2>2. levels \in Levels /\ Len(levels) \in Nat /\ DOMAIN levels = 1 .. Len(levels)
    BY <1>1, LevelsType
  <2>3. Len(levels) # 0
    BY <2>1, <2>2, EmptySeq DEF Levels
  <2> QED
    BY <2>1, <2>2, <2>3
<1>4. Below = Top.firstKey
  BY <1>3 DEF Below, Keys, Top
<1>5. CASE ~Shrinks /\ pc' = "error" /\ UNCHANGED <<pos, cur, used, nodes, levels>>
  <2>1. LevelsInv' /\ CountInv' /\ NumberInv' /\ ImageInv'
    BY <1>1, <1>5, PackFrame
  <2>2. BTreeTypeOK'
    BY <1>1, <1>5 DEF BTreeTypeOK, EmptyNode
  <2>3. RecordsInv'
    BY <1>1, <1>5 DEF RecordsInv
  <2>4. PackInv'
    BY <1>1, <1>5 DEF PackInv, Packing
  <2> QED
    BY <2>1, <2>2, <2>3, <2>4 DEF BTreeInv
<1>6. CASE /\ Shrinks /\ pc' = pc
           /\ pos' = 1 /\ cur' = <<>> /\ used' = EmptyNode /\ nodes' = <<>>
           /\ levels' = Append(levels,
                [nodes |-> Closed,
                 firstKey |-> [i \in DOMAIN Closed |-> Top.firstKey[Closed[i][1]]]])
  <2> DEFINE lv == [nodes |-> Closed, firstKey |-> [i \in DOMAIN Closed |-> Below[Closed[i][1]]]]
             lvs == Append(levels, lv)
             l == Len(levels) + 1
  <2>1. PackedTo(nodes, cur, pos, used, ItemBytes) /\ levels' = lvs
    BY <1>1, <1>4, <1>6, ItemBytesOf
  <2>2. Len(Closed) + Len(levels) <= Len(records)
    <3>1. Packed(Top, records, Keys(records, levels, Len(levels)), Len(levels))
      BY <1>1, <1>3, LevelsType DEF Top
    <3>2. Len(Top.nodes) + Len(levels) <= Len(records) + 1
      BY <3>1 DEF Packed
    <3>3. Len(Top.firstKey) = Len(Top.nodes)
      BY <1>1, <1>3 DEF BTreeTypeOK, Top
    <3>4. Len(Closed) < Len(Top.firstKey)
      BY <1>6 DEF Shrinks
    <3>5. Len(Closed) \in Nat /\ Len(Top.firstKey) \in Nat /\ Len(records) \in Nat
      <4>1. Len(records) \in Nat
        BY <1>1, LenProperties DEF RecordsInv
      <4>2. Len(Top.firstKey) \in Nat /\ Len(ItemBytes) = Len(Below) /\ ItemBytes \in Seq(Nat)
        BY <1>1, <1>4, BelowType
      <4>3. Tiles(Closed, Len(ItemBytes))
        BY <1>1, <1>4, <2>1, <4>2, ClosedTiles
      <4> QED
        BY <4>1, <4>2, <4>3, TilesEdges
    <3> QED
      BY <1>3, <3>2, <3>3, <3>4, <3>5
  <2>3. /\ lvs \in Levels /\ Len(lvs) = l /\ DOMAIN lvs = 1 .. l /\ lvs[l] = lv
        /\ \A k \in 1 .. Len(levels) : lvs[k] = levels[k]
        /\ Len(lv.firstKey) = Len(lv.nodes) /\ Len(lv.nodes) \in Nat \ {0}
        /\ \A k \in 1 .. l : Packed(lvs[k], records, Keys(records, lvs, k), k)
        /\ PackedTo(<<>>, <<>>, 1, EmptyNode, Bytes(records, Keys(records, lvs, l + 1), l + 1))
    <3>1. pos > Len(Below)
      BY <1>1, <1>4
    <3>2. lv = [nodes |-> Closed, firstKey |-> [i \in DOMAIN Closed |-> Below[Closed[i][1]]]]
      OBVIOUS
    <3> HIDE DEF lv
    <3> QED
      BY <1>1, <1>3, <2>1, <2>2, <3>1, <3>2, LevelAdded
  <2> HIDE DEF lvs, lv
  <2>4. lvs # <<>> /\ Len(lvs) <= Len(records)
    <3>1. Len(Closed) \in Nat \ {0}
      BY <2>3 DEF lv
    <3>2. Len(records) \in Nat
      BY <1>1, LenProperties DEF RecordsInv
    <3> QED
      BY <1>3, <2>2, <2>3, <3>1, <3>2, EmptySeq
  <2>5. /\ EmptyNode \in Nat /\ NodeSize \in Nat /\ EmptyNode <= NodeSize
    BY BTreeAssumption DEF EmptyNode
  <2>6. /\ cur' \in Seq(Nat) /\ nodes' \in Seq(Seq(Nat)) /\ DOMAIN nodes' = {}
        /\ pos' \in Nat \ {0} /\ used' \in EmptyNode .. NodeSize
    BY <1>6, <2>5, EmptySeq
  <2>7. BTreeTypeOK'
    <3>1. \A k \in 1 .. Len(levels) : Len(levels[k].firstKey) = Len(levels[k].nodes)
      BY <1>1, <1>3 DEF BTreeTypeOK
    <3>2. ASSUME NEW k \in 1 .. l PROVE Len(lvs[k].firstKey) = Len(lvs[k].nodes)
      <4>1. k = l \/ k \in 1 .. Len(levels)
        BY <1>3
      <4> QED
        BY <2>3, <3>1, <4>1
    <3>3. \A k \in DOMAIN levels' : Len(levels'[k].firstKey) = Len(levels'[k].nodes)
      BY <2>1, <2>3, <3>2
    <3>4. Len(assigned') <= Len(levels') /\ Len(levels') <= Len(records')
      BY <1>1, <1>2, <1>3, <2>1, <2>3, <2>4
    <3> QED
      BY <1>1, <1>2, <1>6, <2>6, <3>3, <3>4 DEF BTreeTypeOK, EmptyNode
  <2>8. RecordsInv'
    BY <1>1, <1>6 DEF RecordsInv, LeafSize, EmptyNode
  <2>9. LevelsInv'
    <3>1. \A k \in DOMAIN levels' : Packed(levels'[k], records', Keys(records', levels', k), k)
      BY <1>1, <2>1, <2>3
    <3>2. pc' = "levels" /\ levels' \in Levels /\ levels' # <<>> /\ records' # <<>>
      BY <1>1, <1>3, <1>6, <2>1, <2>3, <2>4
    <3> QED
      BY <3>1, <3>2 DEF LevelsInv, Packing, Levels
  <2>10. PackInv'
    <3>1. PackedTo(nodes', cur', pos', used', ItemBytes')
      <4>1. ItemBytes' = Bytes(records, Keys(records, lvs, l + 1), l + 1)
        BY <1>1, <2>1, <2>3 DEF ItemBytes, Below
      <4> QED
        BY <1>6, <2>3, <4>1
    <3> QED
      BY <2>6, <3>1, ItemBytesOf
  <2>11. CountInv'
    BY <1>1, <1>2, <1>6 DEF CountInv, Packing, Settled
  <2>12. NumberInv'
    BY <1>1, <1>2, <1>6 DEF NumberInv, Settled
  <2>13. ImageInv'
    BY <1>1, <1>2, <1>6 DEF ImageInv
  <2> QED
    BY <2>7, <2>8, <2>9, <2>10, <2>11, <2>12, <2>13 DEF BTreeInv
<1> QED
  BY <1>5, <1>6 DEF LevelPacked, Reset

----------------------------------------------------------------------------
(* Counting and numbering.                                                 *)

\* What is left alone when the levels are done.
LEMMA LateFrame ==
    ASSUME BTreeInv, pc # "leaves", pc' \notin {"leaves", "levels"}, pc # "error",
           UNCHANGED <<records, pos, cur, used, nodes, levels>>
    PROVE  RecordsInv' /\ PackInv'
<1>1. RecordsInv /\ PackInv
  BY DEF BTreeInv
<1>2. RecordsInv'
  BY <1>1 DEF RecordsInv, LeafSize, EmptyNode
<1>3. PackInv'
  BY <1>1 DEF PackInv, Packing
<1> QED
  BY <1>2, <1>3

LEMMA LateLevels ==
    ASSUME BTreeInv, ~Packing, pc # "error", pc' \notin {"leaves", "levels"},
           pc' \in {"map", "number", "emitLevels"} => levels # <<>>,
           UNCHANGED <<records, levels>>
    PROVE  LevelsInv'
<1>1. LevelsInv
  BY DEF BTreeInv
<1> QED
  BY <1>1 DEF LevelsInv, Packing, Top

LEMMA LateTypeOK ==
    ASSUME BTreeInv, pc' \in {"map", "number", "emitHeader", "emitMap", "emitLevels", "pad",
                              "done", "error"},
           UNCHANGED <<records, pos, cur, used, nodes, levels>>,
           totalNodes' \in Nat \ {0}, mapNodes' \in 0 .. totalNodes' - 1,
           Len(assigned') <= Len(levels), nextNode' \in Nat \ {0},
           blockSize' \in BlockSizes \cup {0},
           image' # <<>> => DOMAIN image' = 0 .. totalNodes' - 1
    PROVE  BTreeTypeOK'
BY DEF BTreeInv, BTreeTypeOK, EmptyNode

LEMMA LevelsBuiltStep == BTreeInv /\ LevelsBuilt => BTreeInv'
<1> SUFFICES ASSUME BTreeInv, LevelsBuilt PROVE BTreeInv'
  OBVIOUS
<1>1. /\ BTreeTypeOK /\ RecordsInv /\ LevelsInv /\ PackInv /\ CountInv /\ NumberInv /\ ImageInv
      /\ pc = "levels" /\ pc' = "map" /\ Packing /\ Len(Top.firstKey) <= 1
      /\ totalNodes' = TreeNodes(levels)
      /\ UNCHANGED <<records, pos, cur, used, nodes, levels, mapNodes, assigned,
                     nextNode, image, blockSize>>
  BY DEF BTreeInv, LevelsBuilt, Packing, TreeNodes
<1>2. /\ totalNodes = 1 /\ mapNodes = 0 /\ assigned = <<>> /\ nextNode = 1 /\ image = <<>>
      /\ DOMAIN assigned = {}
  BY <1>1 DEF CountInv, ImageInv, Packing
<1>3. /\ levels \in Levels /\ Len(levels) \in Nat \ {0} /\ DOMAIN levels = 1 .. Len(levels)
      /\ levels # <<>> /\ records # <<>> /\ Len(records) \in Nat \ {0}
  <2>1. levels # <<>> /\ records # <<>>
    BY <1>1 DEF LevelsInv
  <2>2. levels \in Levels /\ Len(levels) \in Nat /\ DOMAIN levels = 1 .. Len(levels)
    BY <1>1, LevelsType
  <2>3. Len(levels) # 0
    BY <2>1, <2>2, EmptySeq DEF Levels
  <2>4. Len(records) \in Nat \ {0}
    BY <1>1, <2>1, LenProperties, EmptySeq DEF RecordsInv
  <2> QED
    BY <2>1, <2>2, <2>3, <2>4
<1>4. TreeNodes(levels) \in Nat \ {0}
  <2>1. Len(levels) \in 0 .. Len(levels)
    BY <1>3
  <2> QED
    BY <1>3, <2>1, CountedGrows DEF TreeNodes
<1>5. Len(Top.nodes) = 1
  <2>1. Packed(Top, records, Keys(records, levels, Len(levels)), Len(levels))
    BY <1>1, <1>3, LevelsType DEF Top
  <2>2. Ascends(Top.firstKey, Len(records))
    BY <2>1 DEF Packed
  <2>3. Top.firstKey # <<>> /\ Top.firstKey \in Seq(1 .. Len(records))
    BY <1>3, <2>2 DEF Ascends
  <2>4. Len(Top.firstKey) = 1
    <3> DEFINE k == Top.firstKey
    <3>1. Len(k) \in Nat /\ Len(k) # 0
      BY <2>3, EmptySeq, LenProperties
    <3>2. Len(k) <= 1
      BY <1>1
    <3> DEFINE n == Len(k)
    <3> HIDE DEF n
    <3>3. n \in Nat /\ n # 0 /\ n <= 1
      BY <3>1, <3>2 DEF n
    <3>4. n = 1
      BY <3>3
    <3> QED
      BY <3>4 DEF n
  <2>5. Len(Top.firstKey) = Len(Top.nodes)
    BY <1>1, <1>3 DEF BTreeTypeOK, Top
  <2> QED
    BY <2>4, <2>5
<1>6. BTreeTypeOK'
  <2>1. /\ totalNodes' \in Nat \ {0} /\ mapNodes' \in 0 .. totalNodes' - 1
        /\ Len(assigned') <= Len(levels) /\ nextNode' \in Nat \ {0}
        /\ blockSize' \in BlockSizes \cup {0} /\ image' = <<>>
    BY <1>1, <1>2, <1>4 DEF BTreeTypeOK
  <2> QED
    BY <1>1, <2>1, LateTypeOK
<1>7. LevelsInv'
  BY <1>1, <1>3, <1>5 DEF LevelsInv, Packing, Top
<1>8. CountInv'
  <2>1. pc' = "map" /\ mapNodes' = 0 /\ totalNodes' = TreeNodes(levels') /\ TreeNodes(levels') \in Nat
        /\ assigned' = <<>> /\ nextNode' = 1
    BY <1>1, <1>2, <1>4
  <2> QED
    BY <2>1 DEF CountInv, Packing, Settled
<1>9. NumberInv'
  BY <1>1, <1>2 DEF NumberInv, Settled
<1>10. ImageInv'
  BY <1>1, <1>2 DEF ImageInv
<1>11. RecordsInv' /\ PackInv'
  BY <1>1, LateFrame
<1> QED
  BY <1>6, <1>7, <1>8, <1>9, <1>10, <1>11 DEF BTreeInv

LEMMA LateFacts ==
    ASSUME BTreeInv, ~Packing, pc # "error"
    PROVE  /\ levels \in Levels /\ Len(levels) \in Nat /\ DOMAIN levels = 1 .. Len(levels)
           /\ TreeNodes(levels) \in Nat \ {0} /\ totalNodes \in Nat \ {0} /\ mapNodes \in Nat
           /\ mapNodes < totalNodes /\ blockSize \in BlockSizes \cup {0}
           /\ Len(assigned) <= Len(levels) /\ nextNode \in Nat \ {0}
           /\ MapCoverage = Coverage(mapNodes) /\ Coverage(mapNodes) \in Nat
           /\ pc \in {"map", "number", "emitHeader", "emitMap", "emitLevels", "pad", "done"}
<1>1. levels \in Levels /\ Len(levels) \in Nat /\ DOMAIN levels = 1 .. Len(levels)
  BY LevelsType DEF BTreeInv
<1>2. TreeNodes(levels) \in Nat \ {0}
  <2>1. Len(levels) \in 0 .. Len(levels)
    BY <1>1
  <2> QED
    BY <1>1, <2>1, CountedGrows DEF TreeNodes
<1>3. /\ totalNodes \in Nat \ {0} /\ mapNodes \in Nat
      /\ mapNodes < totalNodes /\ blockSize \in BlockSizes \cup {0}
      /\ Len(assigned) <= Len(levels) /\ nextNode \in Nat \ {0}
      /\ pc \in {"map", "number", "emitHeader", "emitMap", "emitLevels", "pad", "done"}
  BY DEF BTreeInv, BTreeTypeOK, Packing
<1>4. MapCoverage = Coverage(mapNodes) /\ Coverage(mapNodes) \in Nat
  BY <1>3, MapCoverageIs, CoverageType
<1> QED
  BY <1>1, <1>2, <1>3, <1>4

LEMMA AddMapNodeStep == BTreeInv /\ AddMapNode => BTreeInv'
<1> SUFFICES ASSUME BTreeInv, AddMapNode PROVE BTreeInv'
  OBVIOUS
<1>1. /\ CountInv /\ NumberInv /\ ImageInv
      /\ pc = "map" /\ pc' = "map" /\ ~Packing /\ totalNodes > MapCoverage
      /\ mapNodes' = mapNodes + 1 /\ totalNodes' = totalNodes + 1
      /\ UNCHANGED <<records, pos, cur, used, nodes, levels, assigned, nextNode, image, blockSize>>
  BY DEF BTreeInv, AddMapNode, TotalWithMap, Packing
<1>2. /\ TreeNodes(levels) \in Nat \ {0} /\ totalNodes \in Nat \ {0} /\ mapNodes \in Nat
      /\ mapNodes < totalNodes /\ blockSize \in BlockSizes \cup {0}
      /\ Len(assigned) <= Len(levels) /\ nextNode \in Nat \ {0}
      /\ MapCoverage = Coverage(mapNodes) /\ Coverage(mapNodes) \in Nat
  BY <1>1, LateFacts
<1>3. /\ assigned = <<>> /\ nextNode = 1 /\ image = <<>> /\ DOMAIN assigned = {}
      /\ totalNodes = mapNodes + TreeNodes(levels) /\ levels # <<>>
  BY <1>1 DEF CountInv, ImageInv, Packing, BTreeInv, LevelsInv
<1>4. RecordsInv' /\ PackInv' /\ LevelsInv'
  BY <1>1, <1>3, LateFrame, LateLevels
<1>5. BTreeTypeOK'
  <2>1. totalNodes' \in Nat \ {0} /\ mapNodes' \in 0 .. totalNodes' - 1
    BY <1>1, <1>2
  <2> QED
    BY <1>1, <1>2, <1>3, <2>1, LateTypeOK
<1>6. CountInv'
  <2>1. mapNodes' + TreeNodes(levels') - 1 > Coverage(mapNodes' - 1)
    <3>1. mapNodes' - 1 = mapNodes /\ mapNodes' + TreeNodes(levels') - 1 = totalNodes
      BY <1>1, <1>2, <1>3
    <3> QED
      BY <1>1, <1>2, <3>1
  <2>2. totalNodes' = mapNodes' + TreeNodes(levels')
    BY <1>1, <1>2, <1>3
  <2>3. pc' = "map" /\ assigned' = <<>> /\ nextNode' = 1
    BY <1>1, <1>3
  <2> QED
    BY <2>1, <2>2, <2>3 DEF CountInv, Packing, Settled
<1>7. NumberInv'
  BY <1>1, <1>3 DEF NumberInv, Settled
<1>8. ImageInv'
  BY <1>1, <1>3 DEF ImageInv
<1> QED
  BY <1>4, <1>5, <1>6, <1>7, <1>8 DEF BTreeInv

LEMMA MapSettledStep == BTreeInv /\ MapSettled => BTreeInv'
<1> SUFFICES ASSUME BTreeInv, MapSettled PROVE BTreeInv'
  OBVIOUS
<1>1. /\ CountInv /\ NumberInv /\ ImageInv
      /\ pc = "map" /\ pc' = "number" /\ ~Packing /\ totalNodes <= MapCoverage
      /\ nextNode' = 1 + mapNodes
      /\ UNCHANGED <<records, pos, cur, used, nodes, levels, totalNodes, mapNodes,
                     assigned, image, blockSize>>
  BY DEF BTreeInv, MapSettled, FirstNumber, Packing
<1>2. /\ levels \in Levels
      /\ TreeNodes(levels) \in Nat \ {0} /\ totalNodes \in Nat \ {0} /\ mapNodes \in Nat
      /\ mapNodes < totalNodes /\ blockSize \in BlockSizes \cup {0}
      /\ Len(assigned) <= Len(levels) /\ nextNode \in Nat \ {0}
      /\ MapCoverage = Coverage(mapNodes) /\ Coverage(mapNodes) \in Nat
  BY <1>1, LateFacts
<1>3. /\ assigned = <<>> /\ nextNode = 1 /\ image = <<>> /\ DOMAIN assigned = {}
      /\ totalNodes = mapNodes + TreeNodes(levels) /\ levels # <<>> /\ Len(assigned) = 0
  BY <1>1 DEF CountInv, ImageInv, Packing, BTreeInv, LevelsInv
<1>4. RecordsInv' /\ PackInv' /\ LevelsInv'
  BY <1>1, <1>3, LateFrame, LateLevels
<1>5. BTreeTypeOK'
  <2>1. totalNodes' \in Nat \ {0} /\ mapNodes' \in 0 .. totalNodes' - 1 /\ nextNode' \in Nat \ {0}
    BY <1>1, <1>2
  <2> QED
    BY <1>1, <1>2, <1>3, <2>1, LateTypeOK
<1>6. MapCoverage' = MapCoverage
  BY <1>1 DEF MapCoverage
<1>7. CountInv'
  <2>1. mapNodes > 0 => mapNodes + TreeNodes(levels) - 1 > Coverage(mapNodes - 1)
    BY <1>1 DEF CountInv
  <2>2. /\ pc' = "number" /\ mapNodes' = mapNodes /\ totalNodes' = mapNodes + TreeNodes(levels)
        /\ TreeNodes(levels') = TreeNodes(levels) /\ totalNodes' <= MapCoverage'
        /\ TreeNodes(levels) \in Nat
    BY <1>1, <1>2, <1>3, <1>6
  <2> QED
    BY <1>2, <2>1, <2>2 DEF CountInv, Packing, Settled
<1>8. NumberInv'
  <2>1. Counted(Widths(levels'))[Len(assigned')] = 1
    BY <1>1, <1>2, <1>3, CountedSteps
  <2>2. nextNode' = mapNodes' + Counted(Widths(levels'))[Len(assigned')]
    BY <1>1, <1>2, <2>1
  <2> QED
    BY <1>1, <1>3, <2>2 DEF NumberInv, Settled
<1>9. ImageInv'
  BY <1>1, <1>3 DEF ImageInv
<1> QED
  BY <1>4, <1>5, <1>7, <1>8, <1>9 DEF BTreeInv

\* The counts are not touched once the map is settled, until the tree is padded.
LEMMA SettledCounts ==
    ASSUME BTreeInv, pc \in {"number", "emitHeader", "emitMap", "emitLevels"},
           pc' \in {"number", "emitHeader", "emitMap", "emitLevels", "pad"},
           UNCHANGED <<levels, totalNodes, mapNodes>>
    PROVE  CountInv'
<1>1. CountInv
  BY DEF BTreeInv
<1>2. MapCoverage' = MapCoverage
  BY DEF MapCoverage
<1>3. /\ mapNodes' > 0 => mapNodes' + TreeNodes(levels') - 1 > Coverage(mapNodes' - 1)
      /\ totalNodes' = mapNodes' + TreeNodes(levels')
      /\ mapNodes' + TreeNodes(levels') <= totalNodes' /\ totalNodes' <= MapCoverage'
  BY <1>1, <1>2 DEF CountInv, Settled
<1> QED
  BY <1>3 DEF CountInv, Packing, Settled

LEMMA NumberLevelStep == BTreeInv /\ NumberLevel => BTreeInv'
<1> SUFFICES ASSUME BTreeInv, NumberLevel PROVE BTreeInv'
  OBVIOUS
<1> DEFINE l == Len(assigned) + 1
           w == [i \in DOMAIN levels[l].nodes |-> nextNode + i - 1]
           c == Counted(Widths(levels))
<1>1. /\ CountInv /\ NumberInv /\ ImageInv
      /\ pc = "number" /\ pc' = "number" /\ ~Packing /\ l <= Len(levels)
      /\ assigned' = Append(assigned, w) /\ nextNode' = nextNode + Len(levels[l].firstKey)
      /\ UNCHANGED <<records, pos, cur, used, nodes, levels, totalNodes, mapNodes,
                     image, blockSize>>
  BY DEF BTreeInv, NumberLevel, Packing
<1>2. /\ levels \in Levels /\ Len(levels) \in Nat /\ DOMAIN levels = 1 .. Len(levels)
      /\ totalNodes \in Nat \ {0} /\ mapNodes \in Nat
      /\ mapNodes < totalNodes /\ blockSize \in BlockSizes \cup {0}
      /\ nextNode \in Nat \ {0}
  BY <1>1, LateFacts
<1>3. /\ assigned \in Seq(Seq(Nat)) /\ Len(assigned) \in Nat /\ DOMAIN assigned = 1 .. Len(assigned)
      /\ nextNode = mapNodes + c[Len(assigned)] /\ image = <<>> /\ levels # <<>>
      /\ \A k \in 1 .. Len(assigned) : assigned[k] = Stretch(mapNodes + c[k - 1] - 1, mapNodes + c[k] - 1)
  <2>1. assigned \in Seq(Seq(Nat)) /\ Len(assigned) \in Nat /\ DOMAIN assigned = 1 .. Len(assigned)
    BY <1>1, LenProperties DEF NumberInv
  <2>2. nextNode = mapNodes + c[Len(assigned)]
    BY <1>1 DEF NumberInv, Settled
  <2>3. image = <<>> /\ levels # <<>>
    BY <1>1 DEF ImageInv, BTreeInv, LevelsInv
  <2> QED
    BY <1>1, <2>1, <2>2, <2>3 DEF NumberInv
<1>4. l \in 1 .. Len(levels) /\ l - 1 = Len(assigned) /\ l \in Nat
  BY <1>1, <1>2, <1>3
<1>5. /\ c[l] = c[l - 1] + Len(levels[l].nodes) /\ Len(levels[l].nodes) \in Nat
      /\ c[l - 1] \in Nat \ {0} /\ c[l] \in Nat \ {0}
      /\ DOMAIN levels[l].nodes = 1 .. Len(levels[l].nodes)
      /\ Len(levels[l].firstKey) = Len(levels[l].nodes)
  <2>1. l - 1 \in 0 .. Len(levels) /\ l \in 0 .. Len(levels)
    BY <1>2, <1>4
  <2>2. c[l - 1] \in Nat \ {0} /\ c[l] \in Nat \ {0}
    BY <1>2, <2>1, CountedGrows
  <2>3. c[l] = c[l - 1] + Len(levels[l].nodes) /\ Len(levels[l].nodes) \in Nat
    BY <1>2, <1>4, CountedSteps
  <2>4. levels[l].nodes \in Seq(Seq(Nat))
    <3>1. levels[l] \in [nodes : Seq(Seq(Nat)), firstKey : Seq(Nat)]
      BY <1>2, <1>4, ElementOfSeq DEF Levels
    <3> QED
      BY <3>1
  <2>5. Len(levels[l].firstKey) = Len(levels[l].nodes)
    BY <1>2, <1>4 DEF BTreeInv, BTreeTypeOK
  <2> QED
    BY <2>2, <2>3, <2>4, <2>5, LenProperties
<1> DEFINE a == mapNodes + c[l - 1] - 1
           b == mapNodes + c[l] - 1
<1>6. w = Stretch(a, b) /\ w \in Seq(Nat)
  <2> DEFINE n == Len(levels[l].nodes)
             x == c[l - 1]
             y == c[l]
  <2>1. n \in Nat /\ x \in Nat \ {0} /\ y = x + n /\ nextNode = mapNodes + x
    BY <1>3, <1>4, <1>5
  <2>2. w = [i \in 1 .. n |-> nextNode + i - 1]
    BY <1>5
  <2> HIDE DEF n, x, y
  <2>3. a = mapNodes + x - 1 /\ b = mapNodes + y - 1
    BY DEF x, y
  <2>4. a \in Nat /\ b \in Nat /\ b - a = n /\ a <= b
    BY <1>2, <2>1, <2>3
  <2>5. \A i \in 1 .. n : nextNode + i - 1 = a + i
    BY <1>2, <2>1, <2>3
  <2>6. w = [i \in 1 .. n |-> a + i]
    BY <2>2, <2>5
  <2> HIDE DEF a, b, w
  <2>7. w = Stretch(a, b)
    BY <2>4, <2>6 DEF Stretch
  <2> QED
    BY <2>4, <2>7, StretchIs
<1> HIDE DEF w
<1>7. /\ assigned' \in Seq(Seq(Nat)) /\ Len(assigned') = l /\ DOMAIN assigned' = 1 .. l
      /\ assigned'[l] = w /\ \A k \in 1 .. Len(assigned) : assigned'[k] = assigned[k]
  BY <1>1, <1>3, <1>6, AppendProperties, LenProperties
<1>8. nextNode' = mapNodes + c[l] /\ nextNode' \in Nat \ {0}
  <2> DEFINE n == Len(levels[l].nodes)
             x == c[l - 1]
  <2>1. nextNode = mapNodes + x /\ n \in Nat /\ x \in Nat /\ c[l] = x + n /\ nextNode' = nextNode + n
    BY <1>1, <1>3, <1>4, <1>5
  <2> HIDE DEF n, x
  <2> QED
    BY <1>2, <2>1
<1>9. RecordsInv' /\ PackInv' /\ LevelsInv'
  BY <1>1, <1>3, LateFrame, LateLevels
<1>10. CountInv'
  BY <1>1, SettledCounts
<1>11. BTreeTypeOK'
  <2>1. mapNodes' \in 0 .. totalNodes' - 1 /\ Len(assigned') <= Len(levels)
    BY <1>1, <1>2, <1>7
  <2> QED
    BY <1>1, <1>2, <1>3, <1>8, <2>1, LateTypeOK
<1> HIDE DEF l
<1>12. NumberInv'
  <2>1. ASSUME NEW k \in 1 .. l
        PROVE  /\ k \in DOMAIN levels
               /\ assigned'[k] = Stretch(mapNodes + c[k - 1] - 1, mapNodes + c[k] - 1)
    <3>1. k = l \/ k \in 1 .. Len(assigned)
      BY <1>3, <1>4
    <3>2. CASE k = l
      BY <1>2, <1>4, <1>6, <1>7, <3>2
    <3>3. CASE k \in 1 .. Len(assigned)
      BY <1>2, <1>3, <1>4, <1>7, <3>3
    <3> QED
      BY <3>1, <3>2, <3>3
  <2> QED
    BY <1>1, <1>7, <1>8, <2>1 DEF NumberInv, Settled
<1>13. ImageInv'
  BY <1>1, <1>3 DEF ImageInv
<1> QED
  BY <1>9, <1>10, <1>11, <1>12, <1>13 DEF BTreeInv

LEMMA NumberedStep == BTreeInv /\ Numbered => BTreeInv'
<1> SUFFICES ASSUME BTreeInv, Numbered PROVE BTreeInv'
  OBVIOUS
<1>1. /\ CountInv /\ NumberInv /\ ImageInv
      /\ pc = "number" /\ pc' = "emitHeader" /\ ~Packing /\ Len(assigned) = Len(levels)
      /\ UNCHANGED <<records, pos, cur, used, nodes, levels, totalNodes, mapNodes,
                     assigned, nextNode, image, blockSize>>
  BY DEF BTreeInv, Numbered, Packing
<1>2. /\ totalNodes \in Nat \ {0} /\ mapNodes \in Nat
      /\ mapNodes < totalNodes /\ blockSize \in BlockSizes \cup {0}
      /\ nextNode \in Nat \ {0} /\ Len(levels) \in Nat
  BY <1>1, LateFacts
<1>3. image = <<>>
  BY <1>1 DEF ImageInv
<1>4. RecordsInv' /\ PackInv' /\ LevelsInv' /\ CountInv'
  BY <1>1, LateFrame, LateLevels, SettledCounts
<1>5. BTreeTypeOK'
  <2>1. mapNodes' \in 0 .. totalNodes' - 1 /\ Len(assigned') <= Len(levels)
    BY <1>1, <1>2
  <2> QED
    BY <1>1, <1>2, <1>3, <2>1, LateTypeOK
<1>6. NumberInv'
  BY <1>1 DEF NumberInv, Settled
<1>7. ImageInv'
  BY <1>1, <1>3 DEF ImageInv
<1> QED
  BY <1>4, <1>5, <1>6, <1>7 DEF BTreeInv

----------------------------------------------------------------------------
(* The numbers.                                                            *)

\* The numbers of the levels fill what is left of the tree, each once.
LEMMA Numbers ==
    ASSUME BTreeInv, pc \in {"emitHeader", "emitMap", "emitLevels", "pad", "done"}
    PROVE  /\ nextNode = mapNodes + TreeNodes(levels) /\ nextNode <= totalNodes
           /\ mapNodes < nextNode
           /\ \A l \in 1 .. Len(levels) :
                 /\ DOMAIN assigned[l] = 1 .. Len(levels[l].nodes)
                 /\ Len(assigned[l]) = Len(levels[l].nodes) /\ Len(levels[l].nodes) \in Nat \ {0}
                 /\ \A i \in 1 .. Len(levels[l].nodes) :
                       /\ assigned[l][i] = mapNodes + Counted(Widths(levels))[l - 1] - 1 + i
                       /\ assigned[l][i] \in mapNodes + 1 .. nextNode - 1
           /\ \A k, l \in 1 .. Len(levels) : \A i \in DOMAIN assigned[k] : \A j \in DOMAIN assigned[l] :
                 assigned[k][i] = assigned[l][j] => k = l /\ i = j
           /\ \A n \in mapNodes + 1 .. nextNode - 1 :
                 \E l \in 1 .. Len(levels) : \E i \in DOMAIN assigned[l] : assigned[l][i] = n
<1> DEFINE c == Counted(Widths(levels))
           h == Len(levels)
<1>1. /\ levels \in Levels /\ h \in Nat /\ DOMAIN levels = 1 .. h
      /\ TreeNodes(levels) \in Nat \ {0} /\ totalNodes \in Nat \ {0} /\ mapNodes \in Nat
  BY LateFacts DEF Packing
<1>2. /\ Len(assigned) = h /\ nextNode = mapNodes + c[Len(assigned)]
      /\ assigned \in Seq(Seq(Nat))
      /\ \A l \in DOMAIN assigned : assigned[l] = Stretch(mapNodes + c[l - 1] - 1, mapNodes + c[l] - 1)
      /\ mapNodes + TreeNodes(levels) <= totalNodes
  BY DEF BTreeInv, NumberInv, CountInv, Settled
<1>3. DOMAIN assigned = 1 .. h
  BY <1>2, LenProperties
<1>4. nextNode = mapNodes + TreeNodes(levels) /\ nextNode <= totalNodes /\ mapNodes < nextNode
  <2>1. TreeNodes(levels) = c[h]
    BY DEF TreeNodes
  <2> HIDE DEF c, h
  <2> QED
    BY <1>1, <1>2, <2>1
<1>5. /\ c \in [0 .. h -> Nat] /\ c[0] = 1
      /\ \A l \in 1 .. h : c[l] = c[l - 1] + Len(levels[l].nodes) /\ Len(levels[l].nodes) \in Nat
      /\ \A i, j \in 0 .. h : i <= j => c[i] <= c[j]
      /\ \A i \in 0 .. h : c[i] \in Nat \ {0}
      /\ nextNode = mapNodes + c[h]
  BY <1>1, <1>2, CountedSteps, CountedGrows
<1>6. ASSUME NEW l \in 1 .. h PROVE Len(levels[l].nodes) \in Nat \ {0}
  <2>1. Packed(levels[l], records, Keys(records, levels, l), l)
    BY LevelsType DEF BTreeInv
  <2>2. Ascends(levels[l].firstKey, Len(records)) /\ Len(levels[l].firstKey) = Len(levels[l].nodes)
    BY <1>1, <2>1 DEF Packed, BTreeInv, BTreeTypeOK
  <2>3. Len(records) > 0
    <3>1. levels # <<>>
      BY <1>1, EmptySeq DEF Levels
    <3>2. records # <<>> /\ records \in Seq([key : KeySizes, data : DataSizes])
      BY <3>1 DEF BTreeInv, LevelsInv, RecordsInv
    <3> QED
      BY <3>2, EmptySeq, LenProperties
  <2>4. levels[l].firstKey # <<>> /\ levels[l].firstKey \in Seq(1 .. Len(records))
    BY <2>2, <2>3 DEF Ascends
  <2>5. Len(levels[l].firstKey) # 0
    BY <2>4, EmptySeq
  <2> QED
    BY <1>5, <2>2, <2>5
<1> HIDE DEF c, h
<1>7. ASSUME NEW l \in 1 .. h
      PROVE  /\ DOMAIN assigned[l] = 1 .. Len(levels[l].nodes)
             /\ Len(assigned[l]) = Len(levels[l].nodes)
             /\ \A i \in 1 .. Len(levels[l].nodes) :
                   /\ assigned[l][i] = mapNodes + c[l - 1] - 1 + i
                   /\ assigned[l][i] \in mapNodes + 1 .. nextNode - 1
                   /\ c[l - 1] <= assigned[l][i] - mapNodes /\ assigned[l][i] - mapNodes < c[l]
  <2> DEFINE a == mapNodes + c[l - 1] - 1
             b == mapNodes + c[l] - 1
             n == Len(levels[l].nodes)
             x == c[l - 1]
             y == c[l]
             z == c[h]
  <2>1. l - 1 \in 0 .. h /\ l \in 0 .. h /\ h \in 0 .. h /\ l <= h
    BY <1>1
  <2>2. x \in Nat \ {0} /\ y \in Nat \ {0} /\ z \in Nat /\ y <= z /\ y = x + n /\ n \in Nat
    BY <1>5, <2>1
  <2>3. nextNode = mapNodes + z /\ assigned[l] = Stretch(a, b)
    BY <1>2, <1>3, <1>5
  <2> HIDE DEF n, x, y, z
  <2>4. a = mapNodes + x - 1 /\ b = mapNodes + y - 1
    BY DEF x, y
  <2> HIDE DEF a, b
  <2>5. a \in Nat /\ b \in Nat /\ a <= b /\ b - a = n
    BY <1>1, <2>2, <2>4
  <2>6. /\ assigned[l] \in Seq(Nat) /\ Len(assigned[l]) = n
        /\ \A i \in 1 .. n : assigned[l][i] = a + i
    BY <2>3, <2>5, StretchIs
  <2>7. DOMAIN assigned[l] = 1 .. n
    BY <2>6, LenProperties
  <2>8. ASSUME NEW i \in 1 .. n
        PROVE  /\ assigned[l][i] = mapNodes + x - 1 + i
               /\ assigned[l][i] \in mapNodes + 1 .. nextNode - 1
               /\ x <= assigned[l][i] - mapNodes /\ assigned[l][i] - mapNodes < y
    <3>1. assigned[l][i] = a + i
      BY <2>6
    <3>2. assigned[l][i] = mapNodes + x - 1 + i /\ mapNodes \in Nat
      BY <1>1, <2>2, <2>4, <3>1
    <3> DEFINE v == assigned[l][i]
    <3> HIDE DEF v
    <3>3. v = mapNodes + x - 1 + i
      BY <3>2 DEF v
    <3>4. /\ v \in mapNodes + 1 .. nextNode - 1 /\ x <= v - mapNodes /\ v - mapNodes < y
      BY <2>2, <2>3, <3>2, <3>3
    <3> QED
      BY <3>2, <3>4 DEF v
  <2> QED
    BY <2>6, <2>7, <2>8 DEF n, x, y
<1>8. ASSUME NEW k \in 1 .. h, NEW l \in 1 .. h, NEW i \in DOMAIN assigned[k], NEW j \in DOMAIN assigned[l],
             assigned[k][i] = assigned[l][j]
      PROVE  k = l /\ i = j
  <2> DEFINE v == assigned[k][i] - mapNodes
  <2>0. i \in 1 .. Len(levels[k].nodes) /\ j \in 1 .. Len(levels[l].nodes)
    BY <1>7
  <2>1. c[k - 1] <= v /\ v < c[k] /\ c[l - 1] <= v /\ v < c[l] /\ v \in Int
    <3>1. /\ assigned[k][i] \in mapNodes + 1 .. nextNode - 1
          /\ c[k - 1] <= assigned[k][i] - mapNodes /\ assigned[k][i] - mapNodes < c[k]
      BY <1>7, <2>0
    <3>2. c[l - 1] <= assigned[l][j] - mapNodes /\ assigned[l][j] - mapNodes < c[l]
      BY <1>7, <2>0
    <3>3. assigned[k][i] - mapNodes \in Int
      BY <1>1, <3>1
    <3> QED
      BY <1>8, <3>1, <3>2, <3>3
  <2>2. /\ k \in 0 .. h /\ l \in 0 .. h /\ k - 1 \in 0 .. h /\ l - 1 \in 0 .. h
    BY <1>1
  <2>3. c[k] \in Nat /\ c[l] \in Nat /\ c[k - 1] \in Nat /\ c[l - 1] \in Nat
    BY <1>5, <2>2
  <2> HIDE DEF v
  <2>4. ~(k < l)
    <3> SUFFICES ASSUME k < l PROVE FALSE
      OBVIOUS
    <3>1. k <= l - 1
      OBVIOUS
    <3>2. c[k] <= c[l - 1]
      BY <1>5, <2>2, <3>1
    <3> QED
      BY <2>1, <2>3, <3>2
  <2>5. ~(l < k)
    <3> SUFFICES ASSUME l < k PROVE FALSE
      OBVIOUS
    <3>1. l <= k - 1
      OBVIOUS
    <3>2. c[l] <= c[k - 1]
      BY <1>5, <2>2, <3>1
    <3> QED
      BY <2>1, <2>3, <3>2
  <2>6. k = l
    BY <1>1, <2>4, <2>5
  <2>7. assigned[l][i] = mapNodes + c[l - 1] - 1 + i /\ assigned[l][j] = mapNodes + c[l - 1] - 1 + j
    BY <1>7, <2>0, <2>6
  <2> DEFINE q == mapNodes + c[l - 1] - 1
  <2>8. q \in Int /\ assigned[l][i] = q + i /\ assigned[l][j] = q + j /\ assigned[l][i] = assigned[l][j]
    BY <1>1, <1>8, <2>3, <2>6, <2>7
  <2>9. i \in Int /\ j \in Int
    BY <2>0
  <2> HIDE DEF q
  <2>10. i = j
    BY <2>8, <2>9
  <2> QED
    BY <2>6, <2>10
<1>9. ASSUME NEW n \in mapNodes + 1 .. nextNode - 1
      PROVE  \E l \in 1 .. h : \E i \in DOMAIN assigned[l] : assigned[l][i] = n
  <2> DEFINE m == n - mapNodes
  <2>1. h \in 0 .. h /\ c[h] \in Nat
    BY <1>1, <1>5
  <2>2. m \in Nat /\ c[0] <= m /\ m < c[h]
    BY <1>1, <1>5, <2>1
  <2> HIDE DEF m
  <2>3. PICK l \in 1 .. h : c[l - 1] <= m /\ m < c[l]
    BY <1>1, <1>5, <2>2, StepsCover
  <2>4. l - 1 \in 0 .. h
    BY <1>1
  <2> DEFINE x == c[l - 1]
             w == Len(levels[l].nodes)
             i == m - x + 1
  <2>5. x \in Nat /\ w \in Nat /\ x <= m /\ m < x + w
    BY <1>5, <2>3, <2>4
  <2>6. DOMAIN assigned[l] = 1 .. w /\ \A j \in 1 .. w : assigned[l][j] = mapNodes + x - 1 + j
    BY <1>7
  <2> HIDE DEF x, w
  <2>7. i \in 1 .. w
    BY <2>2, <2>5
  <2>8. assigned[l][i] = n
    <3>1. mapNodes + x - 1 + i = n
      BY <1>1, <2>2, <2>5 DEF m
    <3> QED
      BY <2>6, <2>7, <3>1
  <2> QED
    BY <2>6, <2>7, <2>8
<1> QED
  BY <1>4, <1>6, <1>7, <1>8, <1>9 DEF c, h

----------------------------------------------------------------------------
(* Emission.                                                               *)

LEMMA LevelNodeSame ==
    ASSUME UNCHANGED <<records, levels, assigned>>
    PROVE  \A l, i : LevelNode(l, i)' = LevelNode(l, i)
BY DEF LevelNode, Node, NextLink, Child

LEMMA MapNodeSame ==
    ASSUME UNCHANGED <<mapNodes, nextNode>>
    PROVE  \A n : MapNode(n - 1, nextNode)' = MapNode(n - 1, nextNode)
BY DEF MapNode, Node, FirstBit, MapNodeMap, mapBitsInHeaderNode, mapBitsInMapNode

LEMMA HeaderNodeSame ==
    ASSUME UNCHANGED <<records, levels, assigned, mapNodes, nextNode, totalNodes>>
    PROVE  HeaderNode(nextNode, totalNodes)' = HeaderNode(nextNode, totalNodes)
BY DEF HeaderNode, Node, Header, HeaderMap

LEMMA EmitHeaderStep == BTreeInv /\ EmitHeader => BTreeInv'
<1> SUFFICES ASSUME BTreeInv, EmitHeader PROVE BTreeInv'
  OBVIOUS
<1>1. /\ CountInv /\ NumberInv
      /\ pc = "emitHeader" /\ pc' = "emitMap" /\ ~Packing
      /\ image' = [n \in 0 .. totalNodes - 1 |-> IF n = 0 THEN HeaderNode(totalNodes, totalNodes)
                                                 ELSE Blank]
      /\ UNCHANGED <<records, pos, cur, used, nodes, levels, totalNodes, mapNodes,
                     assigned, nextNode, blockSize>>
  BY DEF BTreeInv, EmitHeader, Packing
<1>2. /\ DOMAIN levels = 1 .. Len(levels)
      /\ totalNodes \in Nat \ {0} /\ mapNodes \in Nat
      /\ mapNodes < totalNodes /\ blockSize \in BlockSizes \cup {0}
      /\ nextNode \in Nat \ {0} /\ Len(levels) \in Nat /\ Len(assigned) <= Len(levels)
  BY <1>1, LateFacts
<1>3. /\ nextNode = mapNodes + TreeNodes(levels) /\ nextNode <= totalNodes
      /\ \A l \in 1 .. Len(levels) :
            /\ DOMAIN assigned[l] = 1 .. Len(levels[l].nodes)
            /\ \A i \in 1 .. Len(levels[l].nodes) : assigned[l][i] \in mapNodes + 1 .. nextNode - 1
  BY <1>1, Numbers
<1>4. totalNodes = nextNode
  BY <1>1, <1>3 DEF CountInv
<1>5. RecordsInv' /\ PackInv' /\ LevelsInv' /\ CountInv'
  BY <1>1, LateFrame, LateLevels, SettledCounts
<1>6. DOMAIN image' = 0 .. totalNodes - 1
  BY <1>1
<1>7. BTreeTypeOK'
  <2>1. mapNodes' \in 0 .. totalNodes' - 1
    BY <1>1, <1>2
  <2> QED
    BY <1>1, <1>2, <1>6, <2>1, LateTypeOK
<1>8. NumberInv'
  BY <1>1 DEF NumberInv, Settled
<1>9. ImageInv'
  <2>1. image'[0] = HeaderNode(nextNode, totalNodes)'
    <3>1. image'[0] = HeaderNode(totalNodes, totalNodes)
      BY <1>1, <1>2
    <3>2. HeaderNode(nextNode, totalNodes)' = HeaderNode(nextNode, totalNodes)
      BY <1>1, HeaderNodeSame
    <3> QED
      BY <1>1, <1>4, <3>1, <3>2
  <2>2. ASSUME NEW n \in 1 .. totalNodes - 1 PROVE image'[n] = Blank
    <3>1. n \in 0 .. totalNodes - 1 /\ n # 0
      BY <1>2
    <3> QED
      BY <1>1, <3>1
  <2>3. ASSUME NEW n \in 1 .. mapNodes' PROVE image'[n] = Blank
    BY <1>1, <1>2, <2>2
  <2>4. ASSUME NEW l \in DOMAIN levels', NEW i \in DOMAIN assigned'[l]
        PROVE  image'[assigned'[l][i]] = Blank
    <3>1. assigned[l][i] \in mapNodes + 1 .. nextNode - 1
      BY <1>1, <1>2, <1>3
    <3>2. assigned[l][i] \in 1 .. totalNodes - 1
      BY <1>2, <1>4, <3>1
    <3> QED
      BY <1>1, <2>2, <3>2
  <2>5. ASSUME NEW n \in nextNode' .. totalNodes' - 1 PROVE image'[n] = Blank
    BY <1>1, <1>2, <1>4
  <2>6. Blank' = Blank
    BY DEF Blank, Node
  <2>7. DOMAIN image' = 0 .. totalNodes' - 1 /\ pc' = "emitMap"
    BY <1>1, <1>6
  <2> QED
    BY <2>1, <2>3, <2>4, <2>5, <2>6, <2>7 DEF ImageInv
<1> QED
  BY <1>5, <1>7, <1>8, <1>9 DEF BTreeInv

\* What the image holds, part by part.
LEMMA ImageParts ==
    ASSUME BTreeInv, pc \in {"emitMap", "emitLevels", "pad", "done"}
    PROVE  /\ DOMAIN image = 0 .. totalNodes - 1
           /\ image[0] = HeaderNode(nextNode, totalNodes)
           /\ \A n \in 1 .. mapNodes :
                image[n] = IF pc = "emitMap" THEN Blank ELSE MapNode(n - 1, nextNode)
           /\ \A l \in DOMAIN levels : \A i \in DOMAIN assigned[l] :
                image[assigned[l][i]] = IF pc \in {"emitMap", "emitLevels"} THEN Blank
                                        ELSE LevelNode(l, i)
           /\ \A n \in nextNode .. totalNodes - 1 : image[n] = Blank
BY DEF BTreeInv, ImageInv

LEMMA EmitMapNodesStep == BTreeInv /\ EmitMapNodes => BTreeInv'
<1> SUFFICES ASSUME BTreeInv, EmitMapNodes PROVE BTreeInv'
  OBVIOUS
<1>1. /\ CountInv /\ NumberInv
      /\ pc = "emitMap" /\ ~Packing
      /\ pc' = IF levels = <<>> THEN "pad" ELSE "emitLevels"
      /\ image' = [n \in DOMAIN image |->
                     IF n \in 1 .. mapNodes THEN MapNode(n - 1, totalNodes) ELSE image[n]]
      /\ UNCHANGED <<records, pos, cur, used, nodes, levels, totalNodes, mapNodes,
                     assigned, nextNode, blockSize>>
  BY DEF BTreeInv, EmitMapNodes, Packing
<1>2. /\ DOMAIN levels = 1 .. Len(levels) /\ Len(levels) \in Nat
      /\ totalNodes \in Nat \ {0} /\ mapNodes \in Nat
      /\ mapNodes < totalNodes /\ blockSize \in BlockSizes \cup {0}
      /\ nextNode \in Nat \ {0} /\ Len(assigned) <= Len(levels)
  BY <1>1, LateFacts
<1>3. /\ nextNode = mapNodes + TreeNodes(levels) /\ mapNodes < nextNode
      /\ \A l \in 1 .. Len(levels) :
            /\ DOMAIN assigned[l] = 1 .. Len(levels[l].nodes)
            /\ \A i \in 1 .. Len(levels[l].nodes) : assigned[l][i] \in mapNodes + 1 .. nextNode - 1
  BY <1>1, Numbers
<1>4. totalNodes = nextNode
  BY <1>1, <1>3 DEF CountInv
<1>5. /\ DOMAIN image = 0 .. totalNodes - 1
      /\ image[0] = HeaderNode(nextNode, totalNodes)
      /\ \A l \in DOMAIN levels : \A i \in DOMAIN assigned[l] : image[assigned[l][i]] = Blank
  BY <1>1, ImageParts
<1>6. pc' \in {"pad", "emitLevels"} /\ (pc' = "pad" => levels = <<>>)
      /\ (pc' = "emitLevels" => levels # <<>>)
  BY <1>1
<1>7. RecordsInv' /\ PackInv' /\ LevelsInv' /\ CountInv'
  BY <1>1, <1>6, LateFrame, LateLevels, SettledCounts
<1>8. DOMAIN image' = 0 .. totalNodes - 1
  BY <1>1, <1>5
<1>9. BTreeTypeOK'
  <2>1. mapNodes' \in 0 .. totalNodes' - 1
    BY <1>1, <1>2
  <2> QED
    BY <1>1, <1>2, <1>6, <1>8, <2>1, LateTypeOK
<1>10. NumberInv'
  BY <1>1, <1>6 DEF NumberInv, Settled
<1>11. ImageInv'
  <2>1. image'[0] = HeaderNode(nextNode, totalNodes)'
    <3>1. 0 \in DOMAIN image /\ 0 \notin 1 .. mapNodes
      BY <1>2, <1>5
    <3>2. image'[0] = HeaderNode(nextNode, totalNodes)
      BY <1>1, <1>5, <3>1
    <3>3. HeaderNode(nextNode, totalNodes)' = HeaderNode(nextNode, totalNodes)
      BY <1>1, HeaderNodeSame
    <3> QED
      BY <1>1, <3>2, <3>3
  <2>2. ASSUME NEW n \in 1 .. mapNodes' PROVE image'[n] = MapNode(n - 1, nextNode)'
    <3>1. n \in 1 .. mapNodes /\ n \in DOMAIN image
      BY <1>1, <1>2, <1>5
    <3>2. image'[n] = MapNode(n - 1, totalNodes)
      BY <1>1, <3>1
    <3>3. MapNode(n - 1, nextNode)' = MapNode(n - 1, nextNode)
      BY <1>1, MapNodeSame
    <3> QED
      BY <1>1, <1>4, <3>2, <3>3
  <2>3. ASSUME NEW l \in DOMAIN levels', NEW i \in DOMAIN assigned'[l]
        PROVE  pc' = "emitLevels" /\ image'[assigned'[l][i]] = Blank
    <3>1. assigned[l][i] \in mapNodes + 1 .. nextNode - 1 /\ l \in DOMAIN levels
      BY <1>1, <1>2, <1>3
    <3>2. assigned[l][i] \in DOMAIN image /\ assigned[l][i] \notin 1 .. mapNodes
      BY <1>2, <1>4, <1>5, <3>1
    <3>3. image'[assigned[l][i]] = image[assigned[l][i]]
      BY <1>1, <3>2
    <3>4. image[assigned[l][i]] = Blank
      BY <1>1, <1>5, <3>1
    <3>5. levels # <<>>
      BY <3>1
    <3> QED
      BY <1>1, <1>6, <3>3, <3>4, <3>5
  <2>4. nextNode' .. totalNodes' - 1 = {}
    BY <1>1, <1>2, <1>4
  <2>5. DOMAIN image' = 0 .. totalNodes' - 1
    BY <1>1, <1>8
  <2>6. Blank' = Blank
    BY DEF Blank, Node
  <2> QED
    BY <1>6, <2>1, <2>2, <2>3, <2>4, <2>5, <2>6 DEF ImageInv
<1> QED
  BY <1>7, <1>9, <1>10, <1>11 DEF BTreeInv

LEMMA EmitLevelsStep == BTreeInv /\ EmitLevels => BTreeInv'
<1> SUFFICES ASSUME BTreeInv, EmitLevels PROVE BTreeInv'
  OBVIOUS
<1> DEFINE Has(n, l) == \E i \in DOMAIN assigned[l] : assigned[l][i] = n
           Row(n) == CHOOSE l \in DOMAIN levels : Has(n, l)
           Col(n, l) == CHOOSE i \in DOMAIN assigned[l] : assigned[l][i] = n
<1>1. /\ CountInv /\ NumberInv
      /\ pc = "emitLevels" /\ ~Packing /\ pc' = "pad"
      /\ image' = [n \in DOMAIN image |-> IF \E l \in DOMAIN levels : Has(n, l)
                                          THEN LevelNode(Row(n), Col(n, Row(n))) ELSE image[n]]
      /\ UNCHANGED <<records, pos, cur, used, nodes, levels, totalNodes, mapNodes,
                     assigned, nextNode, blockSize>>
  BY Zenon DEF BTreeInv, EmitLevels, Packing
<1>2. /\ DOMAIN levels = 1 .. Len(levels) /\ Len(levels) \in Nat
      /\ totalNodes \in Nat \ {0} /\ mapNodes \in Nat
      /\ mapNodes < totalNodes /\ blockSize \in BlockSizes \cup {0}
      /\ nextNode \in Nat \ {0} /\ Len(assigned) <= Len(levels)
  BY <1>1, LateFacts
<1>3. /\ nextNode = mapNodes + TreeNodes(levels) /\ mapNodes < nextNode
      /\ \A l \in 1 .. Len(levels) :
            /\ DOMAIN assigned[l] = 1 .. Len(levels[l].nodes)
            /\ \A i \in 1 .. Len(levels[l].nodes) : assigned[l][i] \in mapNodes + 1 .. nextNode - 1
      /\ \A k, l \in 1 .. Len(levels) : \A i \in DOMAIN assigned[k] : \A j \in DOMAIN assigned[l] :
            assigned[k][i] = assigned[l][j] => k = l /\ i = j
  BY <1>1, Numbers
<1>4. totalNodes = nextNode
  BY <1>1, <1>3 DEF CountInv
<1>5. /\ DOMAIN image = 0 .. totalNodes - 1
      /\ image[0] = HeaderNode(nextNode, totalNodes)
      /\ \A n \in 1 .. mapNodes : image[n] = MapNode(n - 1, nextNode)
  BY <1>1, ImageParts
<1>6. ASSUME NEW l \in DOMAIN levels, NEW i \in DOMAIN assigned[l]
      PROVE  assigned[l][i] \in mapNodes + 1 .. nextNode - 1 /\ assigned[l][i] \in DOMAIN image
  <2>1. assigned[l][i] \in mapNodes + 1 .. nextNode - 1
    BY <1>2, <1>3
  <2> QED
    BY <1>2, <1>4, <1>5, <2>1
<1>7. RecordsInv' /\ PackInv' /\ LevelsInv' /\ CountInv'
  BY <1>1, LateFrame, LateLevels, SettledCounts
<1>8. DOMAIN image' = 0 .. totalNodes - 1
  BY <1>1, <1>5
<1>9. BTreeTypeOK'
  <2>1. mapNodes' \in 0 .. totalNodes' - 1
    BY <1>1, <1>2
  <2> QED
    BY <1>1, <1>2, <1>8, <2>1, LateTypeOK
<1>10. NumberInv'
  BY <1>1 DEF NumberInv, Settled
<1>11. ASSUME NEW n \in 0 .. mapNodes PROVE image'[n] = image[n]
  <2>1. n \in DOMAIN image /\ n \notin mapNodes + 1 .. nextNode - 1
    BY <1>2, <1>5
  <2>2. ~\E l \in DOMAIN levels : Has(n, l)
    BY <1>6, <2>1
  <2> HIDE DEF Has, Row, Col
  <2> QED
    BY <1>1, <2>1, <2>2
<1>12. ASSUME NEW l \in DOMAIN levels, NEW i \in DOMAIN assigned[l]
       PROVE  image'[assigned[l][i]] = LevelNode(l, i)
  <2> DEFINE n == assigned[l][i]
  <2>1. n \in DOMAIN image
    BY <1>6
  <2>2. \E k \in DOMAIN levels : Has(n, k)
    OBVIOUS
  <2>3. Row(n) \in DOMAIN levels /\ Has(n, Row(n))
    <3> HIDE DEF Has, n
    <3> QED
      BY <2>2
  <2>4. Row(n) = l
    <3> DEFINE k == Row(n)
    <3>1. k \in DOMAIN levels /\ Has(n, k)
      BY <2>3
    <3> HIDE DEF k
    <3>2. PICK j \in DOMAIN assigned[k] : assigned[k][j] = assigned[l][i]
      BY <3>1
    <3>3. k = l
      BY <1>2, <1>3, <3>1, <3>2
    <3> QED
      BY <3>3 DEF k
  <2>5. Col(n, l) = i
    <3> DEFINE j == Col(n, l)
    <3>1. j \in DOMAIN assigned[l] /\ assigned[l][j] = n
      OBVIOUS
    <3> HIDE DEF j
    <3>2. j = i
      BY <1>2, <1>3, <3>1
    <3> QED
      BY <3>2 DEF j
  <2>6. image'[n] = LevelNode(Row(n), Col(n, Row(n)))
    <3> HIDE DEF Row, Col, Has, n
    <3> QED
      BY <1>1, <2>1, <2>2
  <2> HIDE DEF Row, Col
  <2> QED
    BY <2>4, <2>5, <2>6
<1> HIDE DEF Has, Row, Col
<1>13. ImageInv'
  <2>1. image'[0] = HeaderNode(nextNode, totalNodes)'
    <3>1. 0 \in 0 .. mapNodes
      BY <1>2
    <3>2. image'[0] = HeaderNode(nextNode, totalNodes)
      BY <1>5, <1>11, <3>1
    <3>3. HeaderNode(nextNode, totalNodes)' = HeaderNode(nextNode, totalNodes)
      BY <1>1, HeaderNodeSame
    <3> QED
      BY <1>1, <3>2, <3>3
  <2>2. ASSUME NEW n \in 1 .. mapNodes' PROVE image'[n] = MapNode(n - 1, nextNode)'
    <3>1. n \in 1 .. mapNodes /\ n \in 0 .. mapNodes
      BY <1>1, <1>2
    <3>2. image'[n] = MapNode(n - 1, nextNode)
      BY <1>5, <1>11, <3>1
    <3>3. MapNode(n - 1, nextNode)' = MapNode(n - 1, nextNode)
      BY <1>1, MapNodeSame
    <3> QED
      BY <1>1, <3>2, <3>3
  <2>3. ASSUME NEW l \in DOMAIN levels', NEW i \in DOMAIN assigned'[l]
        PROVE  image'[assigned'[l][i]] = LevelNode(l, i)'
    <3>1. LevelNode(l, i)' = LevelNode(l, i)
      BY <1>1, LevelNodeSame
    <3> QED
      BY <1>1, <1>12, <3>1
  <2>4. nextNode' .. totalNodes' - 1 = {}
    BY <1>1, <1>2, <1>4
  <2>5. DOMAIN image' = 0 .. totalNodes' - 1
    BY <1>1, <1>8
  <2>6. pc' = "pad"
    BY <1>1
  <2> QED
    BY <2>1, <2>2, <2>3, <2>4, <2>5, <2>6 DEF ImageInv
<1> QED
  BY <1>7, <1>9, <1>10, <1>13 DEF BTreeInv

----------------------------------------------------------------------------
(* Padding.                                                                *)

\* The whole blocks and the nodes in them.
LEMMA Whole ==
    ASSUME NEW m \in Nat, NEW d \in Nat, d > 0
    PROVE  m \div d \in Nat /\ (m \div d) * d <= m /\ m < (m \div d) * d + d
<1>1. m \div d \in Int /\ m % d \in 0 .. d - 1 /\ m = d * (m \div d) + (m % d)
  OBVIOUS
<1> DEFINE q == m \div d
<1> HIDE DEF q
<1>2. q \in Int /\ d * q <= m /\ m < d * q + d /\ d * q = q * d
  BY <1>1 DEF q
<1>3. q >= 0
  <2> SUFFICES ASSUME q <= -1 PROVE FALSE
    BY <1>2
  <2>1. d * q <= -d
    BY <1>2
  <2> QED
    BY <1>2, <2>1
<1> QED
  BY <1>2, <1>3 DEF q

LEMMA ForkHolds ==
    ASSUME NEW b \in BlockSizes, totalNodes \in Nat
    PROVE  Fork(b) \in Nat /\ Fork(b) \div NodeSize \in Nat /\ totalNodes <= Fork(b) \div NodeSize
<1>1. b \in Nat /\ b > 0 /\ NodeSize \in Nat /\ NodeSize > 0
  BY BTreeAssumption
<1> DEFINE t == totalNodes * NodeSize
           m == t + b - 1
           q == m \div b
           f == q * b
<1>2. t \in Nat
  BY <1>1
<1> HIDE DEF t
<1>3. m \in Nat
  BY <1>1, <1>2
<1> HIDE DEF m
<1>4. q \in Nat /\ f <= m /\ m < f + b
  BY <1>1, <1>3, Whole
<1>5. f \in Nat
  BY <1>1, <1>4
<1>6. Fork(b) = f
  BY DEF Fork, RoundUp, f, q, m, t
<1> HIDE DEF q, f
<1>7. t <= f
  BY <1>1, <1>2, <1>4, <1>5 DEF m
<1> DEFINE k == f \div NodeSize
<1>8. k \in Nat /\ f < k * NodeSize + NodeSize
  BY <1>1, <1>5, Whole
<1> HIDE DEF k
<1>9. totalNodes <= k
  <2> SUFFICES ASSUME k + 1 <= totalNodes PROVE FALSE
    BY <1>8
  <2>1. (k + 1) * NodeSize <= totalNodes * NodeSize
    BY <1>1, <1>8
  <2>2. (k + 1) * NodeSize = k * NodeSize + NodeSize /\ k * NodeSize \in Nat
    BY <1>1, <1>8
  <2>3. k * NodeSize + NodeSize <= t
    BY <2>1, <2>2 DEF t
  <2> DEFINE x == k * NodeSize
  <2>4. x \in Nat /\ f < x + NodeSize /\ x + NodeSize <= t
    BY <1>8, <2>2, <2>3
  <2> HIDE DEF x
  <2> QED
    BY <1>1, <1>2, <1>5, <1>7, <2>4
<1> QED
  BY <1>5, <1>6, <1>8, <1>9 DEF k

LEMMA PadStep == ASSUME NEW b \in BlockSizes PROVE BTreeInv /\ Pad(b) => BTreeInv'
<1> SUFFICES ASSUME BTreeInv, Pad(b) PROVE BTreeInv'
  OBVIOUS
<1> DEFINE total == Fork(b) \div NodeSize
<1>1. /\ CountInv /\ NumberInv
      /\ pc = "pad" /\ ~Packing
      /\ blockSize' = b
      /\ UNCHANGED <<records, pos, cur, used, nodes, levels, mapNodes, assigned, nextNode>>
  BY DEF BTreeInv, Pad, Packing
<1>2. /\ levels \in Levels /\ DOMAIN levels = 1 .. Len(levels) /\ Len(levels) \in Nat
      /\ totalNodes \in Nat \ {0} /\ mapNodes \in Nat
      /\ mapNodes < totalNodes /\ TreeNodes(levels) \in Nat
      /\ nextNode \in Nat \ {0} /\ Len(assigned) <= Len(levels)
  BY <1>1, LateFacts
<1>3. /\ nextNode = mapNodes + TreeNodes(levels) /\ mapNodes < nextNode
      /\ \A l \in 1 .. Len(levels) :
            /\ DOMAIN assigned[l] = 1 .. Len(levels[l].nodes)
            /\ \A i \in 1 .. Len(levels[l].nodes) : assigned[l][i] \in mapNodes + 1 .. nextNode - 1
  BY <1>1, Numbers
<1>4. /\ DOMAIN image = 0 .. totalNodes - 1
      /\ image[0] = HeaderNode(nextNode, totalNodes)
      /\ \A n \in 1 .. mapNodes : image[n] = MapNode(n - 1, nextNode)
      /\ \A l \in DOMAIN levels : \A i \in DOMAIN assigned[l] : image[assigned[l][i]] = LevelNode(l, i)
  BY <1>1, ImageParts
<1>5. totalNodes = nextNode
  BY <1>1, <1>3 DEF CountInv
<1>6. MapCoverage' = MapCoverage
  BY <1>1 DEF MapCoverage
<1>7. CASE pc' = "error" /\ UNCHANGED <<image, totalNodes>>
  <2>1. RecordsInv' /\ PackInv' /\ LevelsInv'
    BY <1>1, <1>7, LateFrame, LateLevels
  <2>2. BTreeTypeOK'
    <3>1. mapNodes' \in 0 .. totalNodes' - 1
      BY <1>1, <1>2, <1>7
    <3> QED
      BY <1>1, <1>2, <1>4, <1>7, <3>1, LateTypeOK
  <2>3. CountInv'
    BY <1>7 DEF CountInv, Packing, Settled
  <2>4. NumberInv'
    BY <1>1, <1>7 DEF NumberInv, Settled
  <2>5. ImageInv'
    BY <1>7 DEF ImageInv
  <2> QED
    BY <2>1, <2>2, <2>3, <2>4, <2>5 DEF BTreeInv
<1>8. CASE /\ Describes(total)
           /\ image' = [n \in 0 .. total - 1 |->
                IF n = 0 THEN [image[0] EXCEPT !.items = <<Header(total, total - totalNodes)>>]
                ELSE IF n < totalNodes THEN image[n] ELSE Blank]
           /\ totalNodes' = total
           /\ pc' = "done"
  <2>1. total \in Nat /\ totalNodes <= total
    BY <1>2, ForkHolds
  <2> HIDE DEF total
  <2>2. RecordsInv' /\ PackInv' /\ LevelsInv'
    BY <1>1, <1>8, LateFrame, LateLevels
  <2>3. BTreeTypeOK'
    <3>1. mapNodes' \in 0 .. totalNodes' - 1 /\ totalNodes' \in Nat \ {0}
      BY <1>1, <1>2, <1>8, <2>1
    <3>2. DOMAIN image' = 0 .. totalNodes' - 1
      BY <1>8
    <3> QED
      BY <1>1, <1>2, <1>8, <3>1, <3>2, LateTypeOK
  <2>4. CountInv'
    <3>1. mapNodes' > 0 => mapNodes' + TreeNodes(levels') - 1 > Coverage(mapNodes' - 1)
      BY <1>1 DEF CountInv
    <3>2. mapNodes' + TreeNodes(levels') <= totalNodes'
      BY <1>1, <1>2, <1>3, <1>5, <1>8, <2>1
    <3>3. totalNodes' <= MapCoverage'
      BY <1>6, <1>8 DEF Describes
    <3> QED
      BY <1>8, <3>1, <3>2, <3>3 DEF CountInv, Packing, Settled
  <2>5. NumberInv'
    BY <1>1, <1>8 DEF NumberInv, Settled
  <2>6. ImageInv'
    <3>1. image'[0] = HeaderNode(nextNode, totalNodes)'
      <4>1. image'[0] = [HeaderNode(nextNode, totalNodes) EXCEPT !.items = <<Header(total, total - totalNodes)>>]
        BY <1>2, <1>4, <1>8, <2>1
      <4>2. [HeaderNode(nextNode, totalNodes) EXCEPT !.items = <<Header(total, total - totalNodes)>>]
              = Node("header", 0, IF mapNodes > 0 THEN 1 ELSE 0, 0, <<Header(total, total - nextNode)>>,
                     {n \in 0 .. nextNode - 1 : n < HeaderMap})
        <5> DEFINE link  == IF mapNodes > 0 THEN 1 ELSE 0
                   marks == {n \in 0 .. nextNode - 1 : n < HeaderMap}
                   was   == <<Header(totalNodes, totalNodes - nextNode)>>
                   is    == <<Header(total, total - nextNode)>>
        <5>1. HeaderNode(nextNode, totalNodes) = Node("header", 0, link, 0, was, marks)
          BY DEF HeaderNode
        <5>2. <<Header(total, total - totalNodes)>> = is
          BY <1>5
        <5> HIDE DEF link, marks, was, is
        <5>3. [Node("header", 0, link, 0, was, marks) EXCEPT !.items = is]
                = Node("header", 0, link, 0, is, marks)
          BY DEF Node
        <5>4. QED
          BY <5>1, <5>2, <5>3 DEF link, marks, is
      <4>3. Header(total, total - nextNode) = Header(totalNodes, totalNodes - nextNode)'
        BY <1>1, <1>8 DEF Header
      <4>4. HeaderNode(nextNode, totalNodes)'
              = Node("header", 0, IF mapNodes > 0 THEN 1 ELSE 0, 0, <<Header(totalNodes, totalNodes - nextNode)'>>,
                     {n \in 0 .. nextNode - 1 : n < HeaderMap})
        BY <1>1 DEF HeaderNode, Node, HeaderMap
      <4> QED
        BY <4>1, <4>2, <4>3, <4>4
    <3>2. ASSUME NEW n \in 1 .. mapNodes' PROVE image'[n] = MapNode(n - 1, nextNode)'
      <4>1. n \in 1 .. mapNodes /\ n # 0 /\ n < totalNodes /\ n \in 0 .. total - 1
        BY <1>1, <1>2, <2>1
      <4>2. image'[n] = MapNode(n - 1, nextNode)
        BY <1>4, <1>8, <4>1
      <4>3. MapNode(n - 1, nextNode)' = MapNode(n - 1, nextNode)
        BY <1>1, MapNodeSame
      <4> QED
        BY <4>2, <4>3
    <3>3. ASSUME NEW l \in DOMAIN levels', NEW i \in DOMAIN assigned'[l]
          PROVE  image'[assigned'[l][i]] = LevelNode(l, i)'
      <4> DEFINE n == assigned[l][i]
      <4>1. n \in mapNodes + 1 .. nextNode - 1 /\ l \in DOMAIN levels /\ i \in DOMAIN assigned[l]
        BY <1>1, <1>2, <1>3
      <4>2. image[n] = LevelNode(l, i)
        BY <1>4, <4>1
      <4> HIDE DEF n
      <4>3. n # 0 /\ n < totalNodes /\ n \in 0 .. total - 1
        BY <1>2, <1>5, <2>1, <4>1
      <4>4. image'[n] = LevelNode(l, i)
        BY <1>8, <4>2, <4>3
      <4>5. LevelNode(l, i)' = LevelNode(l, i)
        BY <1>1, LevelNodeSame
      <4> QED
        BY <1>1, <4>4, <4>5 DEF n
    <3>4. ASSUME NEW n \in nextNode' .. totalNodes' - 1 PROVE image'[n] = Blank'
      <4>1. n \in 0 .. total - 1 /\ n # 0 /\ ~(n < totalNodes)
        BY <1>1, <1>2, <1>5, <1>8, <2>1
      <4>2. Blank' = Blank
        BY DEF Blank, Node
      <4> QED
        BY <1>8, <4>1, <4>2
    <3>5. DOMAIN image' = 0 .. totalNodes' - 1 /\ pc' = "done"
      BY <1>8
    <3> QED
      BY <3>1, <3>2, <3>3, <3>4, <3>5 DEF ImageInv
  <2> QED
    BY <2>2, <2>3, <2>4, <2>5, <2>6 DEF BTreeInv
<1> QED
  BY <1>7, <1>8, Zenon DEF Pad

----------------------------------------------------------------------------
(* The invariant holds.                                                    *)

LEMMA BTreeInvInit == BTreeInit => BTreeInv
<1> SUFFICES ASSUME BTreeInit PROVE BTreeInv
  OBVIOUS
<1> DEFINE R == [key : KeySizes, data : DataSizes]
<1>1. PICK n \in 0 .. MaxRecords : records \in [1 .. n -> R]
  BY DEF BTreeInit
<1>2. records \in Seq(R) /\ Len(records) \in Nat /\ DOMAIN records = 1 .. Len(records)
  <2>1. n \in Nat
    BY <1>1, BTreeAssumption
  <2>2. records = [i \in 1 .. n |-> records[i]] /\ \A i \in 1 .. n : records[i] \in R
    BY <1>1
  <2> HIDE DEF R
  <2>3. [i \in 1 .. n |-> records[i]] \in Seq(R)
    BY <2>1, <2>2, IsASeq
  <2> QED
    BY <2>2, <2>3, LenProperties
<1>3. /\ pc = "leaves" /\ pos = 1 /\ cur = <<>> /\ used = EmptyNode /\ nodes = <<>>
      /\ levels = <<>> /\ totalNodes = 1 /\ mapNodes = 0 /\ assigned = <<>> /\ nextNode = 1
      /\ image = <<>> /\ blockSize = 0
  BY DEF BTreeInit
<1>4. EmptyNode \in Nat /\ NodeSize \in Nat /\ EmptyNode <= NodeSize
  BY BTreeAssumption DEF EmptyNode
<1>5. /\ cur \in Seq(Nat) /\ nodes \in Seq(Seq(Nat)) /\ assigned \in Seq(Seq(Nat))
      /\ levels \in Levels /\ DOMAIN nodes = {} /\ DOMAIN levels = {} /\ DOMAIN assigned = {}
      /\ Len(levels) = 0 /\ Len(assigned) = 0
  BY <1>3, EmptySeq DEF Levels
<1>6. BTreeTypeOK
  BY <1>2, <1>3, <1>4, <1>5 DEF BTreeTypeOK
<1>7. RecordsInv
  <2>1. \A r \in DOMAIN records : r >= pos
    BY <1>2, <1>3
  <2> QED
    BY <1>2, <1>3, <2>1 DEF RecordsInv
<1>8. LevelsInv
  BY <1>3, <1>5 DEF LevelsInv, Packing, Levels
<1>9. PackInv
  <2>1. PackedTo(<<>>, <<>>, 1, EmptyNode, ItemBytes)
    BY <1>7, <1>8, BelowType, PackedNothing
  <2> QED
    BY <1>3, <1>5, <2>1 DEF PackInv, ItemBytes, Below
<1>10. CountInv
  BY <1>3 DEF CountInv, Packing, Settled
<1>11. NumberInv
  BY <1>3, <1>5 DEF NumberInv, Settled
<1>12. ImageInv
  BY <1>3 DEF ImageInv
<1> QED
  BY <1>6, <1>7, <1>8, <1>9, <1>10, <1>11, <1>12 DEF BTreeInv

LEMMA BTreeInvStep == BTreeInv /\ [BTreeStep \/ BTreeOver]_vars => BTreeInv'
<1> SUFFICES ASSUME BTreeInv, [BTreeStep \/ BTreeOver]_vars PROVE BTreeInv'
  OBVIOUS
<1>1. CASE BTreeStep
  BY <1>1, PackLeafStep, LeavesPackedStep, PackIndexStep, LevelPackedStep, LevelsBuiltStep,
     AddMapNodeStep, MapSettledStep, NumberLevelStep, NumberedStep, EmitHeaderStep,
     EmitMapNodesStep, EmitLevelsStep, PadStep, Zenon DEF BTreeStep
<1>2. CASE UNCHANGED vars
  <2>1. /\ pc' = pc
        /\ UNCHANGED <<records, pos, cur, used, nodes, levels, totalNodes, mapNodes, assigned,
                       nextNode, image, blockSize>>
    BY <1>2 DEF vars
  <2>2. BTreeTypeOK'
    BY <2>1 DEF BTreeInv, BTreeTypeOK, EmptyNode
  <2>3. RecordsInv'
    BY <2>1 DEF BTreeInv, RecordsInv, LeafSize, EmptyNode
  <2>4. LevelsInv'
    BY <2>1 DEF BTreeInv, LevelsInv, Packing, Top
  <2>5. PackInv'
    BY <2>1 DEF BTreeInv, PackInv, Packing
  <2>6. CountInv'
    BY <2>1 DEF BTreeInv, CountInv, Packing, Settled, MapCoverage
  <2>7. NumberInv'
    BY <2>1 DEF BTreeInv, NumberInv, Settled
  <2>8. ImageInv'
    <3>1. HeaderNode(nextNode, totalNodes)' = HeaderNode(nextNode, totalNodes)
      BY <2>1, HeaderNodeSame
    <3>2. \A n : MapNode(n - 1, nextNode)' = MapNode(n - 1, nextNode)
      BY <2>1, MapNodeSame
    <3>3. \A l, i : LevelNode(l, i)' = LevelNode(l, i)
      BY <2>1, LevelNodeSame
    <3> QED
      BY <2>1, <3>1, <3>2, <3>3 DEF BTreeInv, ImageInv, Packing
  <2> QED
    BY <2>2, <2>3, <2>4, <2>5, <2>6, <2>7, <2>8 DEF BTreeInv
<1> QED
  BY <1>1, <1>2 DEF BTreeOver

\* The inductive invariant of BuildTree and PadToBlocks: every level tiles the items it
\* is packed from, in order and within the nodes, the counts are those of the levels,
\* and each emitted node is the one its number says, whatever the records are.
THEOREM BTreeInvCorrect == BTreeSpec => []BTreeInv
<1>1. BTreeInit => BTreeInv
  BY BTreeInvInit
<1>2. BTreeInv /\ [BTreeStep \/ BTreeOver]_vars => BTreeInv'
  BY BTreeInvStep
<1> QED
  BY <1>1, <1>2, PTL DEF BTreeSpec

\* The index levels always end in a root, no node overflows while it is packed, and the
\* numbers and counts keep to their ranges.
THEOREM BTreeTypeCorrect == BTreeSpec => []BTreeTypeOK
<1>1. BTreeInv => BTreeTypeOK
  BY DEF BTreeInv
<1> QED
  BY <1>1, BTreeInvCorrect, PTL

----------------------------------------------------------------------------
(* The tree a reader finds.  A level as the proofs below use it: its keys, *)
(* its nodes and where each of them ends.                                  *)

Width(l) == Len(levels[l].nodes)
KeysOf(l) == Keys(records, levels, l)
Ends(l) == Edges(levels[l].nodes)

LEMMA LevelFacts ==
    ASSUME RecordsInv, LevelsInv, NEW l \in 1 .. Len(levels)
    PROVE  /\ Width(l) \in Nat /\ DOMAIN levels[l].nodes = 1 .. Width(l)
           /\ Ends(l) \in [0 .. Width(l) -> Nat] /\ Ends(l)[0] = 0
           /\ Ends(l)[Width(l)] = Len(KeysOf(l))
           /\ \A i \in 1 .. Width(l) : Ends(l)[i - 1] < Ends(l)[i]
           /\ \A i, j \in 0 .. Width(l) : i <= j => Ends(l)[i] <= Ends(l)[j]
           /\ \A i \in 1 .. Width(l) :
                 /\ levels[l].nodes[i] \in Seq(Nat) /\ levels[l].nodes[i] # <<>>
                 /\ Len(levels[l].nodes[i]) = Ends(l)[i] - Ends(l)[i - 1]
                 /\ DOMAIN levels[l].nodes[i] = 1 .. Len(levels[l].nodes[i])
                 /\ \A j \in 1 .. Len(levels[l].nodes[i]) :
                       levels[l].nodes[i][j] = Ends(l)[i - 1] + j
                 /\ Fill(Of(Bytes(records, KeysOf(l), l), levels[l].nodes[i])) <= NodeSize
           /\ levels[l].firstKey = [i \in 1 .. Width(l) |-> KeysOf(l)[levels[l].nodes[i][1]]]
<1>1. Packed(levels[l], records, KeysOf(l), l)
  BY LevelsType DEF KeysOf
<1>2. Tiles(levels[l].nodes, Len(KeysOf(l)))
  BY <1>1 DEF Packed
<1> DEFINE ns == levels[l].nodes
           f == Edges(ns)
           n == Len(KeysOf(l))
<1> HIDE DEF n
<1>3. Tiles(ns, n)
  BY <1>2 DEF n
<1> HIDE DEF ns
<1>4. /\ ns \in Seq(Seq(Nat)) /\ Len(ns) \in Nat /\ DOMAIN ns = 1 .. Len(ns)
      /\ f \in [0 .. Len(ns) -> Nat] /\ f[0] = 0 /\ f[Len(ns)] = n
      /\ \A i \in 1 .. Len(ns) : f[i - 1] < f[i]
      /\ \A i, j \in 0 .. Len(ns) : i <= j => f[i] <= f[j]
      /\ \A i \in 1 .. Len(ns) :
                     /\ ns[i] \in Seq(Nat) /\ ns[i] # <<>> /\ Len(ns[i]) = f[i] - f[i - 1]
                     /\ DOMAIN ns[i] = 1 .. Len(ns[i])
                     /\ \A j \in 1 .. Len(ns[i]) : ns[i][j] = f[i - 1] + j
  BY <1>3, TilesEdges
<1>5. /\ \A i \in DOMAIN ns : Fill(Of(Bytes(records, KeysOf(l), l), ns[i])) <= NodeSize
      /\ levels[l].firstKey = [i \in DOMAIN ns |-> KeysOf(l)[ns[i][1]]]
  BY <1>1 DEF Packed, ns
<1>6. f = Ends(l) /\ Len(ns) = Width(l)
  BY DEF ns, Ends, Width
<1> HIDE DEF f
<1> QED
  BY <1>4, <1>5, <1>6 DEF ns, n

LEMMA KeyFacts ==
    ASSUME RecordsInv, LevelsInv, NEW l \in 1 .. Len(levels)
    PROVE  /\ Len(KeysOf(l)) \in Nat /\ DOMAIN KeysOf(l) = 1 .. Len(KeysOf(l))
           /\ Len(records) \in Nat /\ DOMAIN records = 1 .. Len(records)
           /\ \A c \in 1 .. Len(KeysOf(l)) : KeysOf(l)[c] \in 1 .. Len(records)
           /\ \A c, d \in 1 .. Len(KeysOf(l)) : c < d => KeysOf(l)[c] < KeysOf(l)[d]
           /\ Len(records) > 0 => Len(KeysOf(l)) > 0 /\ KeysOf(l)[1] = 1
           /\ l = 1 => Len(KeysOf(l)) = Len(records)
                       /\ \A c \in 1 .. Len(records) : KeysOf(l)[c] = c
           /\ l > 1 => l - 1 \in 1 .. Len(levels) /\ KeysOf(l) = levels[l - 1].firstKey
                       /\ Len(KeysOf(l)) = Width(l - 1)
<1>1. Len(levels) \in Nat /\ Len(records) \in Nat /\ DOMAIN records = 1 .. Len(records)
  BY LenProperties DEF LevelsInv, RecordsInv
<1>2. Ascends(KeysOf(l), Len(records))
  <2>1. l \in 1 .. Len(levels) + 1
    BY <1>1
  <2> QED
    BY <2>1, KeysAscend DEF KeysOf
<1>3. /\ KeysOf(l) \in Seq(1 .. Len(records))
      /\ Len(KeysOf(l)) \in Nat /\ DOMAIN KeysOf(l) = 1 .. Len(KeysOf(l))
      /\ \A c \in 1 .. Len(KeysOf(l)) : KeysOf(l)[c] \in 1 .. Len(records)
  BY <1>2, LenProperties, ElementOfSeq DEF Ascends
<1>4. /\ \A c, d \in 1 .. Len(KeysOf(l)) : c < d => KeysOf(l)[c] < KeysOf(l)[d]
      /\ Len(records) > 0 => KeysOf(l) # <<>> /\ KeysOf(l)[1] = 1
  BY <1>2, <1>3 DEF Ascends
<1>5. Len(records) > 0 => Len(KeysOf(l)) > 0
  BY <1>3, <1>4, EmptySeq
<1>6. ASSUME l = 1
      PROVE  Len(KeysOf(l)) = Len(records) /\ \A c \in 1 .. Len(records) : KeysOf(l)[c] = c
  <2>1. KeysOf(l) = [r \in 1 .. Len(records) |-> r]
    BY <1>1, <1>6 DEF KeysOf, Keys
  <2>2. DOMAIN KeysOf(l) = 1 .. Len(records) /\ \A c \in 1 .. Len(records) : KeysOf(l)[c] = c
    BY <2>1
  <2>3. Len(KeysOf(l)) = Len(records)
    <3> DEFINE w == Len(records)
               m == Len(KeysOf(l))
    <3>1. w \in Nat /\ m \in Nat /\ 1 .. m = 1 .. w
      BY <1>1, <1>3, <2>2, Zenon
    <3> HIDE DEF w, m
    <3>2. m = w
      BY <3>1
    <3> QED
      BY <3>2 DEF w, m
  <2> QED
    BY <2>2, <2>3
<1>7. ASSUME l > 1
      PROVE  l - 1 \in 1 .. Len(levels) /\ KeysOf(l) = levels[l - 1].firstKey
             /\ Len(KeysOf(l)) = Width(l - 1)
  <2>1. l - 1 \in 1 .. Len(levels) /\ l # 1
    BY <1>1, <1>7
  <2>2. KeysOf(l) = levels[l - 1].firstKey
    BY <2>1 DEF KeysOf, Keys
  <2>3. DOMAIN levels[l - 1].firstKey = 1 .. Width(l - 1) /\ Width(l - 1) \in Nat
    <3> DEFINE k == l - 1
    <3>1. k \in 1 .. Len(levels)
      BY <2>1
    <3> HIDE DEF k
    <3>2. /\ levels[k].firstKey = [i \in 1 .. Width(k) |-> KeysOf(k)[levels[k].nodes[i][1]]]
          /\ Width(k) \in Nat
      BY <3>1, LevelFacts
    <3>3. DOMAIN levels[k].firstKey = 1 .. Width(k)
      BY <3>2
    <3> QED
      BY <3>2, <3>3 DEF k
  <2>4. Len(KeysOf(l)) = Width(l - 1)
    <3> DEFINE w == Width(l - 1)
               m == Len(KeysOf(l))
    <3>1. w \in Nat /\ m \in Nat /\ 1 .. m = 1 .. w
      BY <1>3, <2>2, <2>3
    <3> HIDE DEF w, m
    <3>2. m = w
      BY <3>1
    <3> QED
      BY <3>2 DEF w, m
  <2> QED
    BY <2>1, <2>2, <2>4
<1>8. Len(records) > 0 => Len(KeysOf(l)) > 0 /\ KeysOf(l)[1] = 1
  BY <1>4, <1>5
<1>9. /\ l = 1 => Len(KeysOf(l)) = Len(records) /\ \A c \in 1 .. Len(records) : KeysOf(l)[c] = c
      /\ l > 1 => l - 1 \in 1 .. Len(levels) /\ KeysOf(l) = levels[l - 1].firstKey
                  /\ Len(KeysOf(l)) = Width(l - 1)
  BY <1>6, <1>7
<1> QED
  BY <1>1, <1>3, <1>4, <1>8, <1>9, Zenon

\* Every node of the finished tree is the header, a map node, the node of a level that
\* its number says, or room that is left.
LEMMA EmittedNodes ==
    ASSUME BTreeInv, Emitted
    PROVE  /\ DOMAIN image = 0 .. totalNodes - 1 /\ totalNodes \in Nat /\ mapNodes \in Nat
           /\ nextNode \in Nat /\ mapNodes < nextNode /\ nextNode <= totalNodes
           /\ nextNode = mapNodes + TreeNodes(levels)
           /\ Len(levels) \in Nat /\ DOMAIN levels = 1 .. Len(levels)
           /\ image[0] = HeaderNode(nextNode, totalNodes) /\ image[0].kind = "header"
           /\ \A n \in 1 .. mapNodes : image[n] = MapNode(n - 1, nextNode) /\ image[n].kind = "map"
           /\ \A l \in 1 .. Len(levels) :
                 /\ Width(l) \in Nat \ {0} /\ DOMAIN assigned[l] = 1 .. Width(l)
                 /\ Len(assigned[l]) = Width(l)
                 /\ \A i \in 1 .. Width(l) :
                       /\ assigned[l][i] \in mapNodes + 1 .. nextNode - 1
                       /\ image[assigned[l][i]] = LevelNode(l, i)
                       /\ image[assigned[l][i]].kind = IF l = 1 THEN "leaf" ELSE "index"
           /\ \A n \in mapNodes + 1 .. nextNode - 1 :
                 \E l \in 1 .. Len(levels) : \E i \in 1 .. Width(l) : assigned[l][i] = n
           /\ \A n \in nextNode .. totalNodes - 1 : image[n].kind = "blank"
<1>1. /\ pc \in {"emitHeader", "emitMap", "emitLevels", "pad", "done"}
      /\ pc \in {"emitMap", "emitLevels", "pad", "done"}
      /\ pc \notin {"emitMap", "emitLevels"} /\ pc # "emitMap" /\ pc # "error" /\ ~Packing
  BY DEF Emitted, Packing
<1>2. /\ Len(levels) \in Nat /\ DOMAIN levels = 1 .. Len(levels)
      /\ totalNodes \in Nat /\ mapNodes \in Nat /\ nextNode \in Nat
  BY <1>1, LateFacts
<1>3. /\ nextNode = mapNodes + TreeNodes(levels) /\ nextNode <= totalNodes
      /\ mapNodes < nextNode
      /\ \A l \in 1 .. Len(levels) :
            /\ DOMAIN assigned[l] = 1 .. Width(l)
            /\ Len(assigned[l]) = Width(l) /\ Width(l) \in Nat \ {0}
            /\ \A i \in 1 .. Width(l) : assigned[l][i] \in mapNodes + 1 .. nextNode - 1
      /\ \A n \in mapNodes + 1 .. nextNode - 1 :
            \E l \in 1 .. Len(levels) : \E i \in DOMAIN assigned[l] : assigned[l][i] = n
  BY <1>1, Numbers, Zenon DEF Width
<1>4. /\ DOMAIN image = 0 .. totalNodes - 1
      /\ image[0] = HeaderNode(nextNode, totalNodes)
      /\ \A n \in 1 .. mapNodes : image[n] = MapNode(n - 1, nextNode)
      /\ \A l \in DOMAIN levels : \A i \in DOMAIN assigned[l] :
            image[assigned[l][i]] = LevelNode(l, i)
      /\ \A n \in nextNode .. totalNodes - 1 : image[n] = Blank
  BY <1>1, ImageParts, Zenon
<1>5. image[0].kind = "header"
  BY <1>4 DEF HeaderNode, Node
<1>6. \A n \in 1 .. mapNodes : image[n] = MapNode(n - 1, nextNode) /\ image[n].kind = "map"
  BY <1>4 DEF MapNode, Node
<1>7. \A n \in nextNode .. totalNodes - 1 : image[n].kind = "blank"
  BY <1>4 DEF Blank, Node
<1>8. ASSUME NEW l \in 1 .. Len(levels), NEW i \in 1 .. Width(l)
      PROVE  /\ image[assigned[l][i]] = LevelNode(l, i)
             /\ image[assigned[l][i]].kind = IF l = 1 THEN "leaf" ELSE "index"
  <2>1. image[assigned[l][i]] = LevelNode(l, i)
    BY <1>2, <1>3, <1>4
  <2>2. LevelNode(l, i).kind = IF l = 1 THEN "leaf" ELSE "index"
    BY DEF LevelNode, Node
  <2> QED
    BY <2>1, <2>2
<1>9. \A l \in 1 .. Len(levels) :
            /\ Width(l) \in Nat \ {0} /\ DOMAIN assigned[l] = 1 .. Width(l)
            /\ Len(assigned[l]) = Width(l)
            /\ \A i \in 1 .. Width(l) :
                  /\ assigned[l][i] \in mapNodes + 1 .. nextNode - 1
                  /\ image[assigned[l][i]] = LevelNode(l, i)
                  /\ image[assigned[l][i]].kind = IF l = 1 THEN "leaf" ELSE "index"
  BY <1>3, <1>8, Zenon
<1>10. \A n \in mapNodes + 1 .. nextNode - 1 :
          \E l \in 1 .. Len(levels) : \E i \in 1 .. Width(l) : assigned[l][i] = n
  BY <1>3, Zenon
<1> QED
  BY <1>2, <1>3, <1>4, <1>5, <1>6, <1>7, <1>9, <1>10, Zenon

\* The room that is left is what no node of the tree stands in.
LEMMA InUseIs ==
    ASSUME BTreeInv, Emitted
    PROVE  InUse = 0 .. nextNode - 1 /\ DOMAIN image \ InUse = nextNode .. totalNodes - 1
<1>1. /\ DOMAIN image = 0 .. totalNodes - 1 /\ totalNodes \in Nat /\ mapNodes \in Nat
      /\ nextNode \in Nat /\ mapNodes < nextNode /\ nextNode <= totalNodes
      /\ image[0].kind = "header"
      /\ \A n \in 1 .. mapNodes : image[n].kind = "map"
      /\ \A n \in nextNode .. totalNodes - 1 : image[n].kind = "blank"
  BY EmittedNodes
<1>2. ASSUME NEW n \in mapNodes + 1 .. nextNode - 1 PROVE image[n].kind \in {"leaf", "index"}
  <2>1. PICK l \in 1 .. Len(levels) : \E i \in 1 .. Width(l) : assigned[l][i] = n
    BY EmittedNodes
  <2>2. PICK i \in 1 .. Width(l) : assigned[l][i] = n
    BY <2>1
  <2>3. image[assigned[l][i]].kind = IF l = 1 THEN "leaf" ELSE "index"
    BY EmittedNodes
  <2> QED
    BY <2>2, <2>3
<1>3. ASSUME NEW n \in 0 .. nextNode - 1 PROVE n \in DOMAIN image /\ image[n].kind # "blank"
  <2>1. n \in DOMAIN image /\ (n = 0 \/ n \in 1 .. mapNodes \/ n \in mapNodes + 1 .. nextNode - 1)
    BY <1>1
  <2> QED
    BY <1>1, <1>2, <2>1
<1>4. \A n \in DOMAIN image : n \in 0 .. nextNode - 1 \/ n \in nextNode .. totalNodes - 1
  BY <1>1
<1>5. InUse = 0 .. nextNode - 1
  BY <1>1, <1>3, <1>4 DEF InUse
<1> QED
  BY <1>1, <1>5

\* The bytes of a node's items are those it was packed by.
LEMMA SizesAre ==
    ASSUME BTreeInv, Emitted, NEW l \in 1 .. Len(levels), NEW i \in 1 .. Width(l)
    PROVE  SizesOf(assigned[l][i]) = Of(Bytes(records, KeysOf(l), l), levels[l].nodes[i])
<1> DEFINE own == levels[l].nodes[i]
           keys == KeysOf(l)
           n == assigned[l][i]
<1>0. RecordsInv /\ LevelsInv /\ l \in Nat /\ l >= 1
  <2>1. Len(levels) \in Nat
    BY EmittedNodes
  <2> QED
    BY <2>1 DEF BTreeInv
<1>1. image[n] = LevelNode(l, i) /\ image[n].kind = IF l = 1 THEN "leaf" ELSE "index"
  BY EmittedNodes
<1>2. /\ Len(keys) \in Nat /\ DOMAIN keys = 1 .. Len(keys)
      /\ l = 1 => Len(keys) = Len(records) /\ \A c \in 1 .. Len(records) : keys[c] = c
      /\ l > 1 => keys = levels[l - 1].firstKey
  BY <1>0, KeyFacts
<1>3. \A j \in DOMAIN own : own[j] \in DOMAIN keys
  <2>1. /\ Ends(l) \in [0 .. Width(l) -> Nat]
        /\ Width(l) \in Nat /\ Ends(l)[Width(l)] = Len(keys)
        /\ \A a, b \in 0 .. Width(l) : a <= b => Ends(l)[a] <= Ends(l)[b]
        /\ Len(own) = Ends(l)[i] - Ends(l)[i - 1]
        /\ DOMAIN own = 1 .. Len(own)
        /\ \A j \in 1 .. Len(own) : own[j] = Ends(l)[i - 1] + j
    BY <1>0, LevelFacts
  <2> DEFINE a == Ends(l)[i - 1]
             b == Ends(l)[i]
             k == Len(keys)
  <2>2. i - 1 \in 0 .. Width(l) /\ i \in 0 .. Width(l) /\ i <= Width(l) /\ Width(l) \in 0 .. Width(l)
    BY <2>1
  <2>3. a \in Nat /\ b \in Nat /\ b <= k /\ k \in Nat
    BY <1>2, <2>1, <2>2
  <2>4. DOMAIN own = 1 .. b - a /\ \A j \in 1 .. b - a : own[j] = a + j
    BY <2>1
  <2> HIDE DEF a, b, k, own
  <2>5. \A j \in DOMAIN own : own[j] \in 1 .. k
    BY <2>3, <2>4
  <2> QED
    BY <1>2, <2>5 DEF k
<1> HIDE DEF n
<1>4. CASE l = 1
  <2>1. image[n].items = own /\ image[n].kind = "leaf"
    BY <1>1, <1>4 DEF LevelNode, Node
  <2>2. \A c \in DOMAIN keys : keys[c] = c
    BY <1>2, <1>4
  <2> HIDE DEF keys, own
  <2>3. SizesOf(n) = [j \in DOMAIN own |-> KeyLength + records[own[j]].key + records[own[j]].data]
    BY <2>1 DEF SizesOf
  <2>4. ASSUME NEW j \in DOMAIN own
        PROVE  Bytes(records, keys, l)[own[j]]
                  = KeyLength + records[own[j]].key + records[own[j]].data
    BY <1>3, <1>4, <2>2 DEF Bytes
  <2>5. Of(Bytes(records, keys, l), own) = SizesOf(n)
    BY <2>3, <2>4 DEF Of
  <2> QED
    BY <2>5 DEF keys, own, n
<1>5. CASE l # 1
  <2>0. l > 1 /\ image[n].kind = "index"
    BY <1>0, <1>1, <1>5
  <2>1. image[n].items = [j \in DOMAIN own |-> [key |-> keys[own[j]], child |-> Child(l, own[j])]]
    <3>1. LevelNode(l, i).items
            = IF l = 1 THEN levels[l].nodes[i]
              ELSE [j \in DOMAIN levels[l].nodes[i] |->
                      [key |-> levels[l - 1].firstKey[levels[l].nodes[i][j]],
                       child |-> Child(l, levels[l].nodes[i][j])]]
      BY DEF LevelNode, Node
    <3>2. image[n].items = [j \in DOMAIN own |->
                              [key |-> levels[l - 1].firstKey[own[j]], child |-> Child(l, own[j])]]
      BY <1>1, <1>5, <3>1, Zenon
    <3>3. keys = levels[l - 1].firstKey
      BY <1>2, <2>0
    <3> HIDE DEF keys, own
    <3> QED
      BY <3>2, <3>3
  <2> HIDE DEF keys, own
  <2>2. DOMAIN image[n].items = DOMAIN own /\ \A j \in DOMAIN own : image[n].items[j].key = keys[own[j]]
    BY <2>1
  <2>3. SizesOf(n) = [j \in DOMAIN own |-> KeyLength + records[keys[own[j]]].key + Pointer]
    BY <2>0, <2>2 DEF SizesOf
  <2>4. ASSUME NEW j \in DOMAIN own
        PROVE  Bytes(records, keys, l)[own[j]] = KeyLength + records[keys[own[j]]].key + Pointer
    BY <1>3, <1>5 DEF Bytes
  <2>5. Of(Bytes(records, keys, l), own) = SizesOf(n)
    BY <2>3, <2>4 DEF Of
  <2> QED
    BY <2>5 DEF keys, own, n
<1> QED
  BY <1>4, <1>5

\* The records of a node and its offset table, written from its two ends, never meet,
\* and the numbers of the nodes fill the tree, whatever BuildTree is given.
THEOREM NodesTileCorrect == BTreeSpec => []NodesTile
<1>1. BTreeInv => NodesTile
  <2> SUFFICES ASSUME BTreeInv PROVE NodesTile
    OBVIOUS
  <2>1. ASSUME pc = "pad" PROVE InUse = 0 .. totalNodes - 1
    <3>1. Emitted /\ totalNodes = mapNodes + TreeNodes(levels)
      BY <2>1 DEF Emitted, BTreeInv, CountInv
    <3>2. nextNode = mapNodes + TreeNodes(levels)
      BY <3>1, EmittedNodes
    <3> QED
      BY <3>1, <3>2, InUseIs
  <2>2. ASSUME Emitted, NEW n \in DOMAIN image, image[n].kind \in {"leaf", "index"}
        PROVE  Fill(SizesOf(n)) <= NodeSize
    <3>1. n \in mapNodes + 1 .. nextNode - 1
      <4>1. /\ DOMAIN image = 0 .. totalNodes - 1 /\ totalNodes \in Nat /\ mapNodes \in Nat
            /\ nextNode \in Nat /\ mapNodes < nextNode /\ nextNode <= totalNodes
            /\ image[0].kind = "header"
            /\ \A m \in 1 .. mapNodes : image[m].kind = "map"
            /\ \A m \in nextNode .. totalNodes - 1 : image[m].kind = "blank"
        BY <2>2, EmittedNodes
      <4>2. \/ n = 0 \/ n \in 1 .. mapNodes
            \/ n \in mapNodes + 1 .. nextNode - 1 \/ n \in nextNode .. totalNodes - 1
        BY <4>1
      <4> QED
        BY <2>2, <4>1, <4>2
    <3>2. PICK l \in 1 .. Len(levels) : \E i \in 1 .. Width(l) : assigned[l][i] = n
      BY <2>2, <3>1, EmittedNodes
    <3>3. PICK i \in 1 .. Width(l) : assigned[l][i] = n
      BY <3>2
    <3>4. SizesOf(n) = Of(Bytes(records, KeysOf(l), l), levels[l].nodes[i])
      BY <2>2, <3>3, SizesAre
    <3>5. Fill(Of(Bytes(records, KeysOf(l), l), levels[l].nodes[i])) <= NodeSize
      BY LevelFacts DEF BTreeInv
    <3> QED
      BY <3>4, <3>5
  <2> QED
    BY <2>1, <2>2 DEF NodesTile
<1> QED
  BY <1>1, BTreeInvCorrect, PTL

\* The marks of the header and of the map nodes, each taken from where its record of
\* the map starts, are the nodes of the tree.
From(bits, more, n) == bits + (n - 1) * more
MarksFrom(start, more, built) ==
    {m - start : m \in {k \in start .. built - 1 : k - start < more}}

LEMMA MarksMeet ==
    ASSUME NEW built \in Nat, NEW maps \in Nat, NEW bits \in Nat, NEW more \in Nat \ {0},
           built <= bits + maps * more, NEW m
    PROVE  \/ m \in {n \in 0 .. built - 1 : n < bits}
           \/ \E n \in 1 .. maps : \E b \in MarksFrom(From(bits, more, n), more, built) :
                 m = From(bits, more, n) + b
           <=> m \in 0 .. built - 1
<1> DEFINE from(n) == From(bits, more, n)
           marks(n) == MarksFrom(from(n), more, built)
           f == [n \in 0 .. maps |-> bits + n * more]
<1>1. ASSUME NEW n \in Nat PROVE n * more \in Nat /\ (n + 1) * more = n * more + more
  OBVIOUS
<1>2. f \in [0 .. maps -> Nat] /\ f[0] = bits /\ f[maps] = bits + maps * more
  <2>1. ASSUME NEW n \in 0 .. maps PROVE bits + n * more \in Nat
    <3> DEFINE x == n * more
    <3>1. x \in Nat
      BY <1>1
    <3> HIDE DEF x
    <3>2. bits + x \in Nat
      BY <3>1
    <3> QED
      BY <3>2 DEF x
  <2>2. 0 * more = 0 /\ 0 \in 0 .. maps /\ maps \in 0 .. maps
    OBVIOUS
  <2> QED
    BY <2>1, <2>2
<1>3. ASSUME NEW n \in 1 .. maps
      PROVE  /\ n - 1 \in 0 .. maps /\ n \in 0 .. maps
             /\ from(n) = f[n - 1] /\ f[n - 1] \in Nat /\ f[n] = f[n - 1] + more
  <2> DEFINE k == n - 1
             x == k * more
             y == n * more
  <2>1. k \in Nat /\ n = k + 1 /\ k \in 0 .. maps /\ n \in 0 .. maps
    OBVIOUS
  <2> HIDE DEF k
  <2>2. x \in Nat /\ y = x + more
    BY <1>1, <2>1
  <2>3. f[k] = bits + x /\ f[n] = bits + y
    BY <2>1
  <2>4. from(n) = bits + x
    BY DEF k, From
  <2> HIDE DEF x, y, f, from
  <2>5. from(n) = f[k] /\ f[k] \in Nat /\ f[n] = f[k] + more
    BY <2>2, <2>3, <2>4
  <2> QED
    BY <2>1, <2>5 DEF k
<1> HIDE DEF f
<1>4. ASSUME NEW n \in 1 .. maps
      PROVE  (\E b \in marks(n) : m = from(n) + b)
               <=> m \in 0 .. built - 1 /\ f[n - 1] <= m /\ m < f[n]
  <2> DEFINE a == f[n - 1]
             z == f[n]
  <2>1. from(n) = a /\ a \in Nat /\ z = a + more
    BY <1>3
  <2>2. marks(n) = {k - a : k \in {k \in a .. built - 1 : k - a < more}}
    BY <2>1 DEF MarksFrom
  <2> HIDE DEF a, z, from, marks
  <2>3. ASSUME NEW b \in marks(n)
        PROVE  a + b \in 0 .. built - 1 /\ a <= a + b /\ a + b < z
    <3>1. PICK k \in a .. built - 1 : k - a < more /\ b = k - a
      BY <2>2
    <3> QED
      BY <2>1, <3>1
  <2>4. ASSUME m \in 0 .. built - 1, a <= m, m < z PROVE m - a \in marks(n) /\ m = a + (m - a)
    <3>1. m \in a .. built - 1 /\ m - a < more
      BY <2>1, <2>4
    <3> QED
      BY <2>1, <2>2, <2>4, <3>1
  <2> QED
    BY <2>1, <2>3, <2>4 DEF a, z
<1> HIDE DEF from, marks
<1>5. ASSUME m \in 0 .. built - 1, ~(m < bits)
      PROVE  \E n \in 1 .. maps : f[n - 1] <= m /\ m < f[n]
  <2>1. m < f[maps]
    <3> DEFINE x == maps * more
    <3>1. f[maps] = bits + x /\ x \in Nat /\ built <= bits + x
      BY <1>1, <1>2
    <3> HIDE DEF x
    <3> QED
      BY <1>5, <3>1
  <2>2. m \in Nat /\ f[0] <= m
    BY <1>2, <1>5
  <2> QED
    BY <1>2, <2>1, <2>2, StepsCover
<1>6. \/ m \in {n \in 0 .. built - 1 : n < bits}
      \/ \E n \in 1 .. maps : \E b \in marks(n) : m = from(n) + b
      <=> m \in 0 .. built - 1
  <2>1. ASSUME m \in 0 .. built - 1, ~(m < bits)
        PROVE  \E n \in 1 .. maps : \E b \in marks(n) : m = from(n) + b
    <3>1. PICK n \in 1 .. maps : f[n - 1] <= m /\ m < f[n]
      BY <1>5, <2>1
    <3> QED
      BY <1>4, <2>1, <3>1
  <2>2. ASSUME NEW n \in 1 .. maps, \E b \in marks(n) : m = from(n) + b
        PROVE  m \in 0 .. built - 1
    BY <1>4, <2>2
  <2> QED
    BY <2>1, <2>2
<1> QED
  BY <1>6 DEF from, marks

LEMMA StretchCount ==
    ASSUME NEW a \in Nat, NEW b \in Nat, a <= b
    PROVE  Cardinality(a .. b - 1) = b - a
<1> DEFINE z == b - 1
<1>1. a \in Int /\ z \in Int /\ b = z + 1
  OBVIOUS
<1> HIDE DEF z
<1>2. Cardinality(a .. z) = IF a > z THEN 0 ELSE z - a + 1
  BY <1>1, FS_Interval
<1>3. Cardinality(a .. z) = b - a
  BY <1>1, <1>2
<1> QED
  BY <1>3 DEF z

\* The totals of the header record.
LEMMA HeaderTotals ==
    ASSUME BTreeInv, Emitted
    PROVE  HeaderRec.total = totalNodes /\ HeaderRec.free = totalNodes - nextNode
<1>1. HeaderRec = Header(totalNodes, totalNodes - nextNode)
  <2>1. image[0] = HeaderNode(nextNode, totalNodes)
    BY EmittedNodes
  <2> QED
    BY <2>1 DEF HeaderRec, HeaderNode, Node
<1> QED
  BY <1>1 DEF Header

LEMMA MapBitsAre ==
    ASSUME BTreeInv, Emitted
    PROVE  MapBits = 0 .. nextNode - 1
<1>1. /\ DOMAIN image = 0 .. totalNodes - 1 /\ totalNodes \in Nat /\ mapNodes \in Nat
      /\ nextNode \in Nat /\ mapNodes < nextNode /\ nextNode <= totalNodes
      /\ image[0] = HeaderNode(nextNode, totalNodes)
      /\ image[0].kind = "header"
      /\ \A n \in 1 .. mapNodes : image[n] = MapNode(n - 1, nextNode) /\ image[n].kind = "map"
      /\ \A n \in nextNode .. totalNodes - 1 : image[n].kind = "blank"
  BY EmittedNodes
<1>2. /\ HeaderMap = mapBitsInHeaderNode /\ MapNodeMap = mapBitsInMapNode
      /\ mapBitsInHeaderNode \in Nat /\ mapBitsInMapNode \in Nat \ {0}
      /\ Coverage(mapNodes) \in Nat
  BY <1>1, CoverageType
<1>3. totalNodes <= Coverage(mapNodes)
  BY MapCoverageIs DEF BTreeInv, CountInv, Settled, Emitted
<1> DEFINE bits == mapBitsInHeaderNode
           more == mapBitsInMapNode
           from(n) == From(bits, more, n)
           marks(n) == MarksFrom(from(n), more, nextNode)
<1>4. nextNode <= bits + mapNodes * more
  <2> DEFINE x == bits + mapNodes * more
  <2>1. x = Coverage(mapNodes)
    BY DEF Coverage
  <2> HIDE DEF x
  <2> QED
    BY <1>1, <1>2, <1>3, <2>1 DEF x
<1>5. image[0].marks = {n \in 0 .. nextNode - 1 : n < bits}
  BY <1>1, <1>2 DEF HeaderNode, Node
<1>6. {m \in DOMAIN image : image[m].kind = "map"} = 1 .. mapNodes
  <2>1. ASSUME NEW m \in DOMAIN image, image[m].kind = "map" PROVE m \in 1 .. mapNodes
    <3>1. \/ m = 0 \/ m \in 1 .. mapNodes
          \/ m \in mapNodes + 1 .. nextNode - 1 \/ m \in nextNode .. totalNodes - 1
      BY <1>1
    <3>2. ASSUME m \in mapNodes + 1 .. nextNode - 1 PROVE FALSE
      <4>1. PICK l \in 1 .. Len(levels) : \E i \in 1 .. Width(l) : assigned[l][i] = m
        BY <3>2, EmittedNodes
      <4>2. PICK i \in 1 .. Width(l) : assigned[l][i] = m
        BY <4>1
      <4>3. image[assigned[l][i]].kind = IF l = 1 THEN "leaf" ELSE "index"
        BY EmittedNodes
      <4> QED
        BY <2>1, <4>2, <4>3
    <3> QED
      BY <1>1, <2>1, <3>1, <3>2
  <2>2. ASSUME NEW m \in 1 .. mapNodes PROVE m \in DOMAIN image /\ image[m].kind = "map"
    BY <1>1
  <2> QED
    BY <2>1, <2>2
<1>7. ASSUME NEW n \in 1 .. mapNodes
      PROVE  /\ HeaderMap + (n - 1) * MapNodeMap = from(n)
             /\ image[n].marks = marks(n)
  <2>1. FirstBit(n - 1) = from(n) /\ HeaderMap + (n - 1) * MapNodeMap = from(n)
    BY <1>2 DEF FirstBit, From
  <2>2. MapNode(n - 1, nextNode).marks
          = {m - FirstBit(n - 1) : m \in {k \in FirstBit(n - 1) .. nextNode - 1 :
                                            k - FirstBit(n - 1) < MapNodeMap}}
    BY DEF MapNode, Node
  <2>3. MapNodeMap = more
    BY <1>2
  <2> HIDE DEF from, more
  <2>4. MapNode(n - 1, nextNode).marks = marks(n)
    BY <2>1, <2>2, <2>3 DEF MarksFrom
  <2> HIDE DEF marks
  <2> QED
    BY <1>1, <2>1, <2>4
<1>8. ASSUME NEW m
      PROVE  \/ m \in {n \in 0 .. nextNode - 1 : n < bits}
             \/ \E n \in 1 .. mapNodes : \E b \in marks(n) : m = from(n) + b
             <=> m \in 0 .. nextNode - 1
  <2>1. nextNode \in Nat /\ mapNodes \in Nat /\ bits \in Nat /\ more \in Nat \ {0}
    BY <1>1, <1>2
  <2> HIDE DEF bits, more
  <2> QED
    BY <1>4, <2>1, MarksMeet
<1> HIDE DEF from, marks, bits
<1>9. ASSUME NEW m
      PROVE  m \in MapBits <=>
                \/ m \in image[0].marks
                \/ \E n \in 1 .. mapNodes : \E b \in image[n].marks :
                      m = HeaderMap + (n - 1) * MapNodeMap + b
  <2> DEFINE bit(n) == {HeaderMap + (n - 1) * MapNodeMap + b : b \in image[n].marks}
  <2>1. MapBits = image[0].marks \cup
                  UNION {bit(n) : n \in {k \in DOMAIN image : image[k].kind = "map"}}
    BY DEF MapBits
  <2>2. \A n : m \in bit(n) <=> \E b \in image[n].marks : m = HeaderMap + (n - 1) * MapNodeMap + b
    OBVIOUS
  <2> HIDE DEF bit
  <2>3. m \in MapBits <=>
          m \in image[0].marks \/ \E n \in 1 .. mapNodes : m \in bit(n)
    BY <1>6, <2>1
  <2> QED
    BY <2>2, <2>3
<1>10. ASSUME NEW m PROVE m \in MapBits <=> m \in 0 .. nextNode - 1
  <2>1. ASSUME NEW n \in 1 .. mapNodes
        PROVE  (\E b \in image[n].marks : m = HeaderMap + (n - 1) * MapNodeMap + b)
                 <=> (\E b \in marks(n) : m = from(n) + b)
    BY <1>7, Zenon
  <2>2. m \in image[0].marks <=> m \in {n \in 0 .. nextNode - 1 : n < bits}
    BY <1>5
  <2>3. m \in MapBits <=>
          \/ m \in image[0].marks
          \/ \E n \in 1 .. mapNodes : \E b \in image[n].marks :
                m = HeaderMap + (n - 1) * MapNodeMap + b
    BY <1>9
  <2>4. m \in MapBits <=>
          \/ m \in image[0].marks
          \/ \E n \in 1 .. mapNodes : \E b \in marks(n) : m = from(n) + b
    BY <2>1, <2>3, Zenon
  <2> QED
    BY <1>8, <2>2, <2>4, Zenon
<1> QED
  BY <1>10

\* The map of a tree covers it, marks its nodes and no others, is chained as a reader
\* follows it, and has no node more than that takes, whatever BuildTree is given.
THEOREM MapIsExactCorrect == BTreeSpec => []MapIsExact
<1>1. BTreeInv => MapIsExact
  <2> SUFFICES ASSUME BTreeInv, Emitted PROVE MapIsExact
    BY DEF MapIsExact
  <2>1. /\ DOMAIN image = 0 .. totalNodes - 1 /\ totalNodes \in Nat /\ mapNodes \in Nat
        /\ nextNode \in Nat /\ mapNodes < nextNode /\ nextNode <= totalNodes
        /\ nextNode = mapNodes + TreeNodes(levels)
        /\ image[0] = HeaderNode(nextNode, totalNodes)
        /\ \A n \in 1 .. mapNodes : image[n] = MapNode(n - 1, nextNode) /\ image[n].kind = "map"
    BY EmittedNodes
  <2>2. InUse = 0 .. nextNode - 1 /\ DOMAIN image \ InUse = nextNode .. totalNodes - 1
    BY InUseIs
  <2>3. HeaderRec.total = totalNodes /\ HeaderRec.free = totalNodes - nextNode
    BY HeaderTotals
  <2>4. /\ Cardinality(InUse) = nextNode
        /\ Cardinality(DOMAIN image \ InUse) = totalNodes - nextNode
        /\ Cardinality(DOMAIN image) = totalNodes
    <3>1. Cardinality(0 .. nextNode - 1) = nextNode - 0
      BY <2>1, StretchCount
    <3>2. Cardinality(nextNode .. totalNodes - 1) = totalNodes - nextNode
      BY <2>1, StretchCount
    <3>3. Cardinality(0 .. totalNodes - 1) = totalNodes - 0
      BY <2>1, StretchCount
    <3>4. nextNode - 0 = nextNode /\ totalNodes - 0 = totalNodes
      BY <2>1
    <3>5. DOMAIN image = 0 .. totalNodes - 1
      BY <2>1
    <3> QED
      BY <2>2, <3>1, <3>2, <3>3, <3>4, <3>5, Zenon
  <2>5. /\ totalNodes <= Coverage(mapNodes)
        /\ mapNodes > 0 => mapNodes + TreeNodes(levels) - 1 > Coverage(mapNodes - 1)
    BY MapCoverageIs DEF BTreeInv, CountInv, Settled, Emitted
  <2>6. \A n : Coverage(n) = HeaderMap + n * MapNodeMap
    BY CoverageType DEF Coverage
  <2>7. ASSUME NEW i \in 1 .. mapNodes PROVE image[i - 1].fLink = i /\ image[i].kind = "map"
    <3>1. CASE i = 1
      <4>1. image[0].fLink = 1 /\ i - 1 = 0
        BY <2>1, <3>1 DEF HeaderNode, Node
      <4> QED
        BY <2>1, <3>1, <4>1
    <3>2. CASE i # 1
      <4> DEFINE k == i - 1
      <4>1. k \in 1 .. mapNodes /\ i = k + 1 /\ (k - 1) + 1 < mapNodes /\ (k - 1) + 2 = i
        BY <2>1, <3>2
      <4> HIDE DEF k
      <4>2. MapNode(k - 1, nextNode).fLink = (k - 1) + 2
        BY <4>1 DEF MapNode, Node
      <4> QED
        BY <2>1, <4>1, <4>2 DEF k
    <3> QED
      BY <3>1, <3>2
  <2>8. image[mapNodes].fLink = 0
    <3>1. CASE mapNodes = 0
      BY <2>1, <3>1 DEF HeaderNode, Node
    <3>2. CASE mapNodes # 0
      <4>1. mapNodes \in 1 .. mapNodes /\ ~((mapNodes - 1) + 1 < mapNodes)
        BY <2>1, <3>2
      <4>2. MapNode(mapNodes - 1, nextNode).fLink = 0
        BY <4>1 DEF MapNode, Node
      <4> QED
        BY <2>1, <4>1, <4>2
    <3> QED
      BY <3>1, <3>2
  <2>9. MapBits = InUse
    BY <2>2, MapBitsAre
  <2>10. /\ HeaderRec.total <= HeaderMap + mapNodes * MapNodeMap
         /\ mapNodes > 0 => Cardinality(InUse) - 1 > HeaderMap + (mapNodes - 1) * MapNodeMap
    <3>1. totalNodes <= HeaderMap + mapNodes * MapNodeMap
      BY <2>5, <2>6, Zenon
    <3>2. mapNodes > 0 => nextNode - 1 > HeaderMap + (mapNodes - 1) * MapNodeMap
      <4>1. mapNodes > 0 => nextNode - 1 > Coverage(mapNodes - 1)
        <5> DEFINE built == mapNodes + TreeNodes(levels)
        <5>1. nextNode = built
          BY <2>1
        <5>2. mapNodes > 0 => built - 1 > Coverage(mapNodes - 1)
          <6>1. TreeNodes(levels) \in Nat
            BY LateFacts DEF Emitted, Packing
          <6>2. mapNodes + TreeNodes(levels) - 1 = built - 1
            BY <2>1, <6>1
          <6> QED
            BY <2>5, <6>2, Zenon
        <5> HIDE DEF built
        <5> QED
          BY <5>1, <5>2, Zenon
      <4>2. Coverage(mapNodes - 1) = HeaderMap + (mapNodes - 1) * MapNodeMap
        BY <2>6
      <4> QED
        BY <4>1, <4>2, Zenon
    <3> QED
      BY <2>3, <2>4, <3>1, <3>2, Zenon
  <2>11. /\ HeaderRec.free = Cardinality(DOMAIN image \ InUse)
         /\ HeaderRec.total = Cardinality(DOMAIN image)
    BY <2>3, <2>4, Zenon
  <2> QED
    BY <2>7, <2>8, <2>9, <2>10, <2>11, Zenon DEF MapIsExact
<1> QED
  BY <1>1, BTreeInvCorrect, PTL

\* What the header record says of a tree with leaves.
LEMMA HeaderLinks ==
    ASSUME BTreeInv, Emitted
    PROVE  /\ HeaderRec.leafRecords = Len(records)
           /\ (levels = <<>>) = (records = <<>>)
           /\ levels # <<>> =>
                 /\ 1 \in 1 .. Len(levels) /\ Len(levels) \in 1 .. Len(levels)
                 /\ Width(Len(levels)) = 1
                 /\ HeaderRec.depth = Len(levels) /\ HeaderRec.root = assigned[Len(levels)][1]
                 /\ HeaderRec.first = assigned[1][1] /\ HeaderRec.last = assigned[1][Width(1)]
<1>1. /\ Len(levels) \in Nat
      /\ \A l \in 1 .. Len(levels) : Len(assigned[l]) = Width(l)
  BY EmittedNodes
<1>2. HeaderRec = Header(totalNodes, totalNodes - nextNode)
  <2>1. image[0] = HeaderNode(nextNode, totalNodes)
    BY EmittedNodes
  <2> QED
    BY <2>1 DEF HeaderRec, HeaderNode, Node
<1>3. /\ (levels = <<>>) = (records = <<>>)
      /\ levels # <<>> => Len(Top.nodes) = 1
      /\ levels \in Levels
  BY LevelsType DEF BTreeInv, LevelsInv, Emitted, Packing
<1>4. levels # <<>> => 1 \in 1 .. Len(levels) /\ Len(levels) \in 1 .. Len(levels)
  BY <1>1, <1>3, EmptySeq DEF Levels
<1>5. CASE levels = <<>>
  <2>1. Len(records) = 0
    BY <1>3, <1>5, EmptySeq
  <2> QED
    BY <1>2, <1>3, <1>5, <2>1 DEF Header
<1>6. CASE levels # <<>>
  <2>1. /\ HeaderRec.leafRecords = Len(records)
        /\ HeaderRec.depth = Len(levels) /\ HeaderRec.root = assigned[Len(levels)][1]
        /\ HeaderRec.first = assigned[1][1] /\ HeaderRec.last = assigned[1][Len(assigned[1])]
    BY <1>2, <1>6 DEF Header
  <2>2. Width(Len(levels)) = 1 /\ Len(assigned[1]) = Width(1)
    BY <1>1, <1>3, <1>4, <1>6 DEF Width, Top
  <2> QED
    BY <1>3, <1>4, <1>6, <2>1, <2>2
<1> QED
  BY <1>5, <1>6

\* A leaf, by its place in the level.
LEMMA Leaf ==
    ASSUME BTreeInv, Emitted, levels # <<>>, NEW i \in 1 .. Width(1)
    PROVE  LET leaf == image[assigned[1][i]]
               before == Ends(1)[i - 1]
               last == Ends(1)[i]
           IN  /\ leaf.kind = "leaf" /\ before \in Nat /\ last \in Nat /\ before < last
               /\ last <= Len(records) /\ DOMAIN leaf.items = 1 .. last - before
               /\ Len(leaf.items) = last - before
               /\ \A j \in 1 .. last - before : leaf.items[j] = before + j
               /\ i = 1 => before = 0
               /\ i = Width(1) => last = Len(records)
               /\ leaf.fLink = IF i < Width(1) THEN assigned[1][i + 1] ELSE 0
               /\ leaf.bLink = IF i > 1 THEN assigned[1][i - 1] ELSE 0
<1>1. 1 \in 1 .. Len(levels) /\ RecordsInv /\ LevelsInv
  BY HeaderLinks DEF BTreeInv
<1>2. image[assigned[1][i]] = LevelNode(1, i)
  BY <1>1, EmittedNodes
<1> DEFINE own == levels[1].nodes[i]
           f == Ends(1)
           w == Width(1)
<1>3. /\ w \in Nat /\ f \in [0 .. w -> Nat] /\ f[0] = 0 /\ f[w] = Len(KeysOf(1))
      /\ \A k, l \in 0 .. w : k <= l => f[k] <= f[l]
      /\ f[i - 1] < f[i]
      /\ Len(own) = f[i] - f[i - 1] /\ DOMAIN own = 1 .. Len(own)
      /\ \A j \in 1 .. Len(own) : own[j] = f[i - 1] + j
  BY <1>1, LevelFacts
<1>4. Len(KeysOf(1)) = Len(records)
  BY <1>1, KeyFacts
<1>5. LevelNode(1, i) = Node("leaf", 1, NextLink(1, i), IF i > 1 THEN assigned[1][i - 1] ELSE 0, own, {})
  BY DEF LevelNode
<1> HIDE DEF own, f
<1>6. /\ image[assigned[1][i]].kind = "leaf" /\ image[assigned[1][i]].items = own
      /\ image[assigned[1][i]].fLink = NextLink(1, i)
      /\ image[assigned[1][i]].bLink = IF i > 1 THEN assigned[1][i - 1] ELSE 0
  BY <1>2, <1>5 DEF Node
<1>7. NextLink(1, i) = IF i < w THEN assigned[1][i + 1] ELSE 0
  BY DEF NextLink, Width
<1>8. /\ f[i - 1] \in Nat /\ f[i] \in Nat /\ f[i] <= f[w]
  <2>1. i - 1 \in 0 .. w /\ i \in 0 .. w /\ w \in 0 .. w /\ i <= w
    BY <1>3
  <2> QED
    BY <1>3, <2>1
<1>9. (i = 1 => f[i - 1] = 0) /\ (i = w => f[i] = Len(records))
  BY <1>3, <1>4
<1> HIDE DEF w
<1>10. /\ f[i] <= Len(records) /\ DOMAIN own = 1 .. f[i] - f[i - 1]
       /\ \A j \in 1 .. f[i] - f[i - 1] : own[j] = f[i - 1] + j
  BY <1>3, <1>4, <1>8, Zenon
<1> QED
  BY <1>3, <1>6, <1>7, <1>8, <1>9, <1>10, Zenon DEF f, w

\* The numbers of the leaves are the nodes that a reader takes for leaves.
LEMMA LeafNumber ==
    ASSUME BTreeInv, Emitted, NEW n
    PROVE  n \in DOMAIN image /\ image[n].kind = "leaf"
             <=> levels # <<>> /\ \E i \in 1 .. Width(1) : n = assigned[1][i]
<1>1. /\ DOMAIN image = 0 .. totalNodes - 1 /\ totalNodes \in Nat /\ mapNodes \in Nat
      /\ nextNode \in Nat /\ mapNodes < nextNode /\ nextNode <= totalNodes
      /\ image[0].kind = "header"
      /\ \A m \in 1 .. mapNodes : image[m].kind = "map"
      /\ \A m \in nextNode .. totalNodes - 1 : image[m].kind = "blank"
      /\ Len(levels) \in Nat
  BY EmittedNodes
<1>2. ASSUME n \in DOMAIN image, image[n].kind = "leaf"
      PROVE  levels # <<>> /\ \E i \in 1 .. Width(1) : n = assigned[1][i]
  <2>1. n \in mapNodes + 1 .. nextNode - 1
    <3>1. \/ n = 0 \/ n \in 1 .. mapNodes
          \/ n \in mapNodes + 1 .. nextNode - 1 \/ n \in nextNode .. totalNodes - 1
      BY <1>1, <1>2
    <3> QED
      BY <1>1, <1>2, <3>1
  <2>2. PICK l \in 1 .. Len(levels) : \E i \in 1 .. Width(l) : assigned[l][i] = n
    BY <2>1, EmittedNodes
  <2>3. PICK i \in 1 .. Width(l) : assigned[l][i] = n
    BY <2>2
  <2>4. image[assigned[l][i]].kind = IF l = 1 THEN "leaf" ELSE "index"
    BY EmittedNodes
  <2>5. l = 1
    BY <1>2, <2>3, <2>4
  <2>6. levels # <<>>
    BY <1>1, <2>2, EmptySeq
  <2> QED
    BY <2>3, <2>5, <2>6
<1>3. ASSUME levels # <<>>, NEW i \in 1 .. Width(1), n = assigned[1][i]
      PROVE  n \in DOMAIN image /\ image[n].kind = "leaf"
  <2>1. 1 \in 1 .. Len(levels)
    BY <1>3, HeaderLinks
  <2>2. image[n].kind = "leaf" /\ n \in mapNodes + 1 .. nextNode - 1
    BY <1>3, <2>1, EmittedNodes
  <2> QED
    BY <1>1, <2>2
<1> QED
  BY <1>2, <1>3

\* A scan of the catalog along the chain of the leaves meets every record once and in
\* order, and can turn round at any leaf, whatever BuildTree is given.
THEOREM ChainIsSortedCorrect == BTreeSpec => []ChainIsSorted
<1>1. BTreeInv => ChainIsSorted
  <2> SUFFICES ASSUME BTreeInv, Emitted PROVE ChainIsSorted
    BY DEF ChainIsSorted
  <2> DEFINE Leaves == {n \in DOMAIN image : image[n].kind = "leaf"}
             Before(n) == image[n].items[1] - 1
             Final(n) == image[n].items[Len(image[n].items)]
  <2>1. ASSUME NEW n \in Leaves
        PROVE  levels # <<>> /\ \E i \in 1 .. Width(1) : n = assigned[1][i]
    BY LeafNumber
  <2>2. ASSUME levels # <<>>, NEW i \in 1 .. Width(1)
        PROVE  assigned[1][i] \in Leaves
    BY <2>2, LeafNumber
  <2>3. ASSUME levels # <<>>, NEW i \in 1 .. Width(1)
        PROVE  Before(assigned[1][i]) = Ends(1)[i - 1] /\ Final(assigned[1][i]) = Ends(1)[i]
    <3> DEFINE leaf == image[assigned[1][i]]
               before == Ends(1)[i - 1]
               last == Ends(1)[i]
    <3>1. /\ before \in Nat /\ last \in Nat /\ before < last
          /\ Len(leaf.items) = last - before
          /\ \A j \in 1 .. last - before : leaf.items[j] = before + j
      BY <2>3, Leaf
    <3> HIDE DEF leaf, before, last
    <3>2. leaf.items[1] - 1 = before /\ leaf.items[Len(leaf.items)] = last
      BY <3>1
    <3> QED
      BY <3>2 DEF leaf, before, last
  <2>4. levels # <<>> =>
          /\ Width(1) \in Nat \ {0} /\ 1 \in 1 .. Len(levels)
          /\ \A i \in 1 .. Width(1) : assigned[1][i] # 0
    <3> SUFFICES ASSUME levels # <<>>
                 PROVE  /\ Width(1) \in Nat \ {0} /\ 1 \in 1 .. Len(levels)
                        /\ \A i \in 1 .. Width(1) : assigned[1][i] # 0
      OBVIOUS
    <3>1. 1 \in 1 .. Len(levels)
      BY HeaderLinks
    <3>2. Width(1) \in Nat \ {0} /\ mapNodes \in Nat
      BY <3>1, EmittedNodes
    <3>3. \A i \in 1 .. Width(1) : assigned[1][i] \in mapNodes + 1 .. nextNode - 1
      BY <3>1, EmittedNodes
    <3>4. nextNode \in Nat
      BY EmittedNodes
    <3> QED
      BY <3>1, <3>2, <3>3, <3>4
  <2> HIDE DEF Leaves, Before, Final
  <2>5. ASSUME NEW n \in Leaves
        PROVE  /\ \A j \in DOMAIN image[n].items : image[n].items[j] = Before(n) + j
               /\ IF image[n].fLink = 0
                  THEN n = HeaderRec.last /\ Final(n) = Len(records)
                  ELSE /\ image[n].fLink \in Leaves
                       /\ Before(image[n].fLink) = Final(n)
                       /\ image[image[n].fLink].bLink = n
               /\ image[n].bLink = 0 => n = HeaderRec.first /\ Before(n) = 0
    <3>1. levels # <<>>
      BY <2>1
    <3>2. PICK i \in 1 .. Width(1) : n = assigned[1][i]
      BY <2>1
    <3> DEFINE w == Width(1)
               before == Ends(1)[i - 1]
               last == Ends(1)[i]
    <3>3. /\ DOMAIN image[n].items = 1 .. last - before
          /\ \A j \in 1 .. last - before : image[n].items[j] = before + j
          /\ i = 1 => before = 0
          /\ i = w => last = Len(records)
          /\ image[n].fLink = IF i < w THEN assigned[1][i + 1] ELSE 0
          /\ image[n].bLink = IF i > 1 THEN assigned[1][i - 1] ELSE 0
      BY <3>1, <3>2, Leaf
    <3>4. Before(n) = before /\ Final(n) = last
      BY <2>3, <3>1, <3>2
    <3>5. w \in Nat \ {0} /\ HeaderRec.first = assigned[1][1] /\ HeaderRec.last = assigned[1][w]
      BY <2>4, <3>1, HeaderLinks
    <3> HIDE DEF w, before
    <3>6. \A j \in DOMAIN image[n].items : image[n].items[j] = Before(n) + j
      BY <3>3, <3>4
    <3>7. ASSUME image[n].bLink = 0 PROVE n = HeaderRec.first /\ Before(n) = 0
      <4>1. i = 1
        <5> SUFFICES ASSUME i > 1 PROVE FALSE
          BY <3>5 DEF w
        <5>1. i - 1 \in 1 .. Width(1)
          BY <3>5 DEF w
        <5>2. assigned[1][i - 1] # 0
          BY <2>4, <3>1, <5>1
        <5> QED
          BY <3>3, <3>7, <5>2
      <4> QED
        BY <3>2, <3>3, <3>4, <3>5, <4>1
    <3>8. CASE i < w
      <4> DEFINE k == i + 1
      <4>1. k \in 1 .. Width(1) /\ k > 1 /\ k - 1 = i
        BY <3>5, <3>8 DEF w
      <4>2. image[n].fLink = assigned[1][k]
        BY <3>3, <3>8
      <4> HIDE DEF k
      <4>3. assigned[1][k] # 0 /\ assigned[1][k] \in Leaves
        BY <2>2, <2>4, <3>1, <4>1
      <4>4. Before(assigned[1][k]) = Ends(1)[k - 1]
        BY <2>3, <3>1, <4>1
      <4>5. image[assigned[1][k]].bLink = IF k > 1 THEN assigned[1][k - 1] ELSE 0
        BY <3>1, <4>1, Leaf
      <4> QED
        BY <3>2, <3>4, <3>6, <3>7, <4>1, <4>2, <4>3, <4>4, <4>5
    <3>9. CASE ~(i < w)
      <4>1. i = w
        BY <3>5, <3>9 DEF w
      <4> QED
        BY <3>2, <3>3, <3>4, <3>5, <3>6, <3>7, <3>9, <4>1
    <3> QED
      BY <3>8, <3>9
  <2>6. records # <<>> => Leaves # {}
    <3> SUFFICES ASSUME records # <<>> PROVE Leaves # {}
      OBVIOUS
    <3>1. levels # <<>>
      BY HeaderLinks
    <3>2. 1 \in 1 .. Width(1)
      BY <2>4, <3>1
    <3> QED
      BY <2>2, <3>1, <3>2
  <2>7. HeaderRec.leafRecords = Len(records)
    BY HeaderLinks
  <2> QED
    BY <2>5, <2>6, <2>7, Zenon DEF ChainIsSorted, Leaves, Before, Final
<1> QED
  BY <1>1, BTreeInvCorrect, PTL

----------------------------------------------------------------------------
(* A search.  On each level one node covers a record: the last one whose   *)
(* first key is not greater.                                               *)

First(l) == levels[l].firstKey
Covers(l, i, r) ==
    /\ i \in 1 .. Width(l)
    /\ First(l)[i] <= r
    /\ i < Width(l) => r < First(l)[i + 1]

LEMMA FirstFacts ==
    ASSUME BTreeInv, Emitted, NEW l \in 1 .. Len(levels), NEW r \in DOMAIN records
    PROVE  /\ Width(l) \in Nat \ {0} /\ DOMAIN First(l) = 1 .. Width(l)
           /\ Len(records) \in Nat /\ r \in Nat /\ r <= Len(records)
           /\ \A i \in 1 .. Width(l) : First(l)[i] \in Nat /\ First(l)[i] <= Len(records)
           /\ \A i, j \in 1 .. Width(l) : i < j => First(l)[i] < First(l)[j]
           /\ First(l)[1] = 1 /\ 1 <= r
<1>1. RecordsInv /\ LevelsInv
  BY DEF BTreeInv
<1>2. Packed(levels[l], records, KeysOf(l), l)
  BY <1>1, LevelsType DEF KeysOf
<1>3. Ascends(First(l), Len(records))
  BY <1>2 DEF Packed, First
<1>4. Len(records) \in Nat /\ DOMAIN records = 1 .. Len(records)
  BY <1>1, KeyFacts
<1>5. First(l) = [i \in 1 .. Width(l) |-> KeysOf(l)[levels[l].nodes[i][1]]] /\ Width(l) \in Nat
  BY <1>1, LevelFacts DEF First
<1>6. Width(l) # 0
  BY EmittedNodes
<1>7. DOMAIN First(l) = 1 .. Width(l)
  BY <1>5
<1>8. First(l) \in Seq(1 .. Len(records)) /\ Len(First(l)) \in Nat /\ DOMAIN First(l) = 1 .. Len(First(l))
  BY <1>3, LenProperties DEF Ascends
<1>9. \A i \in 1 .. Width(l) : First(l)[i] \in 1 .. Len(records)
  BY <1>7, <1>8, ElementOfSeq
<1>10. /\ \A i, j \in 1 .. Width(l) : i < j => First(l)[i] < First(l)[j]
       /\ Len(records) > 0 => First(l)[1] = 1
  BY <1>3, <1>7 DEF Ascends
<1>11. r \in Nat /\ r <= Len(records) /\ 1 <= r /\ Len(records) > 0
  BY <1>4
<1>12. \A i \in 1 .. Width(l) : First(l)[i] \in Nat /\ First(l)[i] <= Len(records)
  BY <1>4, <1>9
<1> QED
  BY <1>4, <1>5, <1>6, <1>7, <1>10, <1>11, <1>12, Zenon

LEMMA OneCovers ==
    ASSUME BTreeInv, Emitted, NEW l \in 1 .. Len(levels), NEW r \in DOMAIN records
    PROVE  /\ \E i : Covers(l, i, r)
           /\ \A i, j : Covers(l, i, r) /\ Covers(l, j, r) => i = j
<1> DEFINE first == First(l)
           w == Width(l)
           n == Len(records)
           f == [i \in 0 .. w |-> IF i = w THEN n + 1 ELSE first[i + 1]]
<1>1. /\ w \in Nat \ {0} /\ n \in Nat /\ r \in Nat /\ r <= n
      /\ \A i \in 1 .. w : first[i] \in Nat /\ first[i] <= n
      /\ \A i, j \in 1 .. w : i < j => first[i] < first[j]
      /\ first[1] = 1 /\ 1 <= r
  BY FirstFacts
<1>2. \A i : Covers(l, i, r) <=> i \in 1 .. w /\ first[i] <= r /\ (i < w => r < first[i + 1])
  BY DEF Covers
<1> HIDE DEF first, w, n
<1>3. \E i : Covers(l, i, r)
  <2>1. f \in [0 .. w -> Nat] /\ f[0] <= r /\ r < f[w]
    <3>1. ASSUME NEW i \in 0 .. w PROVE f[i] \in Nat
      <4>1. i = w \/ i + 1 \in 1 .. w
        BY <1>1
      <4> QED
        BY <1>1, <4>1
    <3>2. 0 \in 0 .. w /\ w \in 0 .. w /\ w # 0 /\ f[0] = first[1] /\ f[w] = n + 1
      BY <1>1
    <3> QED
      BY <1>1, <3>1, <3>2
  <2>2. \A i \in 1 .. w : f[i - 1] = first[i] /\ (i < w => f[i] = first[i + 1])
    BY <1>1
  <2> HIDE DEF f
  <2>3. PICK i \in 1 .. w : f[i - 1] <= r /\ r < f[i]
    BY <1>1, <2>1, StepsCover
  <2> QED
    BY <1>2, <2>2, <2>3
<1>4. ASSUME NEW i, NEW j, Covers(l, i, r), Covers(l, j, r), i < j PROVE FALSE
  <2>1. /\ i \in 1 .. w /\ j \in 1 .. w /\ i < w /\ i + 1 \in 1 .. w
        /\ r < first[i + 1] /\ first[j] <= r
    <3>1. i \in 1 .. w /\ j \in 1 .. w /\ first[j] <= r /\ (i < w => r < first[i + 1])
      BY <1>2, <1>4
    <3>2. i < w /\ i + 1 \in 1 .. w
      BY <1>1, <1>4, <3>1
    <3> QED
      BY <3>1, <3>2
  <2>2. first[i + 1] <= first[j]
    <3>1. i + 1 = j \/ i + 1 < j
      BY <1>1, <1>4, <2>1
    <3>2. first[i + 1] \in Nat /\ first[j] \in Nat
      BY <1>1, <2>1
    <3>3. i + 1 < j => first[i + 1] < first[j]
      BY <1>1, <2>1
    <3> QED
      BY <3>1, <3>2, <3>3
  <2> QED
    BY <1>1, <2>1, <2>2
<1>5. ASSUME NEW i, NEW j, Covers(l, i, r), Covers(l, j, r) PROVE i = j
  <2>1. i \in 1 .. w /\ j \in 1 .. w
    BY <1>2, <1>5
  <2>2. ~(i < j) /\ ~(j < i)
    BY <1>4, <1>5
  <2> QED
    BY <1>1, <2>1, <2>2
<1> QED
  BY <1>3, <1>5

\* The node that covers a record on the level below is under the one that covers it here.
LEMMA CoverUnder ==
    ASSUME BTreeInv, Emitted, NEW l \in 1 .. Len(levels), l > 1, NEW r \in DOMAIN records,
           NEW i, NEW c, Covers(l, i, r), Covers(l - 1, c, r)
    PROVE  Ends(l)[i - 1] < c /\ c <= Ends(l)[i]
<1> DEFINE b == l - 1
           w == Width(l)
           f == Ends(l)
           low == First(b)
           m == Width(b)
<1>0. RecordsInv /\ LevelsInv
  BY DEF BTreeInv
<1>1. b \in 1 .. Len(levels) /\ KeysOf(l) = low /\ Len(KeysOf(l)) = m
  BY <1>0, KeyFacts DEF First
<1>c. Covers(b, c, r)
  OBVIOUS
<1> HIDE DEF b
<1>2. /\ m \in Nat \ {0} /\ r \in Nat
      /\ \A j \in 1 .. m : low[j] \in Nat
      /\ \A j, k \in 1 .. m : j < k => low[j] < low[k]
  BY <1>1, FirstFacts
<1>3. /\ w \in Nat /\ f \in [0 .. w -> Nat] /\ f[w] = m
      /\ \A j, k \in 0 .. w : j <= k => f[j] <= f[k]
      /\ \A j \in 1 .. w : f[j - 1] < f[j]
      /\ \A j \in 1 .. w : /\ Len(levels[l].nodes[j]) = f[j] - f[j - 1]
                           /\ \A k \in 1 .. Len(levels[l].nodes[j]) : levels[l].nodes[j][k] = f[j - 1] + k
      /\ levels[l].firstKey = [j \in 1 .. w |-> KeysOf(l)[levels[l].nodes[j][1]]]
  BY <1>0, <1>1, LevelFacts
<1>4. ASSUME NEW j \in 1 .. w
      PROVE  /\ f[j - 1] \in Nat /\ f[j] \in Nat /\ f[j - 1] < f[j] /\ f[j] <= m
             /\ f[j - 1] + 1 \in 1 .. m /\ First(l)[j] = low[f[j - 1] + 1]
  <2> DEFINE x == f[j - 1]
             y == f[j]
             own == levels[l].nodes[j]
  <2>1. j - 1 \in 0 .. w /\ j \in 0 .. w /\ w \in 0 .. w /\ j <= w
    BY <1>3
  <2>2. x \in Nat /\ y \in Nat /\ x < y /\ y <= f[w]
    BY <1>3, <2>1
  <2>3. Len(own) = y - x /\ \A k \in 1 .. Len(own) : own[k] = x + k
    BY <1>3
  <2>4. First(l)[j] = low[own[1]]
    BY <1>1, <1>3 DEF First
  <2>5. f[w] = m
    BY <1>3
  <2> HIDE DEF x, y, own, f, m
  <2>6. own[1] = x + 1 /\ x + 1 \in 1 .. m /\ y <= m
    BY <1>2, <2>2, <2>3, <2>5
  <2> QED
    BY <2>2, <2>4, <2>6 DEF x, y
<1>5. /\ i \in 1 .. w /\ First(l)[i] <= r /\ (i < w => r < First(l)[i + 1])
      /\ c \in 1 .. m /\ low[c] <= r /\ (c < m => r < low[c + 1])
  BY <1>c DEF Covers
<1> DEFINE x == f[i - 1]
           y == f[i]
<1>6. x \in Nat /\ y \in Nat /\ x < y /\ y <= m /\ x + 1 \in 1 .. m /\ low[x + 1] <= r
  BY <1>4, <1>5
<1>7. ASSUME i < w PROVE y + 1 \in 1 .. m /\ r < low[y + 1]
  <2> DEFINE k == i + 1
  <2>1. k \in 1 .. w /\ k - 1 = i
    BY <1>3, <1>5, <1>7
  <2>2. r < First(l)[k]
    BY <1>5, <1>7
  <2> HIDE DEF k
  <2>3. f[k - 1] + 1 \in 1 .. m /\ First(l)[k] = low[f[k - 1] + 1]
    BY <1>4, <2>1
  <2> QED
    BY <2>1, <2>2, <2>3
<1>8. ~(i < w) => y = m
  BY <1>3, <1>5
<1> HIDE DEF x, y, f, w, m, low
<1>9. x < c
  <2> SUFFICES ASSUME c <= x PROVE FALSE
    BY <1>5, <1>6
  <2>1. c < m /\ c + 1 \in 1 .. m /\ r < low[c + 1]
    BY <1>2, <1>5, <1>6
  <2>2. low[c + 1] \in Nat /\ low[x + 1] \in Nat
    BY <1>2, <1>6, <2>1
  <2>3. c + 1 = x + 1 \/ c + 1 < x + 1
    BY <1>5, <1>6
  <2>4. c + 1 < x + 1 => low[c + 1] < low[x + 1]
    BY <1>2, <1>6, <2>1
  <2> QED
    <3> DEFINE u == low[c + 1]
               v == low[x + 1]
    <3>1. u \in Nat /\ v \in Nat /\ r < u /\ v <= r /\ (u = v \/ u < v)
      BY <1>6, <2>1, <2>2, <2>3, <2>4
    <3> HIDE DEF u, v
    <3> QED
      BY <1>2, <3>1
<1>10. c <= y
  <2> SUFFICES ASSUME c > y PROVE FALSE
    BY <1>5, <1>6
  <2>1. i < w
    BY <1>2, <1>5, <1>6, <1>8
  <2>2. y + 1 \in 1 .. m /\ r < low[y + 1]
    BY <1>7, <2>1
  <2>3. low[c] \in Nat /\ low[y + 1] \in Nat
    BY <1>2, <1>5, <2>2
  <2>4. y + 1 = c \/ y + 1 < c
    BY <1>5, <1>6
  <2>5. y + 1 < c => low[y + 1] < low[c]
    BY <1>2, <1>5, <2>2
  <2> QED
    <3> DEFINE u == low[y + 1]
               v == low[c]
    <3>1. u \in Nat /\ v \in Nat /\ r < u /\ v <= r /\ (u = v \/ u < v)
      BY <1>5, <2>2, <2>3, <2>4, <2>5
    <3> HIDE DEF u, v
    <3> QED
      BY <1>2, <3>1
<1> QED
  BY <1>9, <1>10 DEF x, y, f

\* The last item of an index node whose key is not greater is that node.
LEMMA TowardCovers ==
    ASSUME BTreeInv, Emitted, NEW l \in 1 .. Len(levels), l > 1, NEW r \in DOMAIN records,
           NEW i, NEW c, Covers(l, i, r), Covers(l - 1, c, r)
    PROVE  Toward(assigned[l][i], r) = assigned[l - 1][c]
<1> DEFINE n == assigned[l][i]
           own == levels[l].nodes[i]
           low == First(l - 1)
           m == Width(l - 1)
           x == Ends(l)[i - 1]
           y == Ends(l)[i]
<1>0. RecordsInv /\ LevelsInv
  BY DEF BTreeInv
<1>1. l - 1 \in 1 .. Len(levels) /\ KeysOf(l) = low /\ Len(KeysOf(l)) = m /\ l # 1
  BY <1>0, KeyFacts DEF First
<1>2. i \in 1 .. Width(l) /\ c \in 1 .. m /\ low[c] <= r /\ (c < m => r < low[c + 1])
  BY DEF Covers
<1>3. x < c /\ c <= y
  BY CoverUnder
<1>4. x \in Nat /\ y \in Nat /\ y <= m /\ DOMAIN own = 1 .. y - x /\ \A j \in 1 .. y - x : own[j] = x + j
  <2> DEFINE w == Width(l)
             f == Ends(l)
  <2>1. /\ w \in Nat /\ f \in [0 .. w -> Nat] /\ f[w] = m
        /\ \A j, k \in 0 .. w : j <= k => f[j] <= f[k]
        /\ Len(own) = f[i] - f[i - 1]
        /\ DOMAIN own = 1 .. Len(own)
        /\ \A j \in 1 .. Len(own) : own[j] = f[i - 1] + j
    BY <1>0, <1>1, <1>2, LevelFacts
  <2> HIDE DEF f, own, m
  <2>2. i - 1 \in 0 .. w /\ i \in 0 .. w /\ w \in 0 .. w /\ i <= w
    BY <1>2, <2>1
  <2>3. f[i - 1] \in Nat /\ f[i] \in Nat /\ f[i] <= f[w]
    BY <2>1, <2>2
  <2> HIDE DEF w
  <2>4. /\ f[i - 1] \in Nat /\ f[i] \in Nat /\ f[i] <= m
        /\ DOMAIN own = 1 .. f[i] - f[i - 1]
        /\ \A j \in 1 .. f[i] - f[i - 1] : own[j] = f[i - 1] + j
    BY <2>1, <2>3, Zenon
  <2> QED
    BY <2>4 DEF f
<1>5. /\ m \in Nat \ {0} /\ r \in Nat
      /\ \A j \in 1 .. m : low[j] \in Nat
      /\ \A j, k \in 1 .. m : j < k => low[j] < low[k]
  <2> DEFINE b == l - 1
  <2>1. b \in 1 .. Len(levels)
    BY <1>1
  <2> HIDE DEF b
  <2>2. /\ Width(b) \in Nat \ {0} /\ r \in Nat
        /\ \A j \in 1 .. Width(b) : First(b)[j] \in Nat
        /\ \A j, k \in 1 .. Width(b) : j < k => First(b)[j] < First(b)[k]
    BY <2>1, FirstFacts
  <2> QED
    BY <2>2 DEF b
<1> DEFINE items == image[n].items
           below == {j \in DOMAIN items : items[j].key <= r}
<1>6. items = [j \in DOMAIN own |-> [key |-> low[own[j]], child |-> assigned[l - 1][own[j]]]]
  <2>1. image[n] = LevelNode(l, i)
    BY <1>2, EmittedNodes
  <2>2. LevelNode(l, i).items
          = IF l = 1 THEN levels[l].nodes[i]
            ELSE [j \in DOMAIN levels[l].nodes[i] |->
                    [key |-> levels[l - 1].firstKey[levels[l].nodes[i][j]],
                     child |-> Child(l, levels[l].nodes[i][j])]]
    BY DEF LevelNode, Node
  <2>3. image[n].items
          = [j \in DOMAIN levels[l].nodes[i] |->
                    [key |-> levels[l - 1].firstKey[levels[l].nodes[i][j]],
                     child |-> Child(l, levels[l].nodes[i][j])]]
    BY <1>1, <2>1, <2>2, Zenon
  <2> QED
    BY <2>3, Zenon DEF Child, First
<1>7. Toward(n, r) = items[CHOOSE j \in below : \A k \in below : k <= j].child
  BY Zenon DEF Toward
<1>8. /\ DOMAIN items = 1 .. y - x
      /\ \A j \in 1 .. y - x : items[j].key = low[x + j] /\ items[j].child = assigned[l - 1][x + j]
  <2> HIDE DEF items, own, x, y, low
  <2>1. DOMAIN items = 1 .. y - x
    BY <1>4, <1>6
  <2>2. ASSUME NEW j \in 1 .. y - x
        PROVE  items[j].key = low[x + j] /\ items[j].child = assigned[l - 1][x + j]
    <3>1. items[j] = [key |-> low[own[j]], child |-> assigned[l - 1][own[j]]]
      BY <1>4, <1>6
    <3>2. own[j] = x + j
      BY <1>4
    <3> QED
      BY <3>1, <3>2
  <2> QED
    BY <2>1, <2>2
<1> HIDE DEF items, own, x, y, low, m
<1> DEFINE j0 == c - x
<1>9. j0 \in 1 .. y - x /\ x + j0 = c /\ j0 \in Int
  BY <1>2, <1>3, <1>4, <1>5
<1> HIDE DEF j0
<1>10. j0 \in below
  BY <1>2, <1>8, <1>9
<1>11. ASSUME NEW k \in below PROVE k <= j0 /\ k \in Int
  <2>1. k \in 1 .. y - x /\ low[x + k] <= r
    BY <1>8
  <2> DEFINE q == x + k
  <2>2. q \in 1 .. m
    BY <1>4, <1>5, <2>1
  <2>3. low[q] <= r
    BY <2>1
  <2>q. q = x + k
    OBVIOUS
  <2> HIDE DEF q
  <2>4. q <= c
    <3> SUFFICES ASSUME q > c PROVE FALSE
      BY <1>2, <2>2
    <3>1. c < m /\ c + 1 \in 1 .. m /\ (c + 1 = q \/ c + 1 < q)
      BY <1>2, <1>5, <2>2
    <3>2. r < low[c + 1]
      BY <1>2, <3>1
    <3> DEFINE u == low[c + 1]
               v == low[q]
    <3>3. u \in Nat /\ v \in Nat
      BY <1>5, <2>2, <3>1
    <3>4. u = v \/ u < v
      BY <1>5, <2>2, <3>1
    <3>5. r < u /\ v <= r
      BY <2>3, <3>2
    <3> HIDE DEF u, v
    <3> QED
      BY <1>5, <3>3, <3>4, <3>5
  <2> QED
    <3>1. k \in Int /\ x \in Int /\ j0 \in Int /\ x + j0 = c /\ x + k <= c
      BY <1>4, <1>9, <2>1, <2>4, <2>q
    <3> QED
      BY <3>1
<1> HIDE DEF below
<1>12. (CHOOSE j \in below : \A k \in below : k <= j) = j0
  <2> DEFINE j1 == CHOOSE j \in below : \A k \in below : k <= j
  <2>1. j1 \in below /\ \A k \in below : k <= j1
    BY <1>10, <1>11
  <2> HIDE DEF j1
  <2>2. j1 = j0
    BY <1>9, <1>10, <1>11, <2>1
  <2> QED
    BY <2>2 DEF j1
<1>13. items[j0].child = assigned[l - 1][c]
  BY <1>8, <1>9
<1> QED
  BY <1>7, <1>12, <1>13

\* And the leaf that covers a record has it.
LEMMA LeafHas ==
    ASSUME BTreeInv, Emitted, levels # <<>>, NEW r \in DOMAIN records, NEW i, Covers(1, i, r)
    PROVE  /\ image[assigned[1][i]].kind = "leaf"
           /\ \E j \in DOMAIN image[assigned[1][i]].items : image[assigned[1][i]].items[j] = r
<1>0. 1 \in 1 .. Len(levels) /\ RecordsInv /\ LevelsInv
  BY HeaderLinks DEF BTreeInv
<1> DEFINE w == Width(1)
           leaf == image[assigned[1][i]]
           x == Ends(1)[i - 1]
           y == Ends(1)[i]
           n == Len(records)
<1>1. i \in 1 .. w /\ First(1)[i] <= r /\ (i < w => r < First(1)[i + 1])
  BY DEF Covers
<1>2. w \in Nat /\ n \in Nat /\ r \in Nat /\ r <= n
  BY <1>0, FirstFacts
<1>3. ASSUME NEW k \in 1 .. w PROVE First(1)[k] = Ends(1)[k - 1] + 1
  <2> DEFINE own == levels[1].nodes[k]
             a == Ends(1)[k - 1]
             z == Ends(1)[k]
  <2>1. /\ levels[1].firstKey = [j \in 1 .. w |-> KeysOf(1)[levels[1].nodes[j][1]]]
        /\ Len(own) = z - a
        /\ \A j \in 1 .. Len(own) : own[j] = a + j
    BY <1>0, LevelFacts
  <2>2. a \in Nat /\ z \in Nat /\ a < z /\ z <= n
    BY Leaf
  <2>3. First(1)[k] = KeysOf(1)[own[1]]
    BY <2>1 DEF First
  <2>4. \A j \in 1 .. n : KeysOf(1)[j] = j
    BY <1>0, KeyFacts
  <2> HIDE DEF own, a, z, n
  <2>5. own[1] = a + 1 /\ a + 1 \in 1 .. n
    BY <1>2, <2>1, <2>2
  <2> QED
    BY <2>3, <2>4, <2>5 DEF a
<1>4. /\ leaf.kind = "leaf" /\ x \in Nat /\ y \in Nat /\ x < y
      /\ DOMAIN leaf.items = 1 .. y - x
      /\ \A j \in 1 .. y - x : leaf.items[j] = x + j
      /\ i = w => y = n
  BY <1>1, Leaf
<1>5. x + 1 <= r
  BY <1>1, <1>3
<1>6. r <= y
  <2>1. CASE i < w
    <3> DEFINE k == i + 1
    <3>1. k \in 1 .. w /\ k - 1 = i
      BY <1>1, <1>2, <2>1
    <3>2. r < First(1)[k]
      BY <1>1, <2>1
    <3> HIDE DEF k
    <3>3. First(1)[k] = Ends(1)[k - 1] + 1
      BY <1>3, <3>1
    <3>4. r < y + 1
      BY <3>1, <3>2, <3>3
    <3> HIDE DEF y
    <3> QED
      BY <1>2, <1>4, <3>4
  <2>2. CASE ~(i < w)
    <3>1. i = w
      BY <1>1, <1>2, <2>2
    <3> QED
      BY <1>2, <1>4, <3>1
  <2> QED
    BY <2>1, <2>2
<1> HIDE DEF leaf, x, y, n
<1>7. r - x \in 1 .. y - x /\ x + (r - x) = r
  BY <1>2, <1>4, <1>5, <1>6
<1>8. r - x \in DOMAIN leaf.items /\ leaf.items[r - x] = r
  BY <1>4, <1>7
<1> QED
  BY <1>4, <1>8 DEF leaf

\* Every record is found by the search a reader makes, from the root the header record
\* names down to a leaf, whatever the records, the levels and the numbers are.
THEOREM SearchFindsCorrect == BTreeSpec => []SearchFinds
<1>1. ASSUME BTreeInv, Emitted, NEW r \in DOMAIN records
      PROVE  LET leaf == image[Descend(r)]
             IN  leaf.kind = "leaf" /\ \E j \in DOMAIN leaf.items : leaf.items[j] = r
  <2> DEFINE h == Len(levels)
             at(k) == CHOOSE i : Covers(k, i, r)
             p == [k \in 1 .. h |-> assigned[h + 1 - k][at(h + 1 - k)]]
             Is(f) == f = [k \in 1 .. HeaderRec.depth |->
                             IF k = 1 THEN HeaderRec.root ELSE Toward(f[k - 1], r)]
             d == CHOOSE f : Is(f)
  <2>1. levels # <<>>
    <3>1. Len(records) \in Nat /\ DOMAIN records = 1 .. Len(records)
      BY LenProperties DEF BTreeInv, RecordsInv
    <3>2. records # <<>>
      BY <1>1, <3>1, EmptySeq
    <3> QED
      BY <1>1, <3>2, HeaderLinks
  <2>2. /\ h \in Nat \ {0} /\ HeaderRec.depth = h /\ HeaderRec.root = assigned[h][1]
        /\ h \in 1 .. h /\ 1 \in 1 .. h /\ Width(h) = 1
    <3>1. Len(levels) \in Nat
      BY <1>1, EmittedNodes
    <3> QED
      BY <1>1, <2>1, <3>1, HeaderLinks
  <2>3. ASSUME NEW k \in 1 .. h PROVE Covers(k, at(k), r)
    BY <1>1, OneCovers
  <2>4. at(h) = 1
    <3>1. at(h) \in 1 .. 1
      BY <2>2, <2>3 DEF Covers
    <3> QED
      BY <3>1
  <2> HIDE DEF at
  <2>5. ASSUME NEW k \in 2 .. h PROVE p[k] = Toward(p[k - 1], r)
    <3> DEFINE l == h + 1 - (k - 1)
    <3>1. k \in 1 .. h /\ k - 1 \in 1 .. h /\ l - 1 = h + 1 - k /\ l > 1 /\ l \in 1 .. h /\ l - 1 \in 1 .. h
      BY <2>2
    <3>2. p[k] = assigned[l - 1][at(l - 1)] /\ p[k - 1] = assigned[l][at(l)]
      BY <3>1
    <3> HIDE DEF l, p
    <3>3. Covers(l, at(l), r) /\ Covers(l - 1, at(l - 1), r)
      BY <2>3, <3>1
    <3> DEFINE i == at(l)
               c == at(l - 1)
    <3>4. Covers(l, i, r) /\ Covers(l - 1, c, r)
      BY <3>3
    <3> HIDE DEF i, c
    <3>5. Toward(assigned[l][i], r) = assigned[l - 1][c]
      BY <1>1, <3>1, <3>4, TowardCovers
    <3> QED
      BY <3>2, <3>5 DEF i, c
  <2>6. p[1] = HeaderRec.root
    <3>1. h + 1 - 1 = h
      BY <2>2
    <3>2. p[1] = assigned[h + 1 - 1][at(h + 1 - 1)]
      BY <2>2
    <3> HIDE DEF p
    <3> QED
      BY <2>2, <2>4, <3>1, <3>2
  <2>7. DOMAIN p = 1 .. h /\ p = [k \in 1 .. h |-> p[k]]
    OBVIOUS
  <2> HIDE DEF p
  <2>8. Is(p)
    <3>1. ASSUME NEW k \in 1 .. h
          PROVE  p[k] = IF k = 1 THEN HeaderRec.root ELSE Toward(p[k - 1], r)
      <4>1. k = 1 \/ k \in 2 .. h
        BY <2>2
      <4> QED
        BY <2>5, <2>6, <4>1
    <3> QED
      BY <2>2, <2>7, <3>1
  <2>9. Is(d)
    BY <2>8
  <2>10. Descend(r) = d[h]
    BY <2>2, Zenon DEF Descend
  <2> HIDE DEF d
  <2>11. d[1] = HeaderRec.root /\ \A k \in 2 .. h : d[k] = Toward(d[k - 1], r)
    <3> DEFINE F == [k \in 1 .. h |-> IF k = 1 THEN HeaderRec.root ELSE Toward(d[k - 1], r)]
    <3>1. F[1] = HeaderRec.root
      BY <2>2
    <3>2. ASSUME NEW k \in 2 .. h PROVE F[k] = Toward(d[k - 1], r)
      <4>1. k \in 1 .. h /\ k # 1
        BY <2>2
      <4> QED
        BY <4>1
    <3>3. d = F
      BY <2>2, <2>9, Zenon
    <3> HIDE DEF F
    <3> QED
      BY <3>1, <3>2, <3>3
  <2> DEFINE T == {k \in Nat : k + 1 <= h => d[k + 1] = p[k + 1]}
  <2>12. 0 \in T
    BY <2>6, <2>11
  <2>13. ASSUME NEW k \in Nat, k \in T PROVE k + 1 \in T
    <3> SUFFICES ASSUME (k + 1) + 1 <= h PROVE d[(k + 1) + 1] = p[(k + 1) + 1]
      OBVIOUS
    <3> DEFINE q == (k + 1) + 1
    <3>1. q \in 2 .. h /\ q - 1 = k + 1 /\ k + 1 <= h
      BY <2>2
    <3>2. d[k + 1] = p[k + 1]
      BY <2>13, <3>1
    <3> HIDE DEF q
    <3>3. d[q] = Toward(d[q - 1], r) /\ p[q] = Toward(p[q - 1], r)
      BY <2>5, <2>11, <3>1
    <3>4. d[q] = p[q]
      BY <3>1, <3>2, <3>3
    <3> QED
      BY <3>4 DEF q
  <2> HIDE DEF T
  <2>14. Nat \subseteq T
    BY <2>12, <2>13, Induction
  <2>15. d[h] = p[h]
    <3>1. h - 1 \in T /\ (h - 1) + 1 = h
      BY <2>2, <2>14
    <3> QED
      BY <2>2, <3>1 DEF T
  <2>16. p[h] = assigned[1][at(1)]
    <3>1. h + 1 - h = 1
      BY <2>2
    <3> QED
      BY <2>2, <3>1 DEF p
  <2> DEFINE i == at(1)
  <2>17. Covers(1, i, r) /\ Descend(r) = assigned[1][i]
    BY <2>2, <2>3, <2>10, <2>15, <2>16
  <2> HIDE DEF i
  <2>18. /\ image[assigned[1][i]].kind = "leaf"
         /\ \E j \in DOMAIN image[assigned[1][i]].items : image[assigned[1][i]].items[j] = r
    BY <1>1, <2>1, <2>17, LeafHas
  <2> QED
    BY <2>17, <2>18, Zenon
<1>2. BTreeInv => SearchFinds
  BY <1>1, Zenon DEF SearchFinds
<1> QED
  BY <1>2, BTreeInvCorrect, PTL
=============================================================================
