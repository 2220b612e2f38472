-------------------------- MODULE KeyOrder_proofs --------------------------
(* Proofs about KeyOrder: the comparisons are total orders, and what a     *)
(* sort by a total order and a look at the neighbours come to.             *)
EXTENDS KeyOrder, TLAPS, WellFoundedInduction

\* A set of natural numbers has a first element.
LEMMA FirstIsLeast ==
  ASSUME NEW S \in SUBSET Nat, S # {}
  PROVE  First(S) \in S /\ \A j \in S : First(S) <= j
<1> DEFINE R == OpToRel(<, Nat)
<1>1. IsWellFoundedOn(R, Nat)
  BY NatLessThanWellFounded, Zenon
<1>2. ASSUME NEW i \in S, NEW j \in S, ~(<<j, i>> \in R) PROVE i <= j
  <2>1. i \in Nat /\ j \in Nat /\ ~(j < i)
    BY <1>2 DEF OpToRel
  <2>2. QED
    BY <2>1
<1> HIDE DEF R
<1>3. \E i \in S : \A j \in S : ~(<<j, i>> \in R)
  BY <1>1, WFMin
<1>4. \E i \in S : \A j \in S : i <= j
  BY <1>2, <1>3
<1>5. QED
  BY <1>4 DEF First

----------------------------------------------------------------------------
(* Names.                                                                  *)

LEMMA NameType ==
  ASSUME NEW a \in HFSNames
  PROVE  Len(a) \in Nat /\ DOMAIN a = 1 .. Len(a) /\ \A i \in DOMAIN a : a[i] \in Nat
<1>1. Len(a) \in Nat /\ DOMAIN a = 1 .. Len(a)
  BY DEF HFSNames
<1>2. ASSUME NEW i \in 1 .. Len(a) PROVE a[i] \in Nat
  <2>1. a[i] \in CodeUnits
    BY DEF HFSNames
  <2>2. \A u \in CodeUnits : u \in Nat
    BY DEF CodeUnits
  <2>3. QED
    BY <2>1, <2>2
<1>3. QED
  BY <1>1, <1>2

LEMMA SameName ==
  ASSUME NEW a \in HFSNames, NEW b \in HFSNames, Len(a) = Len(b),
         \A i \in 1 .. Len(a) : a[i] = b[i]
  PROVE  a = b
BY DEF HFSNames

\* Where two names first differ: nothing differs before.
LEMMA FirstDifference ==
  ASSUME NEW a \in HFSNames, NEW b \in HFSNames, Differ(a, b) # {},
         NEW d, d = First(Differ(a, b))
  PROVE  /\ d \in 1 .. Len(a) /\ d \in 1 .. Len(b) /\ a[d] # b[d]
         /\ \A j \in 1 .. d - 1 : a[j] = b[j]
<1>0. /\ Len(a) \in Nat /\ DOMAIN a = 1 .. Len(a)
      /\ Len(b) \in Nat /\ DOMAIN b = 1 .. Len(b)
  BY NameType
<1>1. \A i : i \in Differ(a, b) <=> i \in 1 .. Len(a) /\ i \in 1 .. Len(b) /\ a[i] # b[i]
  BY <1>0 DEF Differ
<1>2. Differ(a, b) \in SUBSET Nat
  BY <1>0, <1>1
<1>3. d \in Differ(a, b) /\ \A j \in Differ(a, b) : d <= j
  BY <1>2, FirstIsLeast
<1>4. ASSUME NEW j \in 1 .. d - 1 PROVE a[j] = b[j]
  <2>1. d \in 1 .. Len(a) /\ d \in 1 .. Len(b)
    BY <1>1, <1>3
  <2>2. j \in 1 .. Len(a) /\ j \in 1 .. Len(b) /\ ~(d <= j)
    BY <1>0, <2>1
  <2>3. QED
    BY <1>1, <1>3, <2>2
<1>5. QED
  BY <1>1, <1>3, <1>4

LEMMA SignIsOrder ==
  ASSUME NEW m \in Int, NEW n \in Int
  PROVE  /\ Sign(m, n) \in {-1, 0, 1}
         /\ Sign(m, n) = -1 <=> m < n
         /\ Sign(m, n) = 1 <=> n < m
         /\ Sign(m, n) = 0 <=> m = n
<1>1. CASE m < n
  BY <1>1 DEF Sign
<1>2. CASE m > n
  BY <1>2 DEF Sign
<1>3. CASE m = n
  BY <1>3 DEF Sign
<1>4. QED
  BY <1>1, <1>2, <1>3

\* The comparison of names, without the search for the first difference.
Smaller(a, b) ==
    \/ \E i \in 1 .. Len(a) : /\ i <= Len(b) /\ a[i] < b[i]
                             /\ \A j \in 1 .. i - 1 : a[j] = b[j]
    \/ Len(a) < Len(b) /\ \A j \in 1 .. Len(a) : a[j] = b[j]

\* Two names that differ somewhere are told apart by their first difference, and no
\* other case of Smaller applies.
LEMMA SmallerAt ==
  ASSUME NEW a \in HFSNames, NEW b \in HFSNames, NEW d \in 1 .. Len(a), d <= Len(b),
         a[d] # b[d], \A j \in 1 .. d - 1 : a[j] = b[j]
  PROVE  Smaller(a, b) <=> a[d] < b[d]
<1>0. Len(a) \in Nat /\ Len(b) \in Nat /\ a[d] \in Nat /\ b[d] \in Nat
  BY NameType
<1>1. ASSUME NEW i \in 1 .. Len(a), i <= Len(b), a[i] < b[i],
             \A j \in 1 .. i - 1 : a[j] = b[j]
      PROVE  i = d
  <2>1. ~(i < d)
    <3>1. ASSUME i < d PROVE FALSE
      <4>1. i \in 1 .. d - 1
        BY <1>0, <3>1
      <4>2. a[i] = b[i] /\ a[i] \in Nat
        BY <4>1, NameType
      <4>3. QED
        BY <1>1, <4>2
    <3>2. QED
      BY <3>1
  <2>2. ~(d < i)
    <3>1. ASSUME d < i PROVE FALSE
      <4>1. d \in 1 .. i - 1
        BY <1>0, <3>1
      <4>2. QED
        BY <1>1, <4>1
    <3>2. QED
      BY <3>1
  <2>3. QED
    BY <1>0, <2>1, <2>2
<1>2. QED
  BY <1>0, <1>1 DEF Smaller

LEMMA CompareIsSmaller ==
  ASSUME NEW a \in HFSNames, NEW b \in HFSNames
  PROVE  /\ HFSCompare(a, b) \in {-1, 0, 1}
         /\ HFSCompare(a, b) = -1 <=> Smaller(a, b)
         /\ HFSCompare(a, b) = 1 <=> Smaller(b, a)
         /\ HFSCompare(a, b) = 0 <=> a = b
<1>0. /\ Len(a) \in Nat /\ DOMAIN a = 1 .. Len(a)
      /\ Len(b) \in Nat /\ DOMAIN b = 1 .. Len(b)
  BY NameType
<1>1. CASE Differ(a, b) = {}
  <2>1. \A i \in 1 .. Len(a) : i \in 1 .. Len(b) => a[i] = b[i]
    BY <1>0, <1>1 DEF Differ
  <2>2. HFSCompare(a, b) = Sign(Len(a), Len(b))
    BY <1>1 DEF HFSCompare
  <2>3. Len(a) = Len(b) => a = b
    BY <2>1, SameName
  <2>4. Smaller(a, b) <=> Len(a) < Len(b)
    <3>1. ASSUME NEW i \in 1 .. Len(a), i <= Len(b) PROVE ~(a[i] < b[i])
      <4>1. i \in 1 .. Len(b)
        BY <1>0, <3>1
      <4>2. a[i] = b[i] /\ a[i] \in Nat
        BY <1>0, <2>1, <4>1, NameType
      <4>3. QED
        BY <4>2
    <3>2. Len(a) < Len(b) => \A j \in 1 .. Len(a) : j \in 1 .. Len(b)
      BY <1>0
    <3>3. QED
      BY <2>1, <3>1, <3>2 DEF Smaller
  <2>5. Smaller(b, a) <=> Len(b) < Len(a)
    <3>1. ASSUME NEW i \in 1 .. Len(b), i <= Len(a) PROVE ~(b[i] < a[i])
      <4>1. i \in 1 .. Len(a)
        BY <1>0, <3>1
      <4>2. a[i] = b[i] /\ a[i] \in Nat
        BY <1>0, <2>1, <4>1, NameType
      <4>3. QED
        BY <4>2
    <3>2. Len(b) < Len(a) => \A j \in 1 .. Len(b) : j \in 1 .. Len(a)
      BY <1>0
    <3>3. QED
      BY <2>1, <3>1, <3>2 DEF Smaller
  <2>6. a = b => Len(a) = Len(b)
    OBVIOUS
  <2>7. /\ Sign(Len(a), Len(b)) \in {-1, 0, 1}
        /\ Sign(Len(a), Len(b)) = -1 <=> Len(a) < Len(b)
        /\ Sign(Len(a), Len(b)) = 1 <=> Len(b) < Len(a)
        /\ Sign(Len(a), Len(b)) = 0 <=> Len(a) = Len(b)
    <3>1. Len(a) \in Int /\ Len(b) \in Int
      BY <1>0
    <3>2. QED
      BY <3>1, SignIsOrder
  <2>8. QED
    BY <2>2, <2>3, <2>4, <2>5, <2>6, <2>7
<1>2. CASE Differ(a, b) # {}
  <2> DEFINE d == First(Differ(a, b))
  <2>1. HFSCompare(a, b) = Sign(a[d], b[d])
    BY <1>2 DEF HFSCompare
  <2>2. /\ d \in 1 .. Len(a) /\ d \in 1 .. Len(b) /\ a[d] # b[d]
        /\ \A j \in 1 .. d - 1 : a[j] = b[j]
    BY <1>2, FirstDifference
  <2> HIDE DEF d
  <2>3. a[d] \in Nat /\ b[d] \in Nat /\ d <= Len(a) /\ d <= Len(b)
    BY <1>0, <2>2, NameType
  <2>4. Smaller(a, b) <=> a[d] < b[d]
    BY <2>2, <2>3, SmallerAt
  <2>5. Smaller(b, a) <=> b[d] < a[d]
    BY <2>2, <2>3, SmallerAt
  <2>6. a # b
    BY <2>2
  <2>7. QED
    BY <2>1, <2>2, <2>3, <2>4, <2>5, <2>6, SignIsOrder
<1>3. QED
  BY <1>1, <1>2

\* A difference of a and b, or the end of a, and one of b and c: the earlier of the
\* two tells a from c.
LEMMA SmallerTransitive ==
  ASSUME NEW a \in HFSNames, NEW b \in HFSNames, NEW c \in HFSNames,
         Smaller(a, b), Smaller(b, c)
  PROVE  Smaller(a, c)
<1>0. /\ Len(a) \in Nat /\ Len(b) \in Nat /\ Len(c) \in Nat
      /\ \A i \in 1 .. Len(a) : a[i] \in Nat
      /\ \A i \in 1 .. Len(b) : b[i] \in Nat
      /\ \A i \in 1 .. Len(c) : c[i] \in Nat
  BY NameType
<1>1. ASSUME NEW i \in 1 .. Len(a), i <= Len(b), a[i] < b[i],
             \A j \in 1 .. i - 1 : a[j] = b[j],
             i <= Len(c), b[i] <= c[i], \A j \in 1 .. i - 1 : b[j] = c[j]
      PROVE  Smaller(a, c)
  <2>1. a[i] < c[i]
    BY <1>0, <1>1
  <2>2. \A j \in 1 .. i - 1 : a[j] = c[j]
    BY <1>1
  <2>3. QED
    BY <1>1, <2>1, <2>2 DEF Smaller
<1>2. ASSUME NEW k \in 1 .. Len(b), k <= Len(c), b[k] < c[k],
             \A j \in 1 .. k - 1 : b[j] = c[j],
             k <= Len(a), a[k] = b[k], \A j \in 1 .. k - 1 : a[j] = b[j]
      PROVE  Smaller(a, c)
  <2>1. k \in 1 .. Len(a) /\ a[k] < c[k] /\ \A j \in 1 .. k - 1 : a[j] = c[j]
    BY <1>0, <1>2
  <2>2. QED
    BY <1>2, <2>1 DEF Smaller
<1>3. ASSUME Len(a) < Len(c), \A j \in 1 .. Len(a) : a[j] = c[j] PROVE Smaller(a, c)
  BY <1>3 DEF Smaller
<1>4. CASE \E i \in 1 .. Len(a) : /\ i <= Len(b) /\ a[i] < b[i]
                                 /\ \A j \in 1 .. i - 1 : a[j] = b[j]
  <2>1. PICK i \in 1 .. Len(a) : /\ i <= Len(b) /\ a[i] < b[i]
                                 /\ \A j \in 1 .. i - 1 : a[j] = b[j]
    BY <1>4
  <2>2. CASE \E k \in 1 .. Len(b) : /\ k <= Len(c) /\ b[k] < c[k]
                                   /\ \A j \in 1 .. k - 1 : b[j] = c[j]
    <3>1. PICK k \in 1 .. Len(b) : /\ k <= Len(c) /\ b[k] < c[k]
                                   /\ \A j \in 1 .. k - 1 : b[j] = c[j]
      BY <2>2
    <3>2. CASE i < k
      <4>1. i \in 1 .. k - 1 /\ i <= Len(c) /\ \A j \in 1 .. i - 1 : j \in 1 .. k - 1
        BY <1>0, <3>1, <3>2
      <4>2. b[i] = c[i] /\ b[i] \in Nat /\ \A j \in 1 .. i - 1 : b[j] = c[j]
        BY <1>0, <2>1, <3>1, <4>1
      <4>3. QED
        BY <1>1, <2>1, <4>1, <4>2
    <3>3. CASE i = k
      <4>1. b[i] <= c[i]
        BY <1>0, <3>1, <3>3
      <4>2. QED
        BY <1>1, <2>1, <3>1, <3>3, <4>1
    <3>4. CASE k < i
      <4>1. k \in 1 .. i - 1 /\ k <= Len(a) /\ \A j \in 1 .. k - 1 : j \in 1 .. i - 1
        BY <1>0, <2>1, <3>4
      <4>2. QED
        BY <1>2, <2>1, <3>1, <4>1
    <3>5. QED
      BY <3>2, <3>3, <3>4
  <2>3. CASE Len(b) < Len(c) /\ \A j \in 1 .. Len(b) : b[j] = c[j]
    <3>1. i \in 1 .. Len(b) /\ i <= Len(c) /\ \A j \in 1 .. i - 1 : j \in 1 .. Len(b)
      BY <1>0, <2>1, <2>3
    <3>2. b[i] = c[i] /\ b[i] \in Nat /\ \A j \in 1 .. i - 1 : b[j] = c[j]
      BY <1>0, <2>3, <3>1
    <3>3. QED
      BY <1>1, <2>1, <3>1, <3>2
  <2>4. QED
    BY <2>2, <2>3 DEF Smaller
<1>5. CASE Len(a) < Len(b) /\ \A j \in 1 .. Len(a) : a[j] = b[j]
  <2>1. CASE \E k \in 1 .. Len(b) : /\ k <= Len(c) /\ b[k] < c[k]
                                   /\ \A j \in 1 .. k - 1 : b[j] = c[j]
    <3>1. PICK k \in 1 .. Len(b) : /\ k <= Len(c) /\ b[k] < c[k]
                                   /\ \A j \in 1 .. k - 1 : b[j] = c[j]
      BY <2>1
    <3>2. CASE k <= Len(a)
      <4>1. k \in 1 .. Len(a) /\ \A j \in 1 .. k - 1 : j \in 1 .. Len(a)
        BY <1>0, <3>2
      <4>2. QED
        BY <1>2, <1>5, <3>1, <3>2, <4>1
    <3>3. CASE Len(a) < k
      <4>1. Len(a) < Len(c) /\ \A j \in 1 .. Len(a) : j \in 1 .. k - 1
        BY <1>0, <3>1, <3>3
      <4>2. QED
        BY <1>3, <1>5, <3>1, <4>1
    <3>4. QED
      BY <1>0, <3>2, <3>3
  <2>2. CASE Len(b) < Len(c) /\ \A j \in 1 .. Len(b) : b[j] = c[j]
    <3>1. Len(a) < Len(c) /\ \A j \in 1 .. Len(a) : j \in 1 .. Len(b)
      BY <1>0, <1>5, <2>2
    <3>2. QED
      BY <1>3, <1>5, <2>2, <3>1
  <2>3. QED
    BY <2>1, <2>2 DEF Smaller
<1>6. QED
  BY <1>4, <1>5 DEF Smaller
----------------------------------------------------------------------------
(* Keys.                                                                   *)

LEMMA IDsAreNumbers == \A n \in IDs : n \in Int
BY SMT DEF IDs

\* The comparison of two names and that of the two the other way round.
LEMMA NamesOrdered ==
  ASSUME NEW a \in HFSNames, NEW b \in HFSNames
  PROVE  /\ ~(HFSCompare(b, a) < 0) <=> a = b \/ Smaller(a, b)
         /\ ~(HFSCompare(a, b) < 0) \/ ~(HFSCompare(b, a) < 0)
         /\ ~(HFSCompare(a, b) < 0) /\ ~(HFSCompare(b, a) < 0) => a = b
<1>1. /\ HFSCompare(a, b) \in {-1, 0, 1}
      /\ HFSCompare(a, b) = -1 <=> Smaller(a, b)
      /\ HFSCompare(a, b) = 1 <=> Smaller(b, a)
      /\ HFSCompare(a, b) = 0 <=> a = b
  BY CompareIsSmaller
<1>2. /\ HFSCompare(b, a) \in {-1, 0, 1}
      /\ HFSCompare(b, a) = -1 <=> Smaller(b, a)
      /\ HFSCompare(b, a) = 1 <=> Smaller(a, b)
      /\ HFSCompare(b, a) = 0 <=> a = b
  BY CompareIsSmaller
<1>3. QED
  BY <1>1, <1>2

LEMMA NamesTransitive ==
  ASSUME NEW a \in HFSNames, NEW b \in HFSNames, NEW c \in HFSNames,
         ~(HFSCompare(b, a) < 0), ~(HFSCompare(c, b) < 0)
  PROVE  ~(HFSCompare(c, a) < 0)
<1>1. (a = b \/ Smaller(a, b)) /\ (b = c \/ Smaller(b, c))
  BY NamesOrdered
<1>2. a = c \/ Smaller(a, c)
  BY <1>1, SmallerTransitive
<1>3. QED
  BY <1>2, NamesOrdered

\* compareCatalogKeys (catalog.go) is a total order of the keys: two different keys are
\* never equal for it, whatever their names have in common.
THEOREM CatalogOrderTotal == IsTotalOrder(CatalogOrder, CatalogKeys)
<1>0. \A k \in CatalogKeys : k.parentID \in Int /\ k.name \in HFSNames
  BY IDsAreNumbers DEF CatalogKeys
<1>1. ASSUME NEW k \in CatalogKeys, NEW l \in CatalogKeys
      PROVE  <<k, l>> \in CatalogOrder <=>
                \/ k.parentID < l.parentID
                \/ k.parentID = l.parentID /\ ~(HFSCompare(l.name, k.name) < 0)
  <2>1. <<k, l>> \in CatalogOrder <=> ~(compareCatalogKeys(l, k) < 0)
    BY DEF CatalogOrder
  <2>2. CASE k.parentID = l.parentID
    BY <1>0, <2>1, <2>2 DEF compareCatalogKeys
  <2>3. CASE k.parentID # l.parentID
    BY <1>0, <2>1, <2>3 DEF compareCatalogKeys, Sign
  <2>4. QED
    BY <2>2, <2>3
<1>2. ASSUME NEW k \in CatalogKeys, NEW l \in CatalogKeys
      PROVE  <<k, l>> \in CatalogOrder \/ <<l, k>> \in CatalogOrder
  BY <1>0, <1>1, NamesOrdered
<1>3. ASSUME NEW k \in CatalogKeys, NEW l \in CatalogKeys,
             <<k, l>> \in CatalogOrder, <<l, k>> \in CatalogOrder
      PROVE  k = l
  <2>1. k.parentID = l.parentID /\ k.name = l.name
    BY <1>0, <1>1, <1>3, NamesOrdered
  <2>2. QED
    BY <2>1 DEF CatalogKeys
<1>4. ASSUME NEW k \in CatalogKeys, NEW l \in CatalogKeys, NEW m \in CatalogKeys,
             <<k, l>> \in CatalogOrder, <<l, m>> \in CatalogOrder
      PROVE  <<k, m>> \in CatalogOrder
  BY <1>0, <1>1, <1>4, NamesTransitive
<1>5. QED
  BY <1>2, <1>3, <1>4 DEF IsTotalOrder

\* compareAttrKeys (attributes.go) is a total order of the keys too.
THEOREM AttrOrderTotal == IsTotalOrder(AttrOrder, AttrKeys)
<1>0. \A k \in AttrKeys : k.fileID \in Int /\ k.startBlock \in Int /\ k.name \in HFSNames
  BY IDsAreNumbers DEF AttrKeys
<1>1. ASSUME NEW k \in AttrKeys, NEW l \in AttrKeys
      PROVE  <<k, l>> \in AttrOrder <=>
                \/ k.fileID < l.fileID
                \/ k.fileID = l.fileID /\ k.startBlock < l.startBlock
                \/ /\ k.fileID = l.fileID /\ k.startBlock = l.startBlock
                   /\ ~(HFSCompare(l.name, k.name) < 0)
  <2>1. <<k, l>> \in AttrOrder <=> ~(compareAttrKeys(l, k) < 0)
    BY DEF AttrOrder
  <2>2. CASE k.fileID # l.fileID
    BY <1>0, <2>1, <2>2 DEF compareAttrKeys, Sign
  <2>3. CASE k.fileID = l.fileID /\ k.startBlock # l.startBlock
    BY <1>0, <2>1, <2>3 DEF compareAttrKeys, Sign
  <2>4. CASE k.fileID = l.fileID /\ k.startBlock = l.startBlock
    BY <1>0, <2>1, <2>4 DEF compareAttrKeys
  <2>5. QED
    BY <2>2, <2>3, <2>4
<1>2. ASSUME NEW k \in AttrKeys, NEW l \in AttrKeys
      PROVE  <<k, l>> \in AttrOrder \/ <<l, k>> \in AttrOrder
  BY <1>0, <1>1, NamesOrdered
<1>3. ASSUME NEW k \in AttrKeys, NEW l \in AttrKeys,
             <<k, l>> \in AttrOrder, <<l, k>> \in AttrOrder
      PROVE  k = l
  <2>1. k.fileID = l.fileID /\ k.startBlock = l.startBlock /\ k.name = l.name
    BY <1>0, <1>1, <1>3, NamesOrdered
  <2>2. QED
    BY <2>1 DEF AttrKeys
<1>4. ASSUME NEW k \in AttrKeys, NEW l \in AttrKeys, NEW m \in AttrKeys,
             <<k, l>> \in AttrOrder, <<l, m>> \in AttrOrder
      PROVE  <<k, m>> \in AttrOrder
  <2>1. CASE k.fileID = l.fileID /\ k.startBlock = l.startBlock
             /\ l.fileID = m.fileID /\ l.startBlock = m.startBlock
    BY <1>0, <1>1, <1>4, <2>1, NamesTransitive
  <2>2. CASE ~(k.fileID = l.fileID /\ k.startBlock = l.startBlock
               /\ l.fileID = m.fileID /\ l.startBlock = m.startBlock)
    BY <1>0, <1>1, <1>4, <2>2
  <2>3. QED
    BY <2>1, <2>2
<1>5. QED
  BY <1>2, <1>3, <1>4 DEF IsTotalOrder

----------------------------------------------------------------------------
(* What the sort and the look at the neighbours come to, for any total     *)
(* order.                                                                  *)

\* Two equal elements of a sorted sequence have only their equals between them.
LEMMA EqualNeighbours ==
  ASSUME NEW K, NEW order, IsTotalOrder(order, K),
         NEW keys \in Seq(K), Sorted(keys, order), HasEqual(keys)
  PROVE  \E i \in 2 .. Len(keys) : keys[i - 1] = keys[i]
<1>0. Len(keys) \in Nat /\ DOMAIN keys = 1 .. Len(keys)
  OBVIOUS
<1>1. PICK i \in 1 .. Len(keys), j \in 1 .. Len(keys) : i < j /\ keys[i] = keys[j]
  <2>1. PICK i \in 1 .. Len(keys), j \in 1 .. Len(keys) : i # j /\ keys[i] = keys[j]
    BY <1>0 DEF HasEqual
  <2>2. i < j \/ j < i
    BY <1>0, <2>1
  <2>3. QED
    BY <2>1, <2>2
<1>2. /\ i + 1 \in 2 .. Len(keys) /\ i + 1 \in 1 .. Len(keys)
      /\ i < i + 1 /\ (i + 1) - 1 = i /\ (i + 1 = j \/ i + 1 < j)
  BY <1>0, <1>1
<1>3. keys[i] \in K /\ keys[i + 1] \in K
  BY <1>0, <1>1, <1>2
<1>4. <<keys[i], keys[i + 1]>> \in order
  BY <1>0, <1>1, <1>2 DEF Sorted
<1>5. CASE i + 1 = j
  BY <1>1, <1>2, <1>5
<1>6. CASE i + 1 < j
  <2>1. <<keys[i + 1], keys[i]>> \in order
    BY <1>0, <1>1, <1>2, <1>6 DEF Sorted
  <2>2. keys[i] = keys[i + 1]
    BY <1>3, <1>4, <2>1 DEF IsTotalOrder
  <2>3. QED
    BY <1>2, <2>2
<1>7. QED
  BY <1>2, <1>5, <1>6

\* Where the first difference of two sorted arrangements would be, each has the smaller
\* element.
LEMMA SortIsUnique ==
  ASSUME NEW K, NEW order, IsTotalOrder(order, K),
         NEW s \in Seq(K), NEW t \in Seq(K), Sorted(s, order), Sorted(t, order),
         Rearranged(s, t), ~HasEqual(s)
  PROVE  s = t
<1>0. /\ Len(s) \in Nat /\ Len(t) = Len(s)
      /\ DOMAIN s = 1 .. Len(s) /\ DOMAIN t = 1 .. Len(s)
  BY DEF Rearranged
<1>1. PICK p \in [1 .. Len(s) -> 1 .. Len(s)] :
         /\ \A i, j \in 1 .. Len(s) : p[i] = p[j] => i = j
         /\ \A j \in 1 .. Len(s) : \E i \in 1 .. Len(s) : p[i] = j
         /\ \A i \in 1 .. Len(s) : t[i] = s[p[i]]
  BY Zenon DEF Rearranged
<1>2. ASSUME NEW i \in 1 .. Len(s), NEW j \in 1 .. Len(s), i # j PROVE s[i] # s[j]
  BY <1>0, <1>2, Zenon DEF HasEqual
<1>3. ASSUME NEW i \in 1 .. Len(s), NEW j \in 1 .. Len(s), i # j PROVE t[i] # t[j]
  <2>1. p[i] \in 1 .. Len(s) /\ p[j] \in 1 .. Len(s) /\ p[i] # p[j]
    BY <1>1, <1>3, Zenon
  <2>2. s[p[i]] # s[p[j]]
    BY <1>2, <2>1, Zenon
  <2>3. QED
    BY <1>1, <2>2, Zenon
<1> DEFINE D == {i \in 1 .. Len(s) : s[i] # t[i]}
<1>4. SUFFICES ASSUME D # {} PROVE FALSE
  <2>1. ASSUME D = {} PROVE \A i \in 1 .. Len(s) : s[i] = t[i]
    BY <2>1
  <2>2. QED
    BY <1>0, <2>1
<1>5. PICK d \in D : \A j \in D : d <= j
  <2>1. D \in SUBSET Nat
    BY <1>0
  <2>2. QED
    BY <1>4, <2>1, FirstIsLeast
<1>6. d \in 1 .. Len(s) /\ s[d] # t[d] /\ s[d] \in K /\ t[d] \in K
  BY <1>0, <1>5
<1>7. ASSUME NEW j \in 1 .. Len(s), j < d PROVE s[j] = t[j]
  BY <1>0, <1>5, <1>7
<1>8. <<s[d], t[d]>> \in order
  <2>1. PICK e \in 1 .. Len(s) : t[d] = s[e]
    BY <1>1, <1>6
  <2>2. ~(e < d)
    <3>1. ASSUME e < d PROVE FALSE
      BY <1>3, <1>6, <1>7, <2>1, <3>1
    <3>2. QED
      BY <3>1
  <2>3. d < e
    BY <1>0, <1>6, <2>1, <2>2
  <2>4. QED
    BY <1>0, <1>6, <2>1, <2>3 DEF Sorted
<1>9. <<t[d], s[d]>> \in order
  <2>1. PICK e \in 1 .. Len(s) : s[d] = t[e]
    BY <1>1, <1>6
  <2>2. ~(e < d)
    <3>1. ASSUME e < d PROVE FALSE
      BY <1>2, <1>6, <1>7, <2>1, <3>1
    <3>2. QED
      BY <3>1
  <2>3. d < e
    BY <1>0, <1>6, <2>1, <2>2
  <2>4. QED
    BY <1>0, <1>6, <2>1, <2>3 DEF Sorted
<1>10. QED
  BY <1>6, <1>8, <1>9 DEF IsTotalOrder

\* After the sort of BuildCatalogTree (catalog.go) a comparison of neighbours finds two
\* equal keys wherever they were among the records, and refuses nothing else.
THEOREM CatalogRefusesEqual ==
  ASSUME NEW keys \in Seq(CatalogKeys), Sorted(keys, CatalogOrder)
  PROVE  CatalogRefuses(keys) <=> HasEqual(keys)
<1>0. /\ Len(keys) \in Nat /\ DOMAIN keys = 1 .. Len(keys)
      /\ \A i \in 2 .. Len(keys) : i \in 1 .. Len(keys) /\ i - 1 \in 1 .. Len(keys) /\ i - 1 # i
  OBVIOUS
<1>1. ASSUME NEW k \in CatalogKeys, NEW l \in CatalogKeys
      PROVE  compareCatalogKeys(k, l) = 0 <=> k = l
  <2>1. /\ k.parentID \in Int /\ k.name \in HFSNames
        /\ l.parentID \in Int /\ l.name \in HFSNames
    BY IDsAreNumbers DEF CatalogKeys
  <2>2. k = l <=> k.parentID = l.parentID /\ k.name = l.name
    BY DEF CatalogKeys
  <2>3. HFSCompare(k.name, l.name) = 0 <=> k.name = l.name
    BY <2>1, CompareIsSmaller
  <2>4. QED
    BY <2>1, <2>2, <2>3 DEF compareCatalogKeys, Sign
<1>2. CatalogRefuses(keys) <=> \E i \in 2 .. Len(keys) : keys[i - 1] = keys[i]
  <2>1. \A i \in 2 .. Len(keys) : keys[i - 1] \in CatalogKeys /\ keys[i] \in CatalogKeys
    BY <1>0
  <2>2. QED
    BY <1>1, <2>1 DEF CatalogRefuses
<1>3. HasEqual(keys) => \E i \in 2 .. Len(keys) : keys[i - 1] = keys[i]
  BY CatalogOrderTotal, EqualNeighbours
<1>4. QED
  BY <1>0, <1>2, <1>3 DEF HasEqual

\* The same of BuildAttributesTree (attributes.go).
THEOREM AttrsRefuseEqual ==
  ASSUME NEW keys \in Seq(AttrKeys), Sorted(keys, AttrOrder)
  PROVE  AttrsRefuse(keys) <=> HasEqual(keys)
<1>0. /\ Len(keys) \in Nat /\ DOMAIN keys = 1 .. Len(keys)
      /\ \A i \in 2 .. Len(keys) : i \in 1 .. Len(keys) /\ i - 1 \in 1 .. Len(keys) /\ i - 1 # i
  OBVIOUS
<1>1. ASSUME NEW k \in AttrKeys, NEW l \in AttrKeys
      PROVE  compareAttrKeys(k, l) = 0 <=> k = l
  <2>1. /\ k.fileID \in Int /\ k.startBlock \in Int /\ k.name \in HFSNames
        /\ l.fileID \in Int /\ l.startBlock \in Int /\ l.name \in HFSNames
    BY IDsAreNumbers DEF AttrKeys
  <2>2. k = l <=> /\ k.fileID = l.fileID /\ k.startBlock = l.startBlock
                  /\ k.name = l.name
    BY DEF AttrKeys
  <2>3. HFSCompare(k.name, l.name) = 0 <=> k.name = l.name
    BY <2>1, CompareIsSmaller
  <2>4. QED
    BY <2>1, <2>2, <2>3 DEF compareAttrKeys, Sign
<1>2. AttrsRefuse(keys) <=> \E i \in 2 .. Len(keys) : keys[i - 1] = keys[i]
  <2>1. \A i \in 2 .. Len(keys) : keys[i - 1] \in AttrKeys /\ keys[i] \in AttrKeys
    BY <1>0
  <2>2. QED
    BY <1>1, <2>1 DEF AttrsRefuse
<1>3. HasEqual(keys) => \E i \in 2 .. Len(keys) : keys[i - 1] = keys[i]
  BY AttrOrderTotal, EqualNeighbours
<1>4. QED
  BY <1>0, <1>2, <1>3 DEF HasEqual

\* sort.Slice may leave equal records in any order, but records that are not refused
\* have one sorted arrangement: the order they came in leaves no trace in the trees.
THEOREM SortedOnce ==
  /\ \A s, t \in Seq(CatalogKeys) :
        /\ Sorted(s, CatalogOrder) /\ Sorted(t, CatalogOrder) /\ Rearranged(s, t)
        /\ ~CatalogRefuses(s)
        => s = t
  /\ \A s, t \in Seq(AttrKeys) :
        /\ Sorted(s, AttrOrder) /\ Sorted(t, AttrOrder) /\ Rearranged(s, t)
        /\ ~AttrsRefuse(s)
        => s = t
<1>1. ASSUME NEW s \in Seq(CatalogKeys), NEW t \in Seq(CatalogKeys),
             Sorted(s, CatalogOrder), Sorted(t, CatalogOrder), Rearranged(s, t),
             ~CatalogRefuses(s)
      PROVE  s = t
  <2>1. ~HasEqual(s)
    BY <1>1, CatalogRefusesEqual
  <2>2. QED
    BY <1>1, <2>1, CatalogOrderTotal, SortIsUnique
<1>2. ASSUME NEW s \in Seq(AttrKeys), NEW t \in Seq(AttrKeys),
             Sorted(s, AttrOrder), Sorted(t, AttrOrder), Rearranged(s, t),
             ~AttrsRefuse(s)
      PROVE  s = t
  <2>1. ~HasEqual(s)
    BY <1>2, AttrsRefuseEqual
  <2>2. QED
    BY <1>2, <2>1, AttrOrderTotal, SortIsUnique
<1>3. QED
  BY <1>1, <1>2
=============================================================================
