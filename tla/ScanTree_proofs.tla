-------------------------- MODULE ScanTree_proofs ---------------------------
(* Proofs about ScanTree, for every folder and every change of it.         *)
EXTENDS ScanTree, SequenceFacts, FiniteSetTheorems

----------------------------------------------------------------------------
(* Listings.                                                               *)

\* s lists the numbers of S, each once, from the least on.
Lists(s, S, n) ==
    /\ s \in [1 .. n -> S]
    /\ \A i, j \in 1 .. n : i < j => s[i] < s[j]

LEMMA Sortable ==
    ASSUME NEW S \in SUBSET Nat, IsFiniteSet(S)
    PROVE  \E s : Lists(s, S, Cardinality(S))
<1> DEFINE T == {n \in Nat : \A X \in SUBSET Nat :
                    IsFiniteSet(X) /\ Cardinality(X) = n => \E s : Lists(s, X, n)}
<1>1. 0 \in T
  <2> SUFFICES ASSUME NEW X \in SUBSET Nat, IsFiniteSet(X), Cardinality(X) = 0
               PROVE  \E s : Lists(s, X, 0)
    OBVIOUS
  <2>1. Lists([i \in 1 .. 0 |-> i], X, 0)
    BY DEF Lists
  <2> QED
    BY <2>1
<1>2. ASSUME NEW n \in Nat, n \in T PROVE n + 1 \in T
  <2> SUFFICES ASSUME NEW X \in SUBSET Nat, IsFiniteSet(X), Cardinality(X) = n + 1
               PROVE  \E s : Lists(s, X, n + 1)
    OBVIOUS
  <2>1. X # {}
    BY FS_EmptySet
  <2>2. PICK m \in X : \A x \in X : m <= x
    BY <2>1, LeastElement
  <2> DEFINE Y == X \ {m}
  <2>3. Y \in SUBSET Nat /\ IsFiniteSet(Y) /\ Cardinality(Y) = n
    <3>1. IsFiniteSet(Y) /\ Cardinality(Y) = Cardinality(X) - 1
      BY <2>2, FS_RemoveElement
    <3> QED
      BY <3>1
  <2>4. PICK t : Lists(t, Y, n)
    BY <1>2, <2>3
  <2>5. \A y \in Y : y \in X /\ m < y
    BY <2>2
  <2> HIDE DEF Y
  <2> DEFINE s == [i \in 1 .. n + 1 |-> IF i = 1 THEN m ELSE t[i - 1]]
  <2>6. ASSUME NEW i \in 2 .. n + 1 PROVE i - 1 \in 1 .. n /\ s[i] = t[i - 1] /\ t[i - 1] \in Y
    BY <2>4 DEF Lists
  <2>7. s[1] = m
    OBVIOUS
  <2>8. s \in [1 .. n + 1 -> X]
    <3>1. ASSUME NEW i \in 1 .. n + 1 PROVE (IF i = 1 THEN m ELSE t[i - 1]) \in X
      <4>1. CASE i = 1
        BY <4>1
      <4>2. CASE i # 1
        <5>1. i \in 2 .. n + 1
          BY <4>2
        <5> QED
          BY <2>5, <2>6, <4>2, <5>1
      <4> QED
        BY <4>1, <4>2
    <3> QED
      BY <3>1
  <2>9. ASSUME NEW i \in 1 .. n + 1, NEW j \in 1 .. n + 1, i < j PROVE s[i] < s[j]
    <3>1. j \in 2 .. n + 1
      BY <2>9
    <3>2. CASE i = 1
      BY <2>5, <2>6, <2>7, <3>1, <3>2
    <3>3. CASE i # 1
      <4>1. i \in 2 .. n + 1 /\ i - 1 < j - 1
        BY <2>9, <3>3
      <4>2. i - 1 \in 1 .. n /\ j - 1 \in 1 .. n /\ s[i] = t[i - 1] /\ s[j] = t[j - 1]
        BY <2>6, <3>1, <4>1
      <4> QED
        BY <2>4, <4>1, <4>2 DEF Lists
    <3> QED
      BY <3>2, <3>3
  <2> QED
    BY <2>8, <2>9 DEF Lists
<1>3. Nat \subseteq T
  <2> HIDE DEF T
  <2> QED
    BY <1>1, <1>2, Induction
<1> QED
  BY <1>3, FS_CardinalityType

\* Such a list leaves nothing out.
LEMMA ListsAll ==
    ASSUME NEW S \in SUBSET Nat, IsFiniteSet(S), NEW s, Lists(s, S, Cardinality(S))
    PROVE  \A x \in S : \E i \in 1 .. Cardinality(S) : s[i] = x
<1> DEFINE n == Cardinality(S)
<1>1. n \in Nat /\ IsFiniteSet(1 .. n) /\ Cardinality(1 .. n) = n
  BY FS_CardinalityType, FS_Interval
<1> HIDE DEF n
<1>2. s \in [1 .. n -> S] /\ \A i, j \in 1 .. n : i < j => s[i] < s[j]
  BY DEF Lists, n
<1>3. ASSUME NEW i \in 1 .. n, NEW j \in 1 .. n, s[i] = s[j] PROVE i = j
  <2>1. s[i] \in Nat /\ s[j] \in Nat
    BY <1>2
  <2>2. ~(s[i] < s[j]) /\ ~(s[j] < s[i])
    BY <1>3, <2>1
  <2> QED
    BY <1>1, <1>2, <2>2
<1>4. s \in Injection(1 .. n, S)
  BY <1>2, <1>3 DEF Injection, IsInjective
<1>5. s \in Surjection(1 .. n, S)
  BY <1>1, <1>4, FS_Injection DEF n
<1> QED
  BY <1>5 DEF Surjection, n

LEMMA ListingIs ==
    ASSUME NEW p, FolderInv
    PROVE  /\ Listing(p) \in Seq(Names)
           /\ \A m, n \in DOMAIN Listing(p) : m < n => Listing(p)[m] < Listing(p)[n]
           /\ \A x : x \in NamesIn(p) <=> \E m \in DOMAIN Listing(p) : Listing(p)[m] = x
<1> DEFINE S == NamesIn(p)
           n == Cardinality(S)
<1>1. S \in SUBSET Names
  <2>1. ASSUME NEW q \in DOMAIN tree \ {Root} PROVE Last(q) \in Names
    <3>1. q \in Seq(Names) /\ q # <<>>
      BY DEF FolderInv, Root
    <3>2. Len(q) \in 1 .. Len(q)
      BY <3>1, EmptySeq
    <3> QED
      BY <3>1, <3>2, ElementOfSeq DEF Last
  <2> QED
    BY <2>1 DEF NamesIn
<1>2. S \in SUBSET Nat /\ IsFiniteSet(S)
  BY <1>1, ScanAssumption, FS_Subset
<1>3. n \in Nat
  BY <1>2, FS_CardinalityType
<1> HIDE DEF S, n
<1>4. PICK t : Lists(t, S, n)
  BY <1>2, Sortable DEF n
<1>5. Lists(Listing(p), S, n)
  <2>1. Listing(p) = CHOOSE s \in [1 .. n -> S] : \A i, j \in DOMAIN s : i < j => s[i] < s[j]
    BY DEF Listing, S, n
  <2>2. t \in [1 .. n -> S] /\ \A i, j \in DOMAIN t : i < j => t[i] < t[j]
    BY <1>4 DEF Lists
  <2> DEFINE s == Listing(p)
  <2>3. s \in [1 .. n -> S] /\ \A i, j \in DOMAIN s : i < j => s[i] < s[j]
    BY <2>1, <2>2
  <2> QED
    BY <2>3 DEF Lists
<1>6. \A x \in S : \E i \in 1 .. n : Listing(p)[i] = x
  BY <1>2, <1>5, ListsAll DEF n
<1>7. Listing(p) \in [1 .. n -> S] /\ \A i, j \in 1 .. n : i < j => Listing(p)[i] < Listing(p)[j]
  BY <1>5 DEF Lists
<1>8. Listing(p) \in Seq(Names)
  BY <1>1, <1>3, <1>7, SeqDef
<1> QED
  BY <1>1, <1>6, <1>7, <1>8 DEF S

----------------------------------------------------------------------------
(* The order of paths.                                                     *)

LEMMA AppendIs ==
    ASSUME NEW p \in Seq(Names), NEW x \in Names
    PROVE  /\ Append(p, x) \in Seq(Names) \ {Root} /\ Len(Append(p, x)) = Len(p) + 1
           /\ Len(p) \in Nat
           /\ Append(p, x)[Len(p) + 1] = x /\ Last(Append(p, x)) = x
           /\ \A m \in 1 .. Len(p) : Append(p, x)[m] = p[m]
           /\ Front(Append(p, x)) = p
<1>1. /\ Append(p, x) \in Seq(Names) /\ Append(p, x) # <<>> /\ Len(Append(p, x)) = Len(p) + 1
      /\ Append(p, x)[Len(p) + 1] = x /\ \A m \in 1 .. Len(p) : Append(p, x)[m] = p[m]
      /\ Len(p) \in Nat
  BY AppendProperties, LenProperties
<1>2. Front(Append(p, x)) = p
  <2> DEFINE q == Append(p, x)
             f == SubSeq(q, 1, Len(p))
  <2>1. \A i \in 1 .. Len(p) : q[i] \in Names
    BY <1>1, ElementOfSeq
  <2>2. f \in Seq(Names) /\ Len(f) = Len(p) /\ \A i \in 1 .. Len(p) : f[i] = q[i]
    <3> HIDE DEF q
    <3>1. /\ f \in Seq(Names) /\ Len(f) = IF 1 <= Len(p) THEN Len(p) - 1 + 1 ELSE 0
          /\ \A i \in 1 .. Len(p) - 1 + 1 : f[i] = q[1 + i - 1]
      BY <1>1, <2>1, SubSeqProperties
    <3> QED
      BY <1>1, <3>1
  <2> HIDE DEF f
  <2>3. f = p
    BY <1>1, <2>2, SeqEqual
  <2> QED
    BY <1>1, <2>3 DEF Front, f
<1> QED
  BY <1>1, <1>2 DEF Last, Root

\* The first names of a path.
LEMMA PrefixIs ==
    ASSUME NEW p \in Seq(Names), NEW n \in 0 .. Len(p)
    PROVE  /\ SubSeq(p, 1, n) \in Seq(Names) /\ Len(SubSeq(p, 1, n)) = n
           /\ \A m \in 1 .. n : SubSeq(p, 1, n)[m] = p[m]
<1>1. Len(p) \in Nat /\ \A i \in 1 .. n : p[i] \in Names
  BY LenProperties, ElementOfSeq
<1>2. /\ SubSeq(p, 1, n) \in Seq(Names)
      /\ Len(SubSeq(p, 1, n)) = IF 1 <= n THEN n - 1 + 1 ELSE 0
      /\ \A i \in 1 .. n - 1 + 1 : SubSeq(p, 1, n)[i] = p[1 + i - 1]
  BY <1>1, SubSeqProperties
<1> QED
  BY <1>1, <1>2

\* A path that is not the folder's is the name in the directory.
LEMMA FrontIs ==
    ASSUME NEW p \in Seq(Names), p # Root
    PROVE  /\ Len(p) \in Nat \ {0} /\ Front(p) \in Seq(Names) /\ Len(Front(p)) = Len(p) - 1
           /\ \A m \in 1 .. Len(p) - 1 : Front(p)[m] = p[m]
           /\ Last(p) = p[Len(p)] /\ Last(p) \in Names
           /\ Front(p) = Root <=> Len(p) = 1
           /\ p = Append(Front(p), Last(p))
<1>1. Len(p) \in Nat \ {0}
  BY EmptySeq DEF Root
<1> DEFINE n == Len(p) - 1
           f == Front(p)
           x == Last(p)
<1>2. n \in 0 .. Len(p) /\ n + 1 = Len(p)
  BY <1>1
<1>3. f \in Seq(Names) /\ Len(f) = n /\ \A m \in 1 .. n : f[m] = p[m]
  <2> HIDE DEF n
  <2>1. SubSeq(p, 1, n) = f
    BY DEF Front, n
  <2> QED
    BY <1>2, <2>1, PrefixIs
<1>4. x = p[Len(p)] /\ x \in Names
  BY <1>1, ElementOfSeq DEF Last
<1>5. f = Root <=> Len(p) = 1
  <2>1. f = <<>> <=> Len(f) = 0
    BY <1>3, EmptySeq
  <2> QED
    BY <1>1, <1>3, <2>1 DEF Root
<1> HIDE DEF f, x
<1>6. p = Append(f, x)
  <2>1. /\ Append(f, x) \in Seq(Names) /\ Len(Append(f, x)) = n + 1
        /\ Append(f, x)[n + 1] = x /\ \A m \in 1 .. n : Append(f, x)[m] = f[m]
    BY <1>3, <1>4, AppendIs
  <2>2. ASSUME NEW i \in 1 .. Len(p) PROVE p[i] = Append(f, x)[i]
    <3>1. i \in 1 .. n \/ i = n + 1
      BY <1>1
    <3> QED
      BY <1>2, <1>3, <1>4, <2>1, <3>1
  <2> QED
    BY <1>2, <2>1, <2>2, SeqEqual
<1> QED
  BY <1>1, <1>3, <1>4, <1>5, <1>6 DEF f, x

LEMMA PathsAreSeqs == Paths \subseteq Seq(Names)
<1> SUFFICES ASSUME NEW n \in 0 .. MaxDepth, NEW p \in [1 .. n -> Names] PROVE p \in Seq(Names)
  BY DEF Paths
<1>1. n \in Nat
  BY ScanAssumption
<1> QED
  BY <1>1, SeqDef

\* What comes before a directory comes before all that is in it.
LEMMA EarlierThanBelow ==
    ASSUME NEW p \in Seq(Names), NEW q \in Seq(Names), NEW r \in Seq(Names),
           Earlier(p, q), Above(q, r)
    PROVE  Earlier(p, r)
<1>1. /\ Len(p) \in Nat /\ Len(q) \in Nat /\ Len(r) \in Nat
      /\ Len(q) <= Len(r) /\ \A m \in 1 .. Len(q) : r[m] = q[m]
  BY LenProperties DEF Above
<1>2. CASE Len(p) < Len(q) /\ Above(p, q)
  BY <1>1, <1>2 DEF Earlier, Above
<1>3. CASE \E i \in 1 .. Len(p) : /\ i <= Len(q) /\ p[i] < q[i]
                                  /\ \A m \in 1 .. i - 1 : p[m] = q[m]
  <2>1. PICK i \in 1 .. Len(p) : /\ i <= Len(q) /\ p[i] < q[i]
                                 /\ \A m \in 1 .. i - 1 : p[m] = q[m]
    BY <1>3
  <2>2. i \in 1 .. Len(q) /\ i <= Len(r) /\ r[i] = q[i]
    BY <1>1, <2>1
  <2>3. ASSUME NEW m \in 1 .. i - 1 PROVE p[m] = r[m]
    <3>1. m \in 1 .. Len(q)
      BY <1>1, <2>2
    <3> QED
      BY <1>1, <2>1, <3>1
  <2> QED
    BY <2>1, <2>2, <2>3 DEF Earlier
<1> QED
  BY <1>2, <1>3 DEF Earlier

\* The order is strict.
LEMMA EarlierStrict ==
    ASSUME NEW p \in Seq(Names), NEW q \in Seq(Names), Earlier(p, q)
    PROVE  p # q /\ ~Earlier(q, p)
<1>1. /\ Len(p) \in Nat /\ Len(q) \in Nat
      /\ \A i \in 1 .. Len(p) : p[i] \in Nat
      /\ \A i \in 1 .. Len(q) : q[i] \in Nat
  BY LenProperties, ElementOfSeq, ScanAssumption
<1>2. CASE Len(p) < Len(q) /\ Above(p, q)
  <2>1. p # q /\ ~(Len(q) < Len(p))
    BY <1>1, <1>2
  <2>2. ASSUME NEW i \in 1 .. Len(q), i <= Len(p), q[i] < p[i] PROVE FALSE
    <3>1. i \in 1 .. Len(p)
      BY <1>1, <2>2
    <3>2. q[i] = p[i]
      BY <1>2, <3>1 DEF Above
    <3> QED
      BY <1>1, <2>2, <3>1, <3>2
  <2> QED
    BY <2>1, <2>2 DEF Earlier
<1>3. CASE \E i \in 1 .. Len(p) : /\ i <= Len(q) /\ p[i] < q[i]
                                  /\ \A m \in 1 .. i - 1 : p[m] = q[m]
  <2>1. PICK i \in 1 .. Len(p) : /\ i <= Len(q) /\ p[i] < q[i]
                                 /\ \A m \in 1 .. i - 1 : p[m] = q[m]
    BY <1>3
  <2>2. i \in 1 .. Len(q) /\ p[i] \in Nat /\ q[i] \in Nat
    BY <1>1, <2>1
  <2>3. p # q
    BY <2>1, <2>2
  <2>4. ~Above(q, p)
    BY <1>1, <2>1, <2>2 DEF Above
  <2>5. ASSUME NEW j \in 1 .. Len(q), j <= Len(p), q[j] < p[j],
               \A m \in 1 .. j - 1 : q[m] = p[m]
        PROVE  FALSE
    <3>1. j \in 1 .. Len(p) /\ p[j] \in Nat /\ q[j] \in Nat
      BY <1>1, <2>5
    <3>2. CASE i < j
      BY <2>1, <2>2, <2>5, <3>2
    <3>3. CASE j < i
      BY <2>1, <2>5, <3>1, <3>3
    <3>4. CASE i = j
      BY <2>1, <2>2, <2>5, <3>4
    <3> QED
      BY <2>2, <3>1, <3>2, <3>3, <3>4
  <2> QED
    BY <2>3, <2>4, <2>5 DEF Earlier
<1> QED
  BY <1>2, <1>3 DEF Earlier

LEMMA AboveTransitive ==
    ASSUME NEW p \in Seq(Names), NEW q \in Seq(Names), NEW r \in Seq(Names),
           Above(p, q), Above(q, r)
    PROVE  Above(p, r)
<1>1. Len(p) \in Nat /\ Len(q) \in Nat /\ Len(r) \in Nat
  BY LenProperties
<1> QED
  BY <1>1 DEF Above

\* The path of a directory's entry.
LEMMA EntryBelow ==
    ASSUME NEW p \in Seq(Names), NEW x \in Names
    PROVE  Above(p, Append(p, x)) /\ Earlier(p, Append(p, x))
<1>1. Len(Append(p, x)) = Len(p) + 1 /\ Len(p) \in Nat /\ \A m \in 1 .. Len(p) : Append(p, x)[m] = p[m]
  BY AppendIs
<1>2. Above(p, Append(p, x))
  BY <1>1 DEF Above
<1> QED
  BY <1>1, <1>2 DEF Earlier

----------------------------------------------------------------------------
(* The folder.                                                             *)

\* Everything in a tree is in directories.
LEMMA TreeClosed ==
    ASSUME NEW t, IsTree(t), DOMAIN t \subseteq Seq(Names)
    PROVE  \A p \in DOMAIN t : \A n \in 1 .. Len(p) - 1 :
              SubSeq(p, 1, n) \in DOMAIN t \ {Root} /\ t[SubSeq(p, 1, n)] = "dir"
<1> DEFINE Closed(p) == \A n \in 1 .. Len(p) - 1 :
                           SubSeq(p, 1, n) \in DOMAIN t \ {Root} /\ t[SubSeq(p, 1, n)] = "dir"
           T == {l \in Nat : \A p \in DOMAIN t : Len(p) = l => Closed(p)}
<1>1. 0 \in T
  OBVIOUS
<1>2. ASSUME NEW l \in Nat, l \in T PROVE l + 1 \in T
  <2> SUFFICES ASSUME NEW p \in DOMAIN t, Len(p) = l + 1, NEW n \in 1 .. l
               PROVE  SubSeq(p, 1, n) \in DOMAIN t \ {Root} /\ t[SubSeq(p, 1, n)] = "dir"
    OBVIOUS
  <2> DEFINE f == Front(p)
             s == SubSeq(p, 1, n)
  <2>1. p \in Seq(Names) /\ p # Root
    BY EmptySeq DEF Root
  <2>2. /\ f \in Seq(Names) /\ Len(f) = l /\ \A m \in 1 .. l : f[m] = p[m]
        /\ f = Root <=> l + 1 = 1
    <3>1. Len(p) - 1 = l
      OBVIOUS
    <3>2. /\ f \in Seq(Names) /\ Len(f) = Len(p) - 1
          /\ \A m \in 1 .. Len(p) - 1 : f[m] = p[m]
          /\ f = Root <=> Len(p) = 1
      BY <2>1, FrontIs
    <3> QED
      BY <3>1, <3>2
  <2>3. f \in DOMAIN t /\ f # Root /\ t[f] = "dir"
    BY <2>1, <2>2 DEF IsTree
  <2>4. s \in Seq(Names) /\ Len(s) = n /\ \A m \in 1 .. n : s[m] = p[m]
    BY <2>1, PrefixIs
  <2> HIDE DEF f, s
  <2>5. CASE n = l
    <3>1. s = f
      BY <2>2, <2>4, <2>5, SeqEqual
    <3> QED
      BY <2>3, <3>1 DEF s
  <2>6. CASE n < l
    <3> DEFINE r == SubSeq(f, 1, n)
    <3>1. r \in DOMAIN t \ {Root} /\ t[r] = "dir"
      BY <1>2, <2>2, <2>3, <2>6
    <3>2. r \in Seq(Names) /\ Len(r) = n /\ \A m \in 1 .. n : r[m] = f[m]
      BY <2>2, <2>6, PrefixIs
    <3> HIDE DEF r
    <3>3. \A m \in 1 .. n : r[m] = s[m]
      BY <2>2, <2>4, <2>6, <3>2
    <3>4. r = s
      BY <2>4, <3>2, <3>3, SeqEqual
    <3> QED
      BY <3>1, <3>4 DEF s
  <2> QED
    BY <2>5, <2>6
<1>3. Nat \subseteq T
  <2> HIDE DEF T
  <2> QED
    BY <1>1, <1>2, Induction
<1>4. \A p \in DOMAIN t : Len(p) \in Nat
  BY LenProperties
<1> QED
  BY <1>3, <1>4

LEMMA InitFolder ==
    ASSUME ScanInit
    PROVE  FolderInv
<1>0. PICK n \in 0 .. MaxObjects : \E D \in kSubset(n, Inside) :
         tree \in {t \in [D \cup {Root} -> Kinds] :
                      t[Root] \in RootKinds /\ IsTree(t) /\ (t[Root] = "file" => D = {})}
  BY DEF ScanInit
<1>1. PICK D \in kSubset(n, Inside) :
         tree \in {t \in [D \cup {Root} -> Kinds] :
                      t[Root] \in RootKinds /\ IsTree(t) /\ (t[Root] = "file" => D = {})}
  BY <1>0
<1>2. D \subseteq Seq(Names)
  BY <1>1, PathsAreSeqs DEF kSubset, Inside
<1>3. /\ tree \in [D \cup {Root} -> Kinds] /\ IsTree(tree)
      /\ Root \in Seq(Names) /\ DOMAIN tree = D \cup {Root}
  BY <1>1, EmptySeq DEF Root
<1>4. DOMAIN tree \subseteq Seq(Names)
  BY <1>2, <1>3
<1>5. kept = Objects /\ ever = Objects
  BY DEF ScanInit
<1>6. ASSUME NEW o \in kept, NEW m \in 1 .. Len(o[1]) - 1
      PROVE  <<SubSeq(o[1], 1, m), "dir">> \in kept
  <2>1. PICK p \in DOMAIN tree \ {Root} : o = <<p, tree[p]>>
    BY <1>5 DEF Objects
  <2>2. SubSeq(p, 1, m) \in DOMAIN tree \ {Root} /\ tree[SubSeq(p, 1, m)] = "dir"
    BY <1>3, <1>4, <2>1, TreeClosed
  <2> QED
    BY <1>5, <2>1, <2>2 DEF Objects
<1> QED
  BY <1>3, <1>4, <1>5, <1>6 DEF FolderInv

\* The folder itself stays what it is.
LEMMA RootStays ==
    ASSUME FolderInv, SourceChanges
    PROVE  /\ Root \in DOMAIN tree' /\ DOMAIN tree' \subseteq Seq(Names) /\ tree'[Root] = tree[Root]
           /\ \A p \in DOMAIN tree' : tree'[p] \in Kinds
<1>0. Root \in DOMAIN tree /\ DOMAIN tree \subseteq Seq(Names) /\ \A p \in DOMAIN tree : tree[p] \in Kinds
  BY DEF FolderInv
<1>1. PICK p \in Inside :
          \/ tree' = [q \in {r \in DOMAIN tree : ~IsPrefix(p, r)} |-> tree[q]]
          \/ \E kind \in Kinds : tree' = [q \in DOMAIN tree \cup {p} |->
                                            IF q = p THEN kind ELSE tree[q]]
  BY DEF SourceChanges
<1>2. p \in Seq(Names) /\ p # Root
  BY PathsAreSeqs DEF Inside
<1>3. CASE tree' = [q \in {r \in DOMAIN tree : ~IsPrefix(p, r)} |-> tree[q]]
  <2>1. ~IsPrefix(p, Root)
    <3>1. Len(p) \in Nat \ {0} /\ Len(Root) = 0
      BY <1>2, EmptySeq DEF Root
    <3> QED
      BY <3>1 DEF IsPrefix
  <2> QED
    BY <1>0, <1>3, <2>1
<1>4. CASE \E kind \in Kinds : tree' = [q \in DOMAIN tree \cup {p} |->
                                          IF q = p THEN kind ELSE tree[q]]
  BY <1>0, <1>2, <1>4
<1> QED
  BY <1>1, <1>3, <1>4

LEMMA ChangeKeepsFolder ==
    ASSUME FolderInv, SourceChanges
    PROVE  FolderInv'
<1>1. /\ Root \in DOMAIN tree' /\ DOMAIN tree' \subseteq Seq(Names) /\ IsTree(tree')
      /\ \A p \in DOMAIN tree' : tree'[p] \in Kinds
      /\ ever' = ever \cup Objects' /\ kept' = kept \cap Objects'
  BY RootStays DEF SourceChanges
<1>2. Objects' = {<<p, tree'[p]>> : p \in DOMAIN tree' \ {Root}}
  BY DEF Objects
<1>3. ASSUME NEW o \in kept', NEW m \in 1 .. Len(o[1]) - 1
      PROVE  <<SubSeq(o[1], 1, m), "dir">> \in kept'
  <2>1. PICK p \in DOMAIN tree' \ {Root} : o = <<p, tree'[p]>>
    BY <1>1, <1>2, <1>3
  <2> DEFINE s == SubSeq(p, 1, m)
  <2>2. o[1] = p
    BY <2>1
  <2>3. s \in DOMAIN tree' \ {Root} /\ tree'[s] = "dir"
    BY <1>1, <2>1, <2>2, TreeClosed
  <2>4. <<SubSeq(o[1], 1, m), "dir">> \in kept
    BY <1>1, <1>3 DEF FolderInv
  <2> HIDE DEF s
  <2>5. <<s, "dir">> \in Objects'
    BY <1>2, <2>3
  <2> QED
    BY <1>1, <2>2, <2>4, <2>5 DEF s
<1> QED
  BY <1>1, <1>3 DEF FolderInv

\* Only other programs change the folder.
LEMMA StepKeepsSource ==
    ASSUME ScanStep
    PROVE  UNCHANGED source
BY DEF ScanStep, Stat, NameRoot, LstatRoot, ReadDir, Visit, VisitOther, LeaveDir, Collect, Backfill,
       RootInfo, BuildCatalog, Fails, source

LEMMA FolderKept ==
    ASSUME FolderInv, [ScanStep \/ SourceChanges \/ ScanOver]_vars
    PROVE  FolderInv'
<1>1. CASE UNCHANGED source
  <2>1. tree' = tree /\ ever' = ever /\ kept' = kept
    BY <1>1 DEF source
  <2> QED
    BY <2>1 DEF FolderInv, Objects
<1> QED
  BY <1>1, StepKeepsSource, ChangeKeepsFolder DEF ScanOver, vars, source

----------------------------------------------------------------------------
(* The directories being visited.                                          *)

LEMMA StackIs ==
    ASSUME ScanTypes
    PROVE  /\ Len(stack) \in Nat /\ DOMAIN stack = 1 .. Len(stack)
           /\ \A i \in 1 .. Len(stack) :
                 /\ stack[i] \in Frames /\ stack[i].dir \in Seq(Names) /\ Len(stack[i].dir) \in Nat
                 /\ Left(i) \in Seq(Names) /\ Len(Left(i)) \in Nat
                 /\ DOMAIN Left(i) = 1 .. Len(Left(i))
                 /\ \A m \in DOMAIN Left(i) : Left(i)[m] \in Names
<1>1. stack \in Seq(Frames)
  BY DEF ScanTypes
<1>2. Len(stack) \in Nat /\ DOMAIN stack = 1 .. Len(stack)
  BY <1>1, LenProperties
<1>3. ASSUME NEW i \in 1 .. Len(stack)
      PROVE  /\ stack[i] \in Frames /\ stack[i].dir \in Seq(Names) /\ Len(stack[i].dir) \in Nat
             /\ Left(i) \in Seq(Names) /\ Len(Left(i)) \in Nat
             /\ DOMAIN Left(i) = 1 .. Len(Left(i))
             /\ \A m \in DOMAIN Left(i) : Left(i)[m] \in Names
  <2>1. stack[i] \in Frames
    BY <1>1, ElementOfSeq
  <2>2. stack[i].dir \in Seq(Names) /\ Left(i) \in Seq(Names)
    BY <2>1 DEF Frames, Left
  <2> QED
    BY <2>1, <2>2, LenProperties, ElementOfSeq
<1> QED
  BY <1>2, <1>3

\* The directory visited and its next entry.
LEMMA TopIs ==
    ASSUME ScanTypes, StackInv, stack # <<>>
    PROVE  /\ Len(stack) \in Nat \ {0} /\ Len(stack) \in 1 .. Len(stack)
           /\ Frame = stack[Len(stack)] /\ Frame.dir = stack[Len(stack)].dir
           /\ Frame.left = Left(Len(stack))
           /\ Len(Frame.dir) = Len(stack) - 1 /\ Frame.dir \in DOMAIN parentMap
<1>1. Len(stack) \in Nat \ {0}
  BY EmptySeq DEF ScanTypes
<1> DEFINE n == Len(stack)
<1>2. n \in 1 .. n /\ n \in 1 .. Depth /\ Dir(n) = stack[n].dir
  BY <1>1 DEF Depth, Dir
<1>3. Len(Dir(n)) = n - 1 /\ Dir(n) \in DOMAIN parentMap
  BY <1>2 DEF StackInv
<1> QED
  BY <1>1, <1>2, <1>3 DEF Frame, Last, Left

LEMMA TailIs ==
    ASSUME NEW S, NEW s \in Seq(S), s # <<>>
    PROVE  /\ Len(s) \in Nat \ {0} /\ Tail(s) \in Seq(S) /\ Len(Tail(s)) = Len(s) - 1
           /\ Head(s) = s[1] /\ s[1] \in S
           /\ DOMAIN Tail(s) = 1 .. Len(s) - 1
           /\ \A m \in 1 .. Len(s) - 1 : Tail(s)[m] = s[m + 1]
<1>1. Len(s) \in Nat \ {0}
  BY EmptySeq
<1>2. Tail(s) \in Seq(S) /\ Len(Tail(s)) = Len(s) - 1
  BY HeadTailProperties
<1>3. DOMAIN Tail(s) = 1 .. Len(s) - 1
  BY <1>2, LenProperties
<1>4. s[1] \in S /\ Head(s) = s[1]
  BY <1>1, ElementOfSeq
<1> QED
  BY <1>1, <1>2, <1>3, <1>4

LEMMA PathIs ==
    ASSUME ScanTypes, StackInv, stack # <<>>, Frame.left # <<>>
    PROVE  /\ Frame.dir \in Seq(Names) /\ Left(Len(stack))[1] \in Names
           /\ 1 \in DOMAIN Left(Len(stack))
           /\ Path = Append(stack[Len(stack)].dir, Left(Len(stack))[1])
           /\ Path \in Seq(Names) \ {Root} /\ Len(Path) = Len(stack)
           /\ Path[Len(stack)] = Left(Len(stack))[1]
           /\ Front(Path) = Frame.dir
           /\ Above(Frame.dir, Path)
<1> DEFINE n == Len(stack)
           d == Frame.dir
           x == Left(n)[1]
<1>1. /\ n \in Nat \ {0} /\ n \in 1 .. n /\ Frame.left = Left(n)
      /\ d = stack[n].dir /\ Len(d) = n - 1
  BY TopIs
<1>2. d \in Seq(Names) /\ Left(n) \in Seq(Names) /\ DOMAIN Left(n) = 1 .. Len(Left(n))
  BY <1>1, StackIs
<1>3. Head(Left(n)) = x /\ x \in Names /\ Len(Left(n)) \in Nat \ {0}
  BY <1>1, <1>2, TailIs
<1>4. Path = Append(d, x)
  BY <1>1, <1>3 DEF Path
<1> HIDE DEF n, x, d
<1>5. /\ Path \in Seq(Names) \ {Root} /\ Len(Path) = Len(d) + 1 /\ Path[Len(d) + 1] = x
      /\ Front(Path) = d /\ Above(d, Path)
  BY <1>2, <1>3, <1>4, AppendIs, EntryBelow
<1>6. Len(d) + 1 = n /\ 1 \in DOMAIN Left(n)
  BY <1>1, <1>2, <1>3
<1> QED
  BY <1>1, <1>2, <1>3, <1>4, <1>5, <1>6 DEF n, x, d

\* The stack without that entry.
LEMMA PoppedIs ==
    ASSUME ScanTypes, StackInv, stack # <<>>, Frame.left # <<>>
    PROVE  /\ FramePopped \in Seq(Frames) /\ Len(FramePopped) = Len(stack)
           /\ \A i \in 1 .. Len(stack) - 1 : FramePopped[i] = stack[i]
           /\ FramePopped[Len(stack)].dir = stack[Len(stack)].dir
           /\ FramePopped[Len(stack)].left = Tail(Left(Len(stack)))
<1> DEFINE n == Len(stack)
           g == [Frame EXCEPT !.left = Tail(@)]
           f == Front(stack)
<1>1. n \in Nat \ {0} /\ n \in 1 .. n /\ Frame = stack[n] /\ Frame.left = Left(n)
  BY TopIs
<1>2. stack[n] \in Frames /\ Left(n) \in Seq(Names)
  BY <1>1, StackIs
<1>3. Tail(Left(n)) \in Seq(Names)
  BY <1>1, <1>2, TailIs
<1>4. g \in Frames /\ g.dir = stack[n].dir /\ g.left = Tail(Left(n))
  BY <1>1, <1>2, <1>3 DEF Frames
<1>5. f \in Seq(Frames) /\ Len(f) = n - 1 /\ \A m \in 1 .. n - 1 : f[m] = stack[m]
  <2>1. stack \in Seq(Frames)
    BY DEF ScanTypes
  <2>2. \A m \in 1 .. n - 1 : stack[m] \in Frames
    BY <1>1, <2>1, ElementOfSeq
  <2> DEFINE l == n - 1
  <2>3. l \in Nat /\ SubSeq(stack, 1, l) = f
    BY <1>1 DEF Front
  <2> HIDE DEF l, n, f
  <2>4. /\ f \in Seq(Frames) /\ Len(f) = IF 1 <= l THEN l - 1 + 1 ELSE 0
        /\ \A i \in 1 .. l - 1 + 1 : f[i] = stack[1 + i - 1]
    BY <2>2, <2>3, SubSeqProperties DEF l
  <2>5. f \in Seq(Frames) /\ Len(f) = l /\ \A i \in 1 .. l : f[i] = stack[i]
    BY <2>3, <2>4
  <2> QED
    BY <2>5 DEF l
<1> HIDE DEF f, g, n
<1>6. <<g>> \in Seq(Frames) /\ Len(<<g>>) = 1 /\ <<g>>[1] = g
  BY <1>4
<1>7. /\ f \o <<g>> \in Seq(Frames) /\ Len(f \o <<g>>) = (n - 1) + 1
      /\ \A i \in 1 .. (n - 1) + 1 : (f \o <<g>>)[i] = IF i <= n - 1 THEN f[i] ELSE <<g>>[i - (n - 1)]
  BY <1>5, <1>6, ConcatProperties
<1>8. (n - 1) + 1 = n
  BY <1>1
<1>9. (f \o <<g>>)[n] = g /\ \A i \in 1 .. n - 1 : (f \o <<g>>)[i] = stack[i]
  BY <1>1, <1>5, <1>6, <1>7
<1>10. FramePopped = f \o <<g>>
  BY DEF FramePopped, f, g
<1> QED
  BY <1>4, <1>7, <1>8, <1>9, <1>10 DEF n

\* The names left in a directory become fewer.
Fewer(t, s) == t = s \/ (s # <<>> /\ t = Tail(s))

LEMMA FewerIs ==
    ASSUME NEW s \in Seq(Names), NEW t, Fewer(t, s)
    PROVE  /\ \A m \in DOMAIN t : \E k \in DOMAIN s : t[m] = s[k]
           /\ (\A m, k \in DOMAIN s : m < k => s[m] < s[k])
                 => \A m, k \in DOMAIN t : m < k => t[m] < t[k]
<1>1. CASE t = s
  BY <1>1
<1>2. CASE s # <<>> /\ t = Tail(s)
  <2>1. /\ Len(s) \in Nat \ {0} /\ DOMAIN t = 1 .. Len(s) - 1
        /\ \A m \in 1 .. Len(s) - 1 : t[m] = s[m + 1]
    BY <1>2, TailIs
  <2>2. DOMAIN s = 1 .. Len(s)
    BY LenProperties
  <2>3. ASSUME NEW m \in DOMAIN t PROVE m + 1 \in DOMAIN s /\ t[m] = s[m + 1]
    BY <2>1, <2>2
  <2>4. ASSUME NEW m \in DOMAIN t, NEW k \in DOMAIN t, m < k PROVE m + 1 < k + 1
    BY <2>1, <2>4
  <2> QED
    BY <2>3, <2>4
<1> QED
  BY <1>1, <1>2 DEF Fewer

LEMMA StackShrinks ==
    ASSUME ScanTypes, StackInv,
           Depth' \in Nat, Depth' <= Depth, DOMAIN parentMap \subseteq DOMAIN parentMap',
           Len(stack') \in Nat, Len(stack') <= Len(stack),
           \A i \in 1 .. Depth' : Dir(i)' = Dir(i),
           \A i \in 1 .. Len(stack') : Fewer(Left(i)', Left(i))
    PROVE  StackInv'
<1>0. Len(stack) \in Nat /\ Depth \in Nat
  BY StackIs DEF Depth
<1> SUFFICES ASSUME NEW i \in 1 .. Depth'
             PROVE  /\ Len(Dir(i)') = i - 1 /\ Dir(i)' \in DOMAIN parentMap'
                    /\ i <= Len(stack') =>
                          /\ \A m, n \in DOMAIN Left(i)' : m < n => Left(i)'[m] < Left(i)'[n]
                          /\ \A j \in i + 1 .. Depth' :
                                /\ Above(Dir(i)', Dir(j)')
                                /\ \A m \in DOMAIN Left(i)' : Dir(j)'[i] < Left(i)'[m]
  BY DEF StackInv, Above
<1>1. i \in 1 .. Depth /\ Dir(i)' = Dir(i)
  BY <1>0
<1>2. Len(Dir(i)) = i - 1 /\ Dir(i) \in DOMAIN parentMap
  BY <1>1 DEF StackInv
<1>3. ASSUME i <= Len(stack')
      PROVE  /\ \A m, n \in DOMAIN Left(i)' : m < n => Left(i)'[m] < Left(i)'[n]
             /\ \A j \in i + 1 .. Depth' :
                   /\ Above(Dir(i)', Dir(j)')
                   /\ \A m \in DOMAIN Left(i)' : Dir(j)'[i] < Left(i)'[m]
  <2>1. i \in 1 .. Len(stack') /\ i <= Len(stack) /\ i \in 1 .. Len(stack)
    BY <1>0, <1>3
  <2>2. Left(i) \in Seq(Names) /\ Fewer(Left(i)', Left(i))
    BY <2>1, StackIs
  <2>3. \A m, n \in DOMAIN Left(i) : m < n => Left(i)[m] < Left(i)[n]
    BY <1>1, <2>1 DEF StackInv
  <2>4. \A j \in i + 1 .. Depth :
           Above(Dir(i), Dir(j)) /\ \A m \in DOMAIN Left(i) : Dir(j)[i] < Left(i)[m]
    BY <1>1, <2>1 DEF StackInv
  <2> DEFINE t == Left(i)'
             s == Left(i)
  <2>5. /\ \A m \in DOMAIN t : \E k \in DOMAIN s : t[m] = s[k]
        /\ \A m, n \in DOMAIN t : m < n => t[m] < t[n]
    <3>1. s \in Seq(Names) /\ Fewer(t, s)
      BY <2>2
    <3>2. \A m, n \in DOMAIN s : m < n => s[m] < s[n]
      BY <2>3
    <3> HIDE DEF s, t
    <3> QED
      BY <3>1, <3>2, FewerIs
  <2>6. ASSUME NEW j \in i + 1 .. Depth'
        PROVE  Above(Dir(i)', Dir(j)') /\ \A m \in DOMAIN t : Dir(j)'[i] < t[m]
    <3>1. j \in i + 1 .. Depth /\ j \in 1 .. Depth' /\ Dir(j)' = Dir(j)
      BY <1>0, <1>1
    <3>2. Above(Dir(i), Dir(j)) /\ \A m \in DOMAIN s : Dir(j)[i] < s[m]
      BY <2>4, <3>1
    <3> HIDE DEF s, t
    <3> QED
      BY <1>1, <2>5, <3>1, <3>2
  <2> QED
    BY <2>5, <2>6
<1> QED
  BY <1>1, <1>2, <1>3

\* Nothing is visited.
Early == {"stat", "nameRoot", "lstatRoot"}
Stays == /\ UNCHANGED walking
         /\ pc' = "failed" \/ (pc' = "read" <=> pc = "read")
         /\ pc \in Early => pc' \in Early \cup {"failed"} \/ tree[Root] # "dir"

LEMMA StackStays ==
    ASSUME ScanTypes, StackInv, Stays
    PROVE  StackInv'
<1>1. stack' = stack /\ toRead' = toRead /\ parentMap' = parentMap /\ Len(stack) \in Nat
  BY StackIs DEF Stays, walking
<1>2. Depth' \in Nat /\ Depth' <= Depth
  BY <1>1 DEF Depth, Stays
<1>3. \A i \in 1 .. Depth' : Dir(i)' = Dir(i)
  BY <1>1 DEF Dir
<1>4. \A i \in 1 .. Len(stack') : Fewer(Left(i)', Left(i))
  BY <1>1 DEF Left, Fewer
<1> QED
  BY <1>1, <1>2, <1>3, <1>4, StackShrinks

\* An entry is taken from the directory visited.
LEMMA StackPops ==
    ASSUME ScanTypes, StackInv, pc = "visit", stack # <<>>, Frame.left # <<>>,
           stack' = FramePopped, pc' = pc, DOMAIN parentMap \subseteq DOMAIN parentMap'
    PROVE  StackInv'
<1>1. /\ Len(stack) \in Nat \ {0} /\ Frame.left = Left(Len(stack))
  BY TopIs
<1>2. /\ Len(stack') = Len(stack)
      /\ \A i \in 1 .. Len(stack) - 1 : stack'[i] = stack[i]
      /\ stack'[Len(stack)].dir = stack[Len(stack)].dir
      /\ stack'[Len(stack)].left = Tail(Left(Len(stack)))
  BY PoppedIs
<1>3. Depth' = Depth /\ Depth = Len(stack)
  BY <1>1, <1>2 DEF Depth
<1>4. ASSUME NEW i \in 1 .. Len(stack)
      PROVE  stack'[i].dir = stack[i].dir /\ Fewer(Left(i)', Left(i))
  <2>1. CASE i = Len(stack)
    BY <1>1, <1>2, <2>1 DEF Fewer, Left
  <2>2. CASE i # Len(stack)
    <3>1. i \in 1 .. Len(stack) - 1
      BY <1>1, <2>2
    <3> QED
      BY <1>2, <3>1 DEF Fewer, Left
  <2> QED
    BY <2>1, <2>2
<1>5. \A i \in 1 .. Depth' : Dir(i)' = Dir(i)
  BY <1>1, <1>2, <1>3, <1>4 DEF Dir
<1> QED
  BY <1>1, <1>2, <1>3, <1>4, <1>5, StackShrinks

LEMMA StackLeft ==
    ASSUME ScanTypes, StackInv, LeaveDir, stack # <<>>
    PROVE  /\ StackInv'
           /\ Len(stack') = Len(stack) - 1 /\ \A i \in 1 .. Len(stack) - 1 : stack'[i] = stack[i]
           /\ stack' \in Seq(Frames)
<1> DEFINE n == Len(stack)
           f == Front(stack)
           l == n - 1
<1>1. n \in Nat \ {0} /\ pc = "visit" /\ pc' # "read" /\ stack' = f /\ parentMap' = parentMap
  BY TopIs DEF LeaveDir
<1>2. l \in Nat /\ SubSeq(stack, 1, l) = f /\ \A m \in 1 .. l : stack[m] \in Frames
  <2>1. \A m \in 1 .. l : m \in 1 .. n
    BY <1>1
  <2> QED
    BY <1>1, <2>1, StackIs DEF Front
<1> HIDE DEF l, f
<1>3. /\ f \in Seq(Frames) /\ Len(f) = IF 1 <= l THEN l - 1 + 1 ELSE 0
      /\ \A i \in 1 .. l - 1 + 1 : f[i] = stack[1 + i - 1]
  BY <1>2, SubSeqProperties
<1>4. f \in Seq(Frames) /\ Len(f) = l /\ \A i \in 1 .. l : f[i] = stack[i]
  BY <1>2, <1>3
<1>5. Depth' = l /\ Depth = n
  BY <1>1, <1>2, <1>4 DEF Depth
<1>6. l <= n
  BY <1>1 DEF l
<1>7. \A i \in 1 .. l : Dir(i)' = Dir(i)
  BY <1>1, <1>2, <1>4, <1>6 DEF Dir
<1>8. \A i \in 1 .. l : Fewer(Left(i)', Left(i))
  BY <1>1, <1>4 DEF Left, Fewer
<1>9. StackInv'
  BY <1>1, <1>2, <1>4, <1>5, <1>6, <1>7, <1>8, StackShrinks
<1> QED
  BY <1>1, <1>4, <1>9 DEF l

\* A directory is read.
LEMMA StackGrows ==
    ASSUME ScanTypes, StackInv, FolderInv, pc = "read", pc' = "visit", parentMap' = parentMap,
           stack' = Append(stack, [dir |-> toRead, left |-> Listing(toRead)])
    PROVE  /\ StackInv' /\ stack' \in Seq(Frames)
           /\ Len(stack') = Len(stack) + 1 /\ \A i \in 1 .. Len(stack) : stack'[i] = stack[i]
           /\ stack'[Len(stack) + 1].dir = toRead
           /\ stack'[Len(stack) + 1].left = Listing(toRead)
<1> DEFINE n == Len(stack)
           f == [dir |-> toRead, left |-> Listing(toRead)]
<1>1. n \in Nat /\ Listing(toRead) \in Seq(Names)
  BY StackIs, ListingIs
<1>2. f \in Frames /\ f.dir = toRead /\ f.left = Listing(toRead)
  BY <1>1 DEF ScanTypes, Frames
<1> HIDE DEF f
<1>3. /\ stack' \in Seq(Frames) /\ Len(stack') = n + 1 /\ stack'[n + 1] = f
      /\ \A i \in 1 .. n : stack'[i] = stack[i]
  BY <1>2, AppendProperties DEF ScanTypes, f
<1>4. Depth = n + 1 /\ Depth' = n + 1
  BY <1>1, <1>3 DEF Depth
<1>5. ASSUME NEW i \in 1 .. n + 1 PROVE Dir(i)' = Dir(i)
  <2>1. i \in 1 .. n \/ i = n + 1
    BY <1>1
  <2> QED
    BY <1>1, <1>2, <1>3, <2>1 DEF Dir
<1>6. ASSUME NEW i \in 1 .. Depth'
      PROVE  /\ Len(Dir(i)') = i - 1 /\ Dir(i)' \in DOMAIN parentMap'
             /\ i <= Len(stack') =>
                   /\ \A m, k \in DOMAIN Left(i)' : m < k => Left(i)'[m] < Left(i)'[k]
                   /\ \A j \in i + 1 .. Depth' :
                         /\ Above(Dir(i)', Dir(j)')
                         /\ \A m \in DOMAIN Left(i)' : Dir(j)'[i] < Left(i)'[m]
  <2>1. i \in 1 .. Depth /\ Dir(i)' = Dir(i) /\ Len(Dir(i)) = i - 1 /\ Dir(i) \in DOMAIN parentMap
    BY <1>4, <1>5 DEF StackInv
  <2>2. CASE i \in 1 .. n
    <3>1. Left(i)' = Left(i)
      BY <1>3, <2>2 DEF Left
    <3>2. \A j \in i + 1 .. Depth' : Dir(j)' = Dir(j)
      BY <1>1, <1>4, <1>5, <2>2
    <3>3. /\ \A m, k \in DOMAIN Left(i) : m < k => Left(i)[m] < Left(i)[k]
          /\ \A j \in i + 1 .. Depth :
                /\ Above(Dir(i), Dir(j))
                /\ \A m \in DOMAIN Left(i) : Dir(j)[i] < Left(i)[m]
      BY <2>1, <2>2 DEF StackInv
    <3> QED
      BY <1>4, <2>1, <3>1, <3>2, <3>3
  <2>3. CASE i = n + 1
    <3>1. Left(i)' = Listing(toRead)
      BY <1>2, <1>3, <2>3 DEF Left
    <3>2. \A m, k \in DOMAIN Left(i)' : m < k => Left(i)'[m] < Left(i)'[k]
      BY <3>1, ListingIs
    <3>3. i + 1 .. Depth' = {}
      BY <1>1, <1>4, <2>3
    <3> QED
      BY <2>1, <3>2, <3>3
  <2> QED
    BY <1>1, <1>4, <2>2, <2>3
<1>7. StackInv'
  BY <1>6 DEF StackInv, Above
<1> QED
  BY <1>2, <1>3, <1>7

\* The entry taken is below each directory visited, before the names left in it.
LEMMA PathAhead ==
    ASSUME ScanTypes, StackInv, stack # <<>>, Frame.left # <<>>
    PROVE  \A i \in 1 .. Len(stack) :
              /\ Above(stack[i].dir, Path) /\ Len(stack[i].dir) = i - 1
              /\ \A m \in DOMAIN FramePopped[i].left : Path[i] < FramePopped[i].left[m]
<1> DEFINE n == Len(stack)
<1>1. n \in Nat \ {0} /\ Frame.left = Left(n) /\ n \in 1 .. n /\ Frame.dir = stack[n].dir
  BY TopIs
<1>2. /\ \A i \in 1 .. n - 1 : FramePopped[i] = stack[i]
      /\ FramePopped[n].left = Tail(Left(n))
  BY PoppedIs
<1>3. /\ Path \in Seq(Names) /\ Len(Path) = n /\ Path[n] = Left(n)[1] /\ Above(stack[n].dir, Path)
      /\ 1 \in DOMAIN Left(n) /\ Left(n) \in Seq(Names)
  BY <1>1, PathIs, StackIs
<1>4. \A i \in 1 .. n : i \in 1 .. Depth /\ Dir(i) = stack[i].dir
  BY <1>1 DEF Depth, Dir
<1> HIDE DEF n
<1> SUFFICES ASSUME NEW i \in 1 .. n
             PROVE  /\ Above(stack[i].dir, Path) /\ Len(stack[i].dir) = i - 1
                    /\ \A m \in DOMAIN FramePopped[i].left : Path[i] < FramePopped[i].left[m]
  BY DEF n
<1>5. /\ Len(stack[i].dir) = i - 1 /\ stack[i].dir \in Seq(Names)
      /\ \A m, k \in DOMAIN Left(i) : m < k => Left(i)[m] < Left(i)[k]
  <2>1. i <= Len(stack) /\ stack[i].dir \in Seq(Names)
    BY <1>1, StackIs DEF n
  <2> QED
    BY <1>4, <2>1 DEF StackInv
<1>6. CASE i = n
  <2> DEFINE s == Left(n)
             t == Tail(Left(n))
  <2>1. Path[i] = s[1] /\ \A k \in DOMAIN s : 1 < k => s[1] < s[k]
    BY <1>3, <1>5, <1>6
  <2>2. /\ Len(s) \in Nat \ {0} /\ DOMAIN t = 1 .. Len(s) - 1
        /\ \A m \in 1 .. Len(s) - 1 : t[m] = s[m + 1]
    BY <1>1, <1>3, TailIs
  <2>3. DOMAIN s = 1 .. Len(s)
    BY <1>3, LenProperties
  <2> HIDE DEF s, t
  <2>4. ASSUME NEW m \in DOMAIN t PROVE Path[i] < t[m]
    <3>1. m + 1 \in DOMAIN s /\ 1 < m + 1 /\ t[m] = s[m + 1]
      BY <2>2, <2>3
    <3> QED
      BY <2>1, <3>1
  <2> QED
    BY <1>2, <1>3, <1>5, <1>6, <2>4 DEF t
<1>7. CASE i # n
  <2>1. i \in 1 .. n - 1 /\ n \in i + 1 .. n /\ n \in 1 .. n /\ Len(stack[n].dir) = n - 1
    <3>1. i \in 1 .. n - 1 /\ n \in i + 1 .. n /\ n \in 1 .. n
      BY <1>1, <1>7
    <3> QED
      BY <1>4, <3>1 DEF StackInv
  <2>2. Above(stack[i].dir, stack[n].dir) /\ \A m \in DOMAIN Left(i) : stack[n].dir[i] < Left(i)[m]
    <3>1. i \in 1 .. Depth /\ i <= Len(stack) /\ n \in i + 1 .. Depth
      BY <1>4, <2>1 DEF n
    <3>2. Above(Dir(i), Dir(n)) /\ \A m \in DOMAIN Left(i) : Dir(n)[i] < Left(i)[m]
      BY <3>1 DEF StackInv
    <3> QED
      BY <1>4, <2>1, <3>2
  <2>3. stack[n].dir \in Seq(Names)
    BY <2>1, StackIs DEF n
  <2>4. Above(stack[i].dir, Path)
    BY <1>3, <1>5, <2>2, <2>3, AboveTransitive
  <2>5. Path[i] = stack[n].dir[i]
    BY <1>3, <2>1 DEF Above
  <2> QED
    BY <1>2, <1>5, <2>1, <2>2, <2>4, <2>5 DEF Left
<1> QED
  BY <1>6, <1>7

\* The entry taken is a directory, the next to read.
LEMMA StackDescends ==
    ASSUME ScanTypes, StackInv, pc = "visit", stack # <<>>, Frame.left # <<>>,
           stack' = FramePopped, pc' = "read", toRead' = Path,
           DOMAIN parentMap' = DOMAIN parentMap \cup {Path}
    PROVE  StackInv'
<1> DEFINE n == Len(stack)
<1>1. n \in Nat \ {0} /\ Frame.left = Left(n) /\ n \in 1 .. n /\ Frame.dir = stack[n].dir
  BY TopIs
<1>2. /\ Len(stack') = n
      /\ \A i \in 1 .. n - 1 : stack'[i] = stack[i]
      /\ stack'[n].dir = stack[n].dir
      /\ stack'[n].left = Tail(Left(n))
  BY PoppedIs
<1>3. /\ Path \in Seq(Names) /\ Len(Path) = n /\ Path[n] = Left(n)[1] /\ Above(stack[n].dir, Path)
      /\ 1 \in DOMAIN Left(n)
  BY <1>1, PathIs
<1>4. Depth = n /\ Depth' = n + 1
  BY <1>1, <1>2 DEF Depth
<1>5. ASSUME NEW i \in 1 .. n
      PROVE  /\ stack'[i].dir = stack[i].dir /\ Fewer(Left(i)', Left(i))
             /\ i # n => Left(i)' = Left(i)
             /\ Dir(i)' = stack[i].dir /\ Dir(i) = stack[i].dir
  <2>1. CASE i = n
    BY <1>1, <1>2, <2>1 DEF Fewer, Left, Dir
  <2>2. CASE i # n
    <3>1. i \in 1 .. n - 1
      BY <1>1, <2>2
    <3> QED
      BY <1>1, <1>2, <3>1 DEF Fewer, Left, Dir
  <2> QED
    BY <2>1, <2>2
<1>6. \A i : i = n + 1 => Dir(i)' = Path
  BY <1>1, <1>2 DEF Dir
<1> HIDE DEF n
<1>7. ASSUME NEW i \in 1 .. n
      PROVE  /\ Len(Dir(i)') = i - 1 /\ Dir(i)' \in DOMAIN parentMap'
             /\ \A m, k \in DOMAIN Left(i)' : m < k => Left(i)'[m] < Left(i)'[k]
             /\ \A j \in i + 1 .. n + 1 :
                   /\ Above(Dir(i)', Dir(j)')
                   /\ \A m \in DOMAIN Left(i)' : Dir(j)'[i] < Left(i)'[m]
  <2>1. Len(Dir(i)) = i - 1 /\ Dir(i) \in DOMAIN parentMap
    BY <1>4 DEF StackInv
  <2>2. /\ \A m, k \in DOMAIN Left(i) : m < k => Left(i)[m] < Left(i)[k]
        /\ \A j \in i + 1 .. n :
              /\ Above(Dir(i), Dir(j))
              /\ \A m \in DOMAIN Left(i) : Dir(j)[i] < Left(i)[m]
    BY <1>4 DEF StackInv, n
  <2> DEFINE s == Left(i)
             t == Left(i)'
  <2>3. s \in Seq(Names) /\ Fewer(t, s) /\ stack[i].dir \in Seq(Names)
    BY <1>5, StackIs DEF n
  <2>4. /\ \A m \in DOMAIN t : \E k \in DOMAIN s : t[m] = s[k]
        /\ \A m, k \in DOMAIN t : m < k => t[m] < t[k]
    <3> HIDE DEF s, t
    <3>1. \A m, k \in DOMAIN s : m < k => s[m] < s[k]
      BY <2>2 DEF s
    <3> QED
      BY <2>3, <3>1, FewerIs
  <2>5. ASSUME NEW j \in i + 1 .. n
        PROVE  Above(Dir(i)', Dir(j)') /\ \A m \in DOMAIN t : Dir(j)'[i] < t[m]
    <3>1. j \in 1 .. n
      BY <1>1 DEF n
    <3>2. Dir(j)' = Dir(j) /\ Dir(i)' = Dir(i)
      BY <1>5, <3>1
    <3>3. Above(Dir(i), Dir(j)) /\ \A m \in DOMAIN s : Dir(j)[i] < s[m]
      BY <2>2
    <3> HIDE DEF s, t
    <3> QED
      BY <2>4, <3>2, <3>3
  <2>6. Above(Dir(i), Path) /\ \A m \in DOMAIN t : Path[i] < t[m]
    BY <1>5, PathAhead DEF Left, n
  <2>8. ASSUME NEW j \in i + 1 .. n + 1
        PROVE  Above(Dir(i)', Dir(j)') /\ \A m \in DOMAIN t : Dir(j)'[i] < t[m]
    <3>1. j \in i + 1 .. n \/ j = n + 1
      BY <1>1 DEF n
    <3>2. CASE j \in i + 1 .. n
      BY <2>5, <3>2
    <3>3. CASE j = n + 1
      <4>1. Dir(i)' = Dir(i) /\ Dir(j)' = Path
        BY <1>5, <1>6, <3>3
      <4> HIDE DEF s, t
      <4> QED
        BY <2>6, <4>1
    <3> QED
      BY <3>1, <3>2, <3>3
  <2> QED
    BY <1>5, <2>1, <2>4, <2>8
<1>8. Len(Path) = (n + 1) - 1 /\ Path \in DOMAIN parentMap'
  BY <1>1, <1>3 DEF n
<1>9. ASSUME NEW i \in 1 .. n + 1
      PROVE  /\ Len(Dir(i)') = i - 1 /\ Dir(i)' \in DOMAIN parentMap'
             /\ i <= Len(stack') =>
                   /\ \A m, k \in DOMAIN Left(i)' : m < k => Left(i)'[m] < Left(i)'[k]
                   /\ \A j \in i + 1 .. n + 1 :
                         /\ Above(Dir(i)', Dir(j)')
                         /\ \A m \in DOMAIN Left(i)' : Dir(j)'[i] < Left(i)'[m]
  <2>1. i \in 1 .. n \/ (i = n + 1 /\ ~(i <= Len(stack')))
    BY <1>1, <1>2 DEF n
  <2>2. CASE i \in 1 .. n
    BY <1>7, <2>2
  <2>3. CASE i = n + 1 /\ ~(i <= Len(stack'))
    <3>1. Dir(i)' = Path
      BY <1>6, <2>3
    <3>2. Len(Path) = i - 1
      BY <1>8, <2>3
    <3> QED
      BY <1>8, <2>3, <3>1, <3>2
  <2> QED
    BY <2>1, <2>2, <2>3
<1> QED
  BY <1>4, <1>9 DEF StackInv, Above, n

\* The steps, as the first pass sees them.
EntersRoot == /\ pc = "lstatRoot" /\ pc' = "read" /\ tree[Root] = "dir"
              /\ UNCHANGED <<source, walking, result>>
Next == ScanStep \/ SourceChanges \/ ScanOver

LEMMA StepsAre ==
    ASSUME [Next]_vars
    PROVE  \/ Stays \/ EntersRoot \/ VisitOther \/ LeaveDir
           \/ ReadDir /\ pc' # "failed"
           \/ Visit /\ pc' # "failed"
<1>1. CASE ScanStep
  <2>1. CASE Stat \/ NameRoot \/ Collect \/ Backfill \/ RootInfo \/ BuildCatalog
    BY <2>1 DEF Stat, NameRoot, Collect, Backfill, RootInfo, BuildCatalog, Fails, Stays, Early, walking
  <2>2. CASE LstatRoot
    BY <2>2 DEF LstatRoot, Fails, Stays, Early, EntersRoot, walking
  <2>3. CASE ReadDir
    BY <2>3 DEF ReadDir, Fails, Stays, Early, walking
  <2>4. CASE Visit
    BY <2>4 DEF Visit, Fails, Stays, Early, walking
  <2> QED
    BY <1>1, <2>1, <2>2, <2>3, <2>4 DEF ScanStep
<1>2. CASE SourceChanges
  BY <1>2 DEF SourceChanges, Stays, Early, walking
<1>3. CASE ScanOver \/ UNCHANGED vars
  BY <1>3 DEF ScanOver, Stays, Early, vars, walking
<1> QED
  BY <1>1, <1>2, <1>3 DEF Next

LEMMA StackKept ==
    ASSUME ScanTypes, FolderInv, StageInv, NumberInv, StackInv, [Next]_vars
    PROVE  StackInv'
<1>1. CASE Stays
  BY <1>1, StackStays
<1>2. CASE EntersRoot
  <2>1. stack' = <<>> /\ toRead' = Root /\ Root \in DOMAIN parentMap'
    BY <1>2 DEF EntersRoot, walking, StageInv, NumberInv
  <2>2. Len(stack') = 0 /\ Depth' = 1 /\ Len(Root) = 0
    BY <1>2, <2>1 DEF EntersRoot, Depth, Root
  <2>3. ASSUME NEW i \in 1 .. Depth'
        PROVE  i = 1 /\ ~(i <= Len(stack')) /\ Dir(i)' = Root
    <3>1. i = 1 /\ ~(i <= Len(stack'))
      BY <2>2
    <3> QED
      BY <2>1, <3>1 DEF Dir
  <2> QED
    BY <2>1, <2>2, <2>3 DEF StackInv, Above
<1>3. CASE ReadDir /\ pc' # "failed"
  BY <1>3, StackGrows DEF ReadDir, Fails
<1>4. CASE Visit /\ pc' # "failed"
  <2>1. /\ pc = "visit" /\ stack # <<>> /\ Frame.left # <<>> /\ stack' = FramePopped
    BY <1>4 DEF Visit, Fails, StageInv
  <2>2. CASE tree[Path] = "dir"
    <3>1. parentMap' = WithParent(Path) /\ toRead' = Path /\ pc' = "read"
      BY <1>4, <2>2 DEF Visit, Fails
    <3>2. DOMAIN parentMap' = DOMAIN parentMap \cup {Path}
      BY <3>1 DEF WithParent
    <3> QED
      BY <2>1, <3>1, <3>2, StackDescends
  <2>3. CASE tree[Path] # "dir"
    <3>1. parentMap' = parentMap /\ pc' = pc
      BY <1>4, <2>3 DEF Visit, Fails
    <3> QED
      BY <2>1, <3>1, StackPops
  <2> QED
    BY <2>2, <2>3
<1>5. CASE VisitOther
  BY <1>5, StackPops DEF VisitOther, StageInv
<1>6. CASE LeaveDir
  BY <1>6, StackLeft DEF LeaveDir, StageInv
<1> QED
  BY <1>1, <1>2, <1>3, <1>4, <1>5, <1>6, StepsAre

----------------------------------------------------------------------------
(* What is found, and the entries made of it.                              *)

LEMMA PendingIs ==
    ASSUME ScanTypes
    PROVE  /\ Len(pending) \in Nat /\ DOMAIN pending = 1 .. Len(pending)
           /\ nextCNID = 16 + Len(pending)
           /\ \A k \in 1 .. Len(pending) :
                 /\ pending[k].path \in Seq(Names) \ {Root} /\ Len(pending[k].path) \in Nat \ {0}
                 /\ pending[k].cnid \in Nat /\ pending[k].parent \in Nat
                 /\ pending[k].kind \in Archivable
                 /\ Front(pending[k].path) \in Seq(Names) /\ Last(pending[k].path) \in Names
                 /\ Len(Front(pending[k].path)) = Len(pending[k].path) - 1
                 /\ pending[k].path = Append(Front(pending[k].path), Last(pending[k].path))
<1>1. pending \in Seq(Finds) /\ nextCNID = 16 + Len(pending)
  BY DEF ScanTypes, CNIDFirstUser
<1>2. Len(pending) \in Nat /\ DOMAIN pending = 1 .. Len(pending)
  BY <1>1, LenProperties
<1>3. ASSUME NEW k \in 1 .. Len(pending)
      PROVE  /\ pending[k].path \in Seq(Names) \ {Root} /\ pending[k].cnid \in Nat
             /\ pending[k].parent \in Nat /\ pending[k].kind \in Archivable
  <2>1. pending[k] \in Finds
    BY <1>1, ElementOfSeq
  <2> QED
    BY <2>1 DEF Finds
<1> QED
  BY <1>1, <1>2, <1>3, FrontIs

LEMMA EntriesAre ==
    ASSUME ScanTypes
    PROVE  /\ Len(entries) \in Nat /\ DOMAIN entries = 1 .. Len(entries)
           /\ \A i \in 1 .. Len(entries) :
                 /\ entries[i] \in Entries /\ entries[i].cnid \in Nat /\ entries[i].parent \in Nat
                 /\ entries[i].name \in Nat /\ entries[i].kind \in Archivable
<1>1. entries \in Seq(Entries)
  BY DEF ScanTypes
<1>2. Len(entries) \in Nat /\ DOMAIN entries = 1 .. Len(entries)
  BY <1>1, LenProperties
<1>3. ASSUME NEW i \in 1 .. Len(entries)
      PROVE  /\ entries[i] \in Entries /\ entries[i].cnid \in Nat /\ entries[i].parent \in Nat
             /\ entries[i].name \in Nat /\ entries[i].kind \in Archivable
  <2>1. entries[i] \in Entries
    BY <1>1, ElementOfSeq
  <2> QED
    BY <2>1 DEF Entries
<1> QED
  BY <1>2, <1>3

\* The number of a directory being visited.
LEMMA ParentIs ==
    ASSUME ScanTypes, NumberInv, NEW p \in DOMAIN parentMap
    PROVE  /\ parentMap[p] \in Nat /\ parentMap[p] < nextCNID
           /\ IF p = Root THEN parentMap[p] = CNIDRootFolder
              ELSE \E k \in 1 .. Len(pending) : IsDir(k, p, parentMap[p])
<1>1. CASE p = Root
  BY <1>1, PendingIs DEF NumberInv, CNIDRootFolder
<1>2. CASE p # Root
  <2>1. PICK k \in DOMAIN pending : IsDir(k, p, parentMap[p])
    BY <1>2 DEF NumberInv
  <2>2. k \in 1 .. Len(pending) /\ parentMap[p] = pending[k].cnid /\ pending[k].cnid = 15 + k
    BY <2>1, PendingIs DEF IsDir, NumberInv, CNIDFirstUser
  <2> QED
    BY <1>2, <2>1, <2>2, PendingIs
<1> QED
  BY <1>1, <1>2

\* The object that Visit finds.
NewFind == [path |-> Path, cnid |-> nextCNID, parent |-> parentMap[Frame.dir], kind |-> tree[Path]]

LEMMA VisitIs ==
    ASSUME ScanTypes, FolderInv, StageInv, StackInv, NumberInv, Visit, pc' # "failed"
    PROVE  /\ pc = "visit" /\ stack # <<>> /\ Frame.left # <<>> /\ stack' = FramePopped
           /\ NewFind \in Finds /\ pending' = Append(pending, NewFind) /\ pending' \in Seq(Finds)
           /\ Len(pending') = Len(pending) + 1 /\ pending'[Len(pending) + 1] = NewFind
           /\ \A k \in 1 .. Len(pending) : pending'[k] = pending[k]
           /\ NewFind.path = Path /\ NewFind.cnid = nextCNID
           /\ NewFind.parent = parentMap[Frame.dir] /\ NewFind.kind = tree[Path]
           /\ nextCNID' = nextCNID + 1 /\ UNCHANGED source /\ UNCHANGED result
           /\ Path \in DOMAIN tree
           /\ IF tree[Path] = "dir"
              THEN parentMap' = WithParent(Path) /\ toRead' = Path /\ pc' = "read"
              ELSE parentMap' = parentMap /\ toRead' = toRead /\ pc' = pc
<1>1. /\ pc = "visit" /\ stack # <<>> /\ Frame.left # <<>> /\ stack' = FramePopped
      /\ pending' = Append(pending, NewFind) /\ nextCNID' = nextCNID + 1
      /\ UNCHANGED source /\ UNCHANGED result
      /\ Path \in DOMAIN tree /\ tree[Path] # "other" /\ Frame.dir \in DOMAIN parentMap
      /\ IF tree[Path] = "dir"
         THEN parentMap' = WithParent(Path) /\ toRead' = Path /\ pc' = "read"
         ELSE parentMap' = parentMap /\ toRead' = toRead /\ pc' = pc
  BY DEF Visit, Fails, NewFind, Exists, StageInv
<1>2. Path \in Seq(Names) \ {Root}
  BY <1>1, PathIs
<1>3. tree[Path] \in Archivable
  BY <1>1 DEF FolderInv, Kinds, Archivable
<1>4. parentMap[Frame.dir] \in Nat /\ nextCNID \in Nat
  BY <1>1, ParentIs, PendingIs
<1>5. /\ NewFind \in Finds /\ NewFind.path = Path /\ NewFind.cnid = nextCNID
      /\ NewFind.parent = parentMap[Frame.dir] /\ NewFind.kind = tree[Path]
  BY <1>2, <1>3, <1>4 DEF NewFind, Finds
<1>6. pending \in Seq(Finds)
  BY DEF ScanTypes
<1>7. /\ pending' \in Seq(Finds)
      /\ Len(pending') = Len(pending) + 1 /\ pending'[Len(pending) + 1] = NewFind
      /\ \A k \in 1 .. Len(pending) : pending'[k] = pending[k]
  BY <1>1, <1>5, <1>6, AppendProperties
<1> QED
  BY <1>1, <1>5, <1>7

\* The entry that Collect makes.
NewEntry == Entry(This.cnid, This.parent, Nfd[Last(This.path)], This.kind)

LEMMA CollectIs ==
    ASSUME ScanTypes, StageInv, Collect, pc' # "failed"
    PROVE  /\ pc = "collect" /\ pc' = pc /\ Len(entries) \in 1 .. Len(pending)
           /\ This = pending[Len(entries)] /\ This \in Finds
           /\ NewEntry \in Entries /\ entries' = Append(entries, NewEntry) /\ entries' \in Seq(Entries)
           /\ Len(entries') = Len(entries) + 1 /\ entries'[Len(entries) + 1] = NewEntry
           /\ \A i \in 1 .. Len(entries) : entries'[i] = entries[i]
           /\ NewEntry.cnid = This.cnid /\ NewEntry.parent = This.parent /\ NewEntry.kind = This.kind
           /\ NewEntry.name = Nfd[Last(This.path)] /\ NewEntry.name \in Nat \ {NoName}
           /\ Claim(This) \notin claimed /\ claimed' = claimed \cup {Claim(This)}
           /\ valence' = valence (+) SetToBag({This.parent})
           /\ subFolderCount' = IF CountsAsFolder(This.kind)
                                THEN subFolderCount (+) SetToBag({This.parent}) ELSE subFolderCount
           /\ files' = IF HasData(This.kind) THEN Append(files, This.cnid) ELSE files
           /\ UNCHANGED <<source, walking, records>>
<1>1. /\ pc = "collect" /\ pc' = pc /\ Len(entries) <= Len(pending)
      /\ Nfd[Last(This.path)] # TooLong
      /\ entries' = Append(entries, NewEntry)
      /\ Claim(This) \notin claimed /\ claimed' = claimed \cup {Claim(This)}
      /\ valence' = valence (+) SetToBag({This.parent})
      /\ subFolderCount' = IF CountsAsFolder(This.kind)
                           THEN subFolderCount (+) SetToBag({This.parent}) ELSE subFolderCount
      /\ files' = IF HasData(This.kind) THEN Append(files, This.cnid) ELSE files
      /\ UNCHANGED <<source, walking, records>>
  BY DEF Collect, Fails, NewEntry
<1>2. Len(entries) \in 1 .. Len(pending)
  <2>1. entries \in Seq(Entries) /\ entries # <<>>
    BY <1>1 DEF StageInv, ScanTypes
  <2>2. Len(entries) \in Nat \ {0}
    BY <2>1, EmptySeq
  <2> QED
    BY <1>1, <2>2, PendingIs
<1>3. /\ This = pending[Len(entries)] /\ This \in Finds /\ Last(This.path) \in Names
      /\ This.cnid \in Nat /\ This.parent \in Nat /\ This.kind \in Archivable
  <2>1. This = pending[Len(entries)] /\ pending \in Seq(Finds)
    BY DEF This, ScanTypes
  <2> QED
    BY <1>2, <2>1, PendingIs, ElementOfSeq
<1>4. Nfd[Last(This.path)] \in Nat \ {NoName}
  BY <1>1, <1>3, ScanAssumption
<1>5. /\ NewEntry \in Entries
      /\ NewEntry.cnid = This.cnid /\ NewEntry.parent = This.parent /\ NewEntry.kind = This.kind
      /\ NewEntry.name = Nfd[Last(This.path)] /\ NewEntry.name \in Nat \ {NoName}
  BY <1>3, <1>4 DEF NewEntry, Entry, Entries
<1>6. entries \in Seq(Entries)
  BY DEF ScanTypes
<1>7. /\ entries' \in Seq(Entries)
      /\ Len(entries') = Len(entries) + 1 /\ entries'[Len(entries) + 1] = NewEntry
      /\ \A i \in 1 .. Len(entries) : entries'[i] = entries[i]
  BY <1>1, <1>5, <1>6, AppendProperties
<1> QED
  BY <1>1, <1>2, <1>3, <1>5, <1>7

\* Only the counters of an entry change.
SameEntry(e, f) == e.cnid = f.cnid /\ e.parent = f.parent /\ e.name = f.name /\ e.kind = f.kind

LEMMA ChildrenFinite ==
    ASSUME ScanTypes, NEW cnid
    PROVE  /\ IsFiniteSet(ChildrenOf(cnid)) /\ Cardinality(ChildrenOf(cnid)) \in Nat
           /\ IsFiniteSet(FoldersOf(cnid)) /\ Cardinality(FoldersOf(cnid)) \in Nat
<1>1. IsFiniteSet(2 .. Len(entries))
  BY EntriesAre, FS_Interval
<1>2. ChildrenOf(cnid) \subseteq 2 .. Len(entries) /\ FoldersOf(cnid) \subseteq ChildrenOf(cnid)
  BY DEF ChildrenOf, FoldersOf
<1>3. IsFiniteSet(ChildrenOf(cnid)) /\ IsFiniteSet(FoldersOf(cnid))
  BY <1>1, <1>2, FS_Subset
<1> QED
  BY <1>3, FS_CardinalityType

\* The counters are right for every number.
LEMMA CountsAre ==
    ASSUME ScanTypes, CountInv, NEW cnid
    PROVE  /\ Count(cnid, valence) = Cardinality(ChildrenOf(cnid)) /\ Count(cnid, valence) \in Nat
           /\ Count(cnid, subFolderCount) = Cardinality(FoldersOf(cnid))
           /\ Count(cnid, subFolderCount) \in Nat
<1> DEFINE Parents == {entries[i].parent : i \in 2 .. Len(entries)}
<1>1. CASE cnid \in Parents \cup DOMAIN valence \cup DOMAIN subFolderCount
  BY <1>1, ChildrenFinite DEF CountInv
<1>2. CASE cnid \notin Parents \cup DOMAIN valence \cup DOMAIN subFolderCount
  <2>1. Count(cnid, valence) = 0 /\ Count(cnid, subFolderCount) = 0
    BY <1>2 DEF Count, BagIn, BagToSet
  <2>2. ChildrenOf(cnid) = {} /\ FoldersOf(cnid) = {}
    BY <1>2 DEF ChildrenOf, FoldersOf
  <2> QED
    BY <2>1, <2>2, FS_EmptySet
<1> QED
  BY <1>1, <1>2

LEMMA NumbersIn ==
    ASSUME ScanTypes, NumberInv, EntriesInv
    PROVE  /\ \A i \in 1 .. Len(entries) :
                 /\ entries[i].cnid \in 0 .. nextCNID - 1
                 /\ entries[i].cnid = IF i = 1 THEN CNIDRootFolder ELSE CNIDFirstUser - 2 + i
           /\ \A k \in 1 .. Len(pending) : pending[k].parent \in 0 .. nextCNID - 1
<1>1. ASSUME NEW i \in 1 .. Len(entries)
      PROVE  /\ entries[i].cnid \in 0 .. nextCNID - 1
             /\ entries[i].cnid = IF i = 1 THEN CNIDRootFolder ELSE CNIDFirstUser - 2 + i
  <2>1. CASE i = 1
    <3>1. entries # <<>>
      BY EmptySeq
    <3>2. entries[1].cnid = 2
      BY <3>1 DEF EntriesInv, CNIDRootFolder
    <3> QED
      BY <2>1, <3>2, PendingIs DEF CNIDRootFolder
  <2>2. CASE i # 1
    <3>1. i \in 2 .. Len(entries) /\ i - 1 \in 1 .. Len(pending)
      BY <2>2, EntriesAre, PendingIs DEF EntriesInv
    <3>2. entries[i].cnid = pending[i - 1].cnid
      BY <3>1 DEF EntriesInv, Describes
    <3>3. pending[i - 1].cnid = 15 + (i - 1)
      BY <3>1, PendingIs DEF NumberInv, CNIDFirstUser
    <3> QED
      BY <2>2, <3>1, <3>2, <3>3, PendingIs DEF CNIDFirstUser
  <2> QED
    BY <2>1, <2>2
<1>2. ASSUME NEW k \in 1 .. Len(pending) PROVE pending[k].parent \in 0 .. nextCNID - 1
  <2>1. CASE Len(pending[k].path) = 1
    <3>1. pending[k].parent = 2
      BY <2>1, PendingIs DEF NumberInv, CNIDRootFolder
    <3> QED
      BY <3>1, PendingIs
  <2>2. CASE Len(pending[k].path) # 1
    <3>1. PICK j \in 1 .. k - 1 : IsDir(j, Front(pending[k].path), pending[k].parent)
      BY <2>2, PendingIs DEF NumberInv
    <3>2. j \in 1 .. Len(pending) /\ DOMAIN pending = 1 .. Len(pending) /\ Len(pending) \in Nat
      BY <3>1, PendingIs
    <3>3. pending[k].parent = pending[j].cnid
      BY <3>1 DEF IsDir
    <3>4. pending[j].cnid = 15 + j
      BY <3>2 DEF NumberInv, CNIDFirstUser
    <3> QED
      BY <3>2, <3>3, <3>4, PendingIs
  <2> QED
    BY <2>1, <2>2
<1> QED
  BY <1>1, <1>2

LEMMA BackfillIs ==
    ASSUME ScanTypes, NumberInv, EntriesInv, CountInv, Backfill
    PROVE  /\ entries' \in Seq(Entries) /\ Len(entries') = Len(entries)
           /\ \A i \in 1 .. Len(entries) :
                 /\ SameEntry(entries'[i], entries[i])
                 /\ entries[i].kind = "dir" =>
                       /\ entries'[i].valence = Cardinality(ChildrenOf(entries[i].cnid))
                       /\ entries'[i].subFolders = Cardinality(FoldersOf(entries[i].cnid))
           /\ pc = "collect" /\ pc' = "rootInfo" /\ Len(entries) > Len(pending)
           /\ UNCHANGED <<source, walking, files, attrs, claimed, valence, subFolderCount, records>>
<1>1. /\ pc = "collect" /\ pc' = "rootInfo" /\ Len(entries) > Len(pending)
      /\ UNCHANGED <<source, walking, files, attrs, claimed, valence, subFolderCount, records>>
      /\ entries' = [i \in DOMAIN entries |->
            IF entries[i].kind # "dir" THEN entries[i]
            ELSE [entries[i] EXCEPT !.valence = Count(entries[i].cnid, valence),
                                    !.subFolders = Count(entries[i].cnid, subFolderCount)]]
  BY DEF Backfill
<1>2. Len(entries) \in Nat /\ DOMAIN entries = 1 .. Len(entries)
  BY EntriesAre
<1>3. ASSUME NEW i \in 1 .. Len(entries)
      PROVE  /\ entries'[i] \in Entries /\ SameEntry(entries'[i], entries[i])
             /\ entries[i].kind = "dir" =>
                   /\ entries'[i].valence = Cardinality(ChildrenOf(entries[i].cnid))
                   /\ entries'[i].subFolders = Cardinality(FoldersOf(entries[i].cnid))
  <2> DEFINE c == entries[i].cnid
             v == Count(c, valence)
             w == Count(c, subFolderCount)
             e == entries[i]
  <2>2. v = Cardinality(ChildrenOf(c)) /\ w = Cardinality(FoldersOf(c)) /\ v \in Nat /\ w \in Nat
    BY CountsAre
  <2>3. e \in Entries
    BY EntriesAre
  <2>4. entries'[i] = IF e.kind # "dir" THEN e ELSE [e EXCEPT !.valence = v, !.subFolders = w]
    BY <1>1, <1>2
  <2>5. CASE e.kind # "dir"
    BY <2>3, <2>4, <2>5 DEF SameEntry
  <2>6. CASE e.kind = "dir"
    <3> HIDE DEF e, v, w
    <3>1. entries'[i] = [e EXCEPT !.valence = v, !.subFolders = w]
      BY <2>4, <2>6
    <3>2. entries'[i] \in Entries /\ SameEntry(entries'[i], e)
          /\ entries'[i].valence = v /\ entries'[i].subFolders = w
      BY <2>2, <2>3, <3>1 DEF Entries, SameEntry
    <3> QED
      BY <2>2, <3>2 DEF e
  <2> QED
    BY <2>5, <2>6
<1>4. entries' \in Seq(Entries) /\ Len(entries') = Len(entries)
  <2>1. entries' = [i \in 1 .. Len(entries) |-> entries'[i]]
    BY <1>1, <1>2
  <2>2. entries' \in [1 .. Len(entries) -> Entries]
    BY <1>3, <2>1
  <2>3. entries' \in Seq(Entries)
    BY <1>2, <2>2, SeqDef
  <2>4. DOMAIN entries' = 1 .. Len(entries)
    BY <2>2
  <2> QED
    BY <1>2, <2>3, <2>4, LenProperties
<1> QED
  BY <1>1, <1>3, <1>4

LEMMA InitTypes ==
    ASSUME ScanInit
    PROVE  ScanTypes
<1>1. /\ <<>> \in Seq(Frames) /\ <<>> \in Seq(Names) /\ <<>> \in Seq(Finds) /\ <<>> \in Seq(Entries)
      /\ <<>> \in Seq(Nat) /\ Len(<<>>) = 0
  OBVIOUS
<1> QED
  BY <1>1 DEF ScanInit, ScanTypes, Root, CNIDFirstUser

LEMMA WalkTypesKept ==
    ASSUME ScanTypes, FolderInv, StageInv, StackInv, NumberInv, [Next]_vars
    PROVE  /\ stack' \in Seq(Frames) /\ toRead' \in Seq(Names) /\ pending' \in Seq(Finds)
           /\ nextCNID' = CNIDFirstUser + Len(pending')
<1>0. /\ stack \in Seq(Frames) /\ toRead \in Seq(Names) /\ pending \in Seq(Finds)
      /\ nextCNID = CNIDFirstUser + Len(pending)
  BY DEF ScanTypes
<1>1. CASE Stays
  BY <1>0, <1>1 DEF Stays, walking
<1>2. CASE EntersRoot
  BY <1>0, <1>2 DEF EntersRoot, walking
<1>3. CASE ReadDir /\ pc' # "failed"
  <2>1. /\ pc = "read" /\ pc' = "visit" /\ UNCHANGED <<toRead, parentMap, nextCNID, pending>>
        /\ stack' = Append(stack, [dir |-> toRead, left |-> Listing(toRead)])
    BY <1>3 DEF ReadDir, Fails
  <2> QED
    BY <1>0, <2>1, StackGrows
<1>4. CASE Visit /\ pc' # "failed"
  <2>1. stack' \in Seq(Frames)
    BY <1>4, VisitIs, PoppedIs
  <2>2. toRead' \in Seq(Names)
    BY <1>0, <1>4, VisitIs, PathIs
  <2>3. pending' \in Seq(Finds) /\ nextCNID' = nextCNID + 1 /\ Len(pending') = Len(pending) + 1
    BY <1>4, VisitIs
  <2> QED
    BY <1>0, <2>1, <2>2, <2>3, PendingIs DEF CNIDFirstUser
<1>5. CASE VisitOther
  BY <1>0, <1>5, PoppedIs DEF VisitOther, StageInv
<1>6. CASE LeaveDir
  BY <1>0, <1>6, StackLeft DEF LeaveDir, StageInv
<1> QED
  BY <1>1, <1>2, <1>3, <1>4, <1>5, <1>6, StepsAre

\* The steps, as the second pass sees them.
LEMMA EntrySteps ==
    ASSUME [Next]_vars
    PROVE  \/ UNCHANGED <<entries, files, claimed, valence, subFolderCount>>
           \/ NameRoot
           \/ Collect /\ pc' # "failed"
           \/ Backfill
<1>1. CASE ScanStep
  <2>1. CASE Stat \/ LstatRoot \/ ReadDir \/ Visit \/ VisitOther \/ LeaveDir \/ RootInfo \/ BuildCatalog
    BY <2>1 DEF Stat, LstatRoot, ReadDir, Visit, VisitOther, LeaveDir, RootInfo, BuildCatalog,
                Fails, result
  <2>2. CASE Collect
    BY <2>2 DEF Collect, Fails, result
  <2> QED
    BY <1>1, <2>1, <2>2 DEF ScanStep
<1>2. CASE SourceChanges
  BY <1>2 DEF SourceChanges, result
<1>3. CASE ScanOver \/ UNCHANGED vars
  BY <1>3 DEF ScanOver, vars
<1> QED
  BY <1>1, <1>2, <1>3 DEF Next

LEMMA PcKept ==
    ASSUME ScanTypes, [Next]_vars
    PROVE  pc' \in {"stat", "nameRoot", "lstatRoot", "read", "visit", "collect", "rootInfo",
                    "records", "done", "failed", "refused"}
<1>1. pc \in {"stat", "nameRoot", "lstatRoot", "read", "visit", "collect", "rootInfo",
              "records", "done", "failed", "refused"}
  BY DEF ScanTypes
<1>2. CASE ScanStep
  <2>1. CASE Stat \/ NameRoot \/ LstatRoot \/ ReadDir \/ Visit \/ VisitOther \/ LeaveDir
    BY <1>1, <2>1 DEF Stat, NameRoot, LstatRoot, ReadDir, Visit, VisitOther, LeaveDir, Fails
  <2>2. CASE Collect \/ Backfill \/ RootInfo \/ BuildCatalog
    BY <1>1, <2>2 DEF Collect, Backfill, RootInfo, BuildCatalog, Fails
  <2> QED
    BY <1>2, <2>1, <2>2 DEF ScanStep
<1>3. CASE SourceChanges \/ ScanOver \/ UNCHANGED vars
  BY <1>1, <1>3 DEF SourceChanges, ScanOver, vars
<1> QED
  BY <1>2, <1>3 DEF Next

LEMMA TypesKept ==
    ASSUME ScanTypes, FolderInv, StageInv, StackInv, NumberInv, EntriesInv, CountInv, [Next]_vars
    PROVE  ScanTypes'
<1>0. entries \in Seq(Entries) /\ files \in Seq(Nat)
  BY DEF ScanTypes
<1>1. entries' \in Seq(Entries) /\ files' \in Seq(Nat)
  <2>1. CASE UNCHANGED <<entries, files, claimed, valence, subFolderCount>>
    BY <1>0, <2>1
  <2>2. CASE NameRoot
    <3>1. files' = files
      BY <2>2 DEF NameRoot
    <3>2. PICK name \in VolumeNames :
             \/ name = TooLong /\ entries' = entries
             \/ /\ name # TooLong
                /\ entries' = <<Entry(CNIDRootFolder, CNIDRootParent, name, "dir")>>
      BY <2>2 DEF NameRoot
    <3>3. CASE name # TooLong /\ entries' = <<Entry(CNIDRootFolder, CNIDRootParent, name, "dir")>>
      <4>1. name \in Nat
        BY <3>3, ScanAssumption
      <4>2. Entry(CNIDRootFolder, CNIDRootParent, name, "dir") \in Entries
        BY <4>1 DEF Entry, Entries, Archivable, CNIDRootFolder, CNIDRootParent
      <4> QED
        BY <1>0, <3>1, <3>3, <4>2
    <3> QED
      BY <1>0, <3>1, <3>2, <3>3
  <2>3. CASE Collect /\ pc' # "failed"
    <3>1. This.cnid \in Nat
      <4>1. This \in Finds
        BY <2>3, CollectIs
      <4> QED
        BY <4>1 DEF Finds
    <3>2. files' \in Seq(Nat)
      <4>1. Append(files, This.cnid) \in Seq(Nat)
        BY <1>0, <3>1, AppendProperties
      <4> QED
        BY <1>0, <2>3, <4>1, CollectIs
    <3> QED
      BY <2>3, <3>2, CollectIs
  <2>4. CASE Backfill
    BY <1>0, <2>4, BackfillIs
  <2> QED
    BY <2>1, <2>2, <2>3, <2>4, EntrySteps
<1> QED
  BY <1>1, PcKept, WalkTypesKept DEF ScanTypes

----------------------------------------------------------------------------
(* The stages.                                                             *)

LEMMA InitStage ==
    ASSUME ScanInit
    PROVE  StageInv
BY DEF ScanInit, StageInv

LEMMA StageKept ==
    ASSUME ScanTypes, FolderInv, StageInv, StackInv, NumberInv, EntriesInv, CountInv, [Next]_vars
    PROVE  StageInv'
<1>0. /\ Len(entries) \in Nat /\ Len(pending) \in Nat
      /\ entries # <<>> <=> Len(entries) # 0
  BY EntriesAre, PendingIs, EmptySeq DEF ScanTypes
<1>1. CASE pc' = "failed" /\ UNCHANGED <<source, walking, result>>
  BY <1>1 DEF StageInv, source, walking, result
<1>2. CASE Stat \/ NameRoot \/ LstatRoot
  <2>1. CASE Stat
    BY <1>1, <2>1 DEF Stat, Fails, StageInv, source, walking, result
  <2>2. CASE NameRoot
    <3>1. /\ pc = "nameRoot" /\ UNCHANGED <<source, walking>>
          /\ \/ pc' = "failed"
             \/ /\ pc' = "lstatRoot"
                /\ \E name : entries' = <<Entry(CNIDRootFolder, CNIDRootParent, name, "dir")>>
      BY <2>2 DEF NameRoot
    <3>2. CASE pc' = "failed"
      BY <3>1, <3>2 DEF StageInv, source, walking
    <3>3. CASE pc' = "lstatRoot"
      <4>1. Len(entries') = 1
        BY <3>1, <3>3
      <4> QED
        BY <3>1, <3>3, <4>1 DEF StageInv, source, walking
    <3> QED
      BY <3>1, <3>2, <3>3
  <2>3. CASE LstatRoot
    <3>1. CASE pc' # "failed"
      <4>1. /\ pc = "lstatRoot" /\ pc' = IF tree[Root] = "dir" THEN "read" ELSE "collect"
            /\ UNCHANGED <<source, walking, result>>
        BY <2>3, <3>1 DEF LstatRoot, Fails
      <4>2. Len(entries) = 1 /\ pending = <<>> /\ Len(pending) = 0 /\ stack = <<>>
        BY <4>1 DEF StageInv
      <4>3. entries' = entries /\ pending' = pending /\ stack' = stack /\ tree' = tree
        BY <4>1 DEF source, walking, result
      <4>4. CASE tree[Root] = "dir"
        BY <4>1, <4>2, <4>3, <4>4 DEF StageInv
      <4>5. CASE tree[Root] # "dir"
        <5>1. pc' = "collect" /\ pending' = <<>> /\ stack' = <<>>
          BY <4>1, <4>2, <4>3, <4>5
        <5>2. entries' # <<>>
          BY <1>0, <4>2, <4>3
        <5>3. Len(entries') = 1 /\ Len(pending') = 0
          BY <4>2, <4>3
        <5>4. Len(entries') <= Len(pending') + 1
          BY <5>3
        <5> QED
          BY <5>1, <5>2, <5>4 DEF StageInv
      <4> QED
        BY <4>4, <4>5
    <3> QED
      BY <1>1, <2>3, <3>1 DEF LstatRoot, Fails
  <2> QED
    BY <1>2, <2>1, <2>2, <2>3
<1>3. CASE ReadDir
  <2>1. CASE pc' # "failed"
    <3>1. /\ pc = "read" /\ pc' = "visit" /\ UNCHANGED <<source, toRead, parentMap, nextCNID, pending, result>>
          /\ stack' = Append(stack, [dir |-> toRead, left |-> Listing(toRead)])
      BY <1>3, <2>1 DEF ReadDir, Fails
    <3>2. Len(stack') = Len(stack) + 1 /\ Len(stack) \in Nat
      BY <3>1, StackGrows, StackIs
    <3>3. stack' # <<>>
      BY <3>2
    <3> QED
      BY <3>1, <3>3 DEF StageInv, source, result
  <2> QED
    BY <1>1, <1>3, <2>1 DEF ReadDir, Fails
<1>4. CASE Visit
  <2>1. CASE pc' # "failed"
    <3>1. /\ pc = "visit" /\ pc' \in {"visit", "read"} /\ stack' = FramePopped /\ stack # <<>>
          /\ Frame.left # <<>> /\ UNCHANGED source /\ UNCHANGED result
      BY <1>4, <2>1, VisitIs
    <3>2. Len(stack') = Len(stack) /\ Len(stack) \in Nat \ {0}
      BY <3>1, PoppedIs, TopIs
    <3>3. stack' # <<>>
      BY <3>2
    <3> QED
      BY <3>1, <3>3 DEF StageInv, source, result
  <2> QED
    BY <1>1, <1>4, <2>1 DEF Visit, Fails
<1>5. CASE VisitOther
  <2>1. /\ pc = "visit" /\ pc' = pc /\ stack' = FramePopped /\ stack # <<>> /\ Frame.left # <<>>
        /\ UNCHANGED source /\ UNCHANGED result /\ UNCHANGED pending
    BY <1>5 DEF VisitOther, StageInv
  <2>2. Len(stack') = Len(stack) /\ Len(stack) \in Nat \ {0}
    BY <2>1, PoppedIs, TopIs
  <2>3. stack' # <<>>
    BY <2>2
  <2> QED
    BY <2>1, <2>3 DEF StageInv, source, result
<1>6. CASE LeaveDir
  <2>1. /\ pc = "visit" /\ pc' = IF stack' = <<>> THEN "collect" ELSE "visit"
        /\ UNCHANGED source /\ UNCHANGED result /\ UNCHANGED pending
    BY <1>6 DEF LeaveDir, Walked
  <2>2. Len(entries) = 1 /\ entries # <<>> /\ tree[Root] = "dir"
    <3>1. Len(entries) = 1 /\ tree[Root] = "dir"
      BY <2>1 DEF StageInv
    <3> QED
      BY <1>0, <3>1
  <2>3. entries' = entries /\ pending' = pending /\ tree' = tree
    BY <2>1 DEF source, result
  <2>4. CASE stack' = <<>>
    <3>1. pc' = "collect" /\ tree'[Root] = "dir"
      BY <2>1, <2>2, <2>3, <2>4
    <3>2. entries' # <<>>
      BY <2>2, <2>3
    <3>3. Len(entries') = 1 /\ Len(pending') \in Nat
      BY <1>0, <2>2, <2>3
    <3>4. Len(entries') <= Len(pending') + 1
      BY <3>3
    <3> QED
      BY <2>4, <3>1, <3>2, <3>4 DEF StageInv
  <2>5. CASE stack' # <<>>
    BY <2>1, <2>2, <2>3, <2>5 DEF StageInv
  <2> QED
    BY <2>4, <2>5
<1>7. CASE Collect
  <2>1. CASE pc' # "failed"
    <3>1. /\ pc = "collect" /\ pc' = pc /\ Len(entries) \in 1 .. Len(pending)
          /\ Len(entries') = Len(entries) + 1 /\ UNCHANGED <<source, walking>>
      BY <1>7, <2>1, CollectIs
    <3>2. Len(entries') <= Len(pending) + 1 /\ entries' # <<>>
      BY <1>0, <3>1
    <3> QED
      BY <3>1, <3>2 DEF StageInv, source, walking
  <2> QED
    BY <1>1, <1>7, <2>1 DEF Collect, Fails
<1>8. CASE Backfill
  <2>1. /\ pc = "collect" /\ pc' = "rootInfo" /\ Len(entries) > Len(pending)
        /\ Len(entries') = Len(entries) /\ UNCHANGED <<source, walking>>
    BY <1>8, BackfillIs
  <2>2. Len(entries') = Len(pending) + 1 /\ entries' # <<>>
    BY <1>0, <2>1 DEF StageInv
  <2> QED
    BY <2>1, <2>2 DEF StageInv, source, walking
<1>9. CASE RootInfo
  BY <1>9 DEF RootInfo, Fails, StageInv, source, walking, result
<1>10. CASE BuildCatalog
  BY <1>10 DEF BuildCatalog, StageInv, source, walking
<1>11. CASE SourceChanges
  <2>1. tree'[Root] = tree[Root]
    BY <1>11, RootStays
  <2> QED
    BY <1>11, <2>1 DEF SourceChanges, StageInv, walking, result
<1>12. CASE ScanOver \/ UNCHANGED vars
  BY <1>12 DEF ScanOver, vars, StageInv
<1> QED
  BY <1>2, <1>3, <1>4, <1>5, <1>6, <1>7, <1>8, <1>9, <1>10, <1>11, <1>12 DEF Next, ScanStep

----------------------------------------------------------------------------
(* The order.                                                              *)

LEMMA InitOrder ==
    ASSUME ScanInit
    PROVE  StackInv /\ OrderInv
<1>1. Depth = 0
  BY DEF ScanInit, Depth
<1> QED
  BY <1>1 DEF ScanInit, StackInv, OrderInv

LEMMA EarlierThanNext ==
    ASSUME NEW p \in Seq(Names), NEW d \in Seq(Names), NEW x \in Names,
           Above(d, p), Len(d) < Len(p), p[Len(d) + 1] < x
    PROVE  Earlier(p, Append(d, x))
<1> DEFINE n == Len(d) + 1
           q == Append(d, x)
<1>1. /\ Len(d) \in Nat /\ Len(p) \in Nat /\ q \in Seq(Names)
      /\ Len(q) = n /\ q[n] = x /\ \A m \in 1 .. Len(d) : q[m] = d[m]
  BY AppendIs, LenProperties
<1> HIDE DEF q
<1>2. n \in 1 .. Len(p) /\ n <= Len(q) /\ p[n] < q[n]
  BY <1>1
<1>3. \A m \in 1 .. n - 1 : p[m] = q[m]
  BY <1>1 DEF Above
<1> QED
  BY <1>2, <1>3 DEF Earlier, q

\* An entry taken from the directory visited: the names left are later.
LEMMA PoppedLeft ==
    ASSUME ScanTypes, StackInv, stack # <<>>, Frame.left # <<>>
    PROVE  /\ DOMAIN FramePopped = 1 .. Len(stack)
           /\ \A i \in 1 .. Len(stack) :
                 /\ FramePopped[i].dir = stack[i].dir /\ FramePopped[i].left \in Seq(Names)
                 /\ Fewer(FramePopped[i].left, Left(i))
                 /\ \A m \in DOMAIN FramePopped[i].left :
                       /\ FramePopped[i].left[m] \in Names
                       /\ Earlier(Path, Append(stack[i].dir, FramePopped[i].left[m]))
<1> DEFINE n == Len(stack)
<1>1. n \in Nat \ {0} /\ Frame.left = Left(n) /\ n \in 1 .. n /\ Frame.dir = stack[n].dir
  BY TopIs
<1>2. /\ FramePopped \in Seq(Frames) /\ Len(FramePopped) = n
      /\ \A i \in 1 .. n - 1 : FramePopped[i] = stack[i]
      /\ FramePopped[n].dir = stack[n].dir
      /\ FramePopped[n].left = Tail(Left(n))
  BY PoppedIs
<1>3. ASSUME NEW i \in 1 .. n
      PROVE  /\ FramePopped[i].dir = stack[i].dir /\ FramePopped[i].left \in Seq(Names)
             /\ Fewer(FramePopped[i].left, Left(i))
  <2>1. FramePopped[i] \in Frames
    BY <1>2, ElementOfSeq
  <2>2. CASE i = n
    BY <1>1, <1>2, <2>1, <2>2 DEF Frames, Fewer
  <2>3. CASE i # n
    <3>1. i \in 1 .. n - 1
      BY <1>1, <2>3
    <3> QED
      BY <1>2, <2>1, <3>1 DEF Frames, Fewer, Left
  <2> QED
    BY <2>2, <2>3
<1>4. ASSUME NEW i \in 1 .. n, NEW m \in DOMAIN FramePopped[i].left
      PROVE  /\ FramePopped[i].left[m] \in Names
             /\ Earlier(Path, Append(stack[i].dir, FramePopped[i].left[m]))
  <2> DEFINE d == stack[i].dir
             x == FramePopped[i].left[m]
  <2>1. x \in Names /\ d \in Seq(Names) /\ Path \in Seq(Names) /\ Len(Path) = n
    BY <1>3, ElementOfSeq, LenProperties, StackIs, PathIs
  <2>2. Above(d, Path) /\ Len(d) = i - 1 /\ Path[i] < x
    BY PathAhead
  <2>3. Len(d) < Len(Path) /\ Len(d) + 1 = i
    BY <1>1, <2>1, <2>2
  <2> HIDE DEF d, x
  <2>4. Earlier(Path, Append(d, x))
    BY <2>1, <2>2, <2>3, EarlierThanNext
  <2> QED
    BY <2>1, <2>4 DEF d, x
<1> QED
  BY <1>2, <1>3, <1>4, LenProperties

LEMMA OrderKept ==
    ASSUME ScanTypes, FolderInv, StageInv, StackInv, NumberInv, OrderInv, [Next]_vars
    PROVE  OrderInv'
<1>0. DOMAIN pending = 1 .. Len(pending) /\ Len(pending) \in Nat /\ DOMAIN stack = 1 .. Len(stack)
  BY PendingIs, StackIs
<1>1. CASE Stays
  BY <1>1 DEF Stays, walking, OrderInv, Left
<1>2. CASE EntersRoot
  BY <1>2 DEF EntersRoot, walking, StageInv, OrderInv
<1>3. CASE ReadDir /\ pc' # "failed"
  <2>1. /\ pc = "read" /\ pc' = "visit" /\ UNCHANGED <<toRead, parentMap, nextCNID, pending>>
        /\ stack' = Append(stack, [dir |-> toRead, left |-> Listing(toRead)])
    BY <1>3 DEF ReadDir, Fails
  <2>2. /\ stack' \in Seq(Frames)
        /\ Len(stack') = Len(stack) + 1 /\ \A i \in 1 .. Len(stack) : stack'[i] = stack[i]
        /\ stack'[Len(stack) + 1].dir = toRead
        /\ stack'[Len(stack) + 1].left = Listing(toRead)
    BY <2>1, StackGrows
  <2>3. DOMAIN stack' = 1 .. Len(stack) + 1 /\ Len(stack) \in Nat
    BY <2>2, StackIs, LenProperties
  <2>4. ASSUME NEW k \in DOMAIN pending, NEW i \in DOMAIN stack', NEW m \in DOMAIN stack'[i].left
        PROVE  Earlier(pending[k].path, Append(stack'[i].dir, stack'[i].left[m]))
    <3>1. CASE i \in 1 .. Len(stack)
      BY <1>0, <2>2, <3>1 DEF OrderInv, Left
    <3>2. CASE i = Len(stack) + 1
      <4> DEFINE x == Listing(toRead)[m]
                 q == Append(toRead, x)
                 p == pending[k].path
      <4>1. m \in DOMAIN Listing(toRead) /\ stack'[i].dir = toRead /\ stack'[i].left[m] = x
        BY <2>2, <2>4, <3>2
      <4>2. x \in Names /\ toRead \in Seq(Names) /\ p \in Seq(Names)
        BY <1>0, <4>1, ListingIs, ElementOfSeq, LenProperties, PendingIs DEF ScanTypes
      <4>3. p = toRead \/ Earlier(p, toRead)
        BY <2>1 DEF OrderInv
      <4> HIDE DEF x, p
      <4>4. q \in Seq(Names) /\ Above(toRead, q) /\ Earlier(toRead, q)
        BY <4>2, AppendIs, EntryBelow
      <4>5. Earlier(p, q)
        BY <4>2, <4>3, <4>4, EarlierThanBelow
      <4> QED
        BY <4>1, <4>5 DEF p
    <3> QED
      BY <2>3, <3>1, <3>2
  <2>5. ASSUME NEW k \in DOMAIN pending', NEW i \in DOMAIN stack', NEW m \in DOMAIN Left(i)'
        PROVE  Earlier(pending'[k].path, Append(stack'[i].dir, Left(i)'[m]))
    BY <2>1, <2>4 DEF Left
  <2>6. /\ pending' = pending /\ pc' # "read"
        /\ \A j, k \in DOMAIN pending : j < k => Earlier(pending[j].path, pending[k].path)
    BY <2>1 DEF OrderInv
  <2> QED
    BY <2>5, <2>6 DEF OrderInv
<1>4. CASE Visit /\ pc' # "failed"
  <2> DEFINE n == Len(pending)
  <2>1. /\ stack # <<>> /\ Frame.left # <<>> /\ stack' = FramePopped
        /\ Len(pending') = n + 1 /\ pending'[n + 1].path = Path
        /\ \A k \in 1 .. n : pending'[k] = pending[k]
        /\ pending' \in Seq(Finds) /\ (pc' = "read" => toRead' = Path)
    BY <1>4, VisitIs
  <2>2. /\ Path = Append(stack[Len(stack)].dir, Left(Len(stack))[1])
        /\ Len(stack) \in 1 .. Len(stack) /\ 1 \in DOMAIN Left(Len(stack))
    BY <2>1, PathIs, TopIs
  <2>3. DOMAIN pending' = 1 .. n + 1
    BY <2>1, LenProperties
  <2>4. \A k \in 1 .. n : Earlier(pending[k].path, Path)
    BY <1>0, <2>2 DEF OrderInv
  <2>5. ASSUME NEW j \in 1 .. n + 1, NEW k \in 1 .. n + 1, j < k
        PROVE  Earlier(pending'[j].path, pending'[k].path)
    <3>1. j \in 1 .. n /\ (k \in 1 .. n \/ k = n + 1)
      BY <1>0, <2>5
    <3>2. CASE k \in 1 .. n
      BY <1>0, <2>1, <2>5, <3>1, <3>2 DEF OrderInv
    <3>3. CASE k = n + 1
      BY <2>1, <2>4, <3>1, <3>3
    <3> QED
      BY <3>1, <3>2, <3>3
  <2>6. ASSUME NEW k \in 1 .. n + 1, NEW i \in DOMAIN stack', NEW m \in DOMAIN stack'[i].left
        PROVE  Earlier(pending'[k].path, Append(stack'[i].dir, stack'[i].left[m]))
    <3>1. /\ i \in 1 .. Len(stack) /\ stack'[i].dir = stack[i].dir
          /\ Fewer(stack'[i].left, Left(i))
          /\ Earlier(Path, Append(stack[i].dir, stack'[i].left[m]))
      BY <2>1, PoppedLeft
    <3>2. CASE k \in 1 .. n
      <4>1. Left(i) \in Seq(Names)
        BY <3>1, StackIs
      <4>2. PICK l \in DOMAIN Left(i) : stack'[i].left[m] = Left(i)[l]
        BY <3>1, <4>1, FewerIs
      <4> QED
        BY <1>0, <2>1, <3>1, <3>2, <4>2 DEF OrderInv
    <3>3. CASE k = n + 1
      BY <2>1, <3>1, <3>3
    <3> QED
      BY <1>0, <3>2, <3>3
  <2>7. ASSUME pc' = "read", NEW k \in 1 .. n + 1
        PROVE  pending'[k].path = toRead' \/ Earlier(pending'[k].path, toRead')
    <3>1. toRead' = Path
      BY <2>1, <2>7
    <3>2. k \in 1 .. n \/ k = n + 1
      BY <1>0
    <3> QED
      BY <2>1, <2>4, <3>1, <3>2
  <2> HIDE DEF n
  <2>8. ASSUME NEW k \in DOMAIN pending', NEW i \in DOMAIN stack', NEW m \in DOMAIN Left(i)'
        PROVE  Earlier(pending'[k].path, Append(stack'[i].dir, Left(i)'[m]))
    BY <2>3, <2>6 DEF Left
  <2> QED
    BY <2>3, <2>5, <2>7, <2>8 DEF OrderInv
<1>5. CASE VisitOther
  <2>1. /\ stack # <<>> /\ Frame.left # <<>> /\ stack' = FramePopped /\ pc' = "visit"
        /\ pending' = pending
    BY <1>5 DEF VisitOther, StageInv
  <2>2. ASSUME NEW k \in DOMAIN pending', NEW i \in DOMAIN stack', NEW m \in DOMAIN Left(i)'
        PROVE  Earlier(pending'[k].path, Append(stack'[i].dir, Left(i)'[m]))
    <3>1. /\ i \in 1 .. Len(stack) /\ stack'[i].dir = stack[i].dir
          /\ Fewer(stack'[i].left, Left(i)) /\ Left(i) \in Seq(Names)
      BY <2>1, PoppedLeft, StackIs
    <3>2. m \in DOMAIN stack'[i].left /\ Left(i)'[m] = stack'[i].left[m]
      BY <2>2 DEF Left
    <3>3. PICK l \in DOMAIN Left(i) : stack'[i].left[m] = Left(i)[l]
      BY <3>1, <3>2, FewerIs
    <3> QED
      BY <1>0, <2>1, <3>1, <3>2, <3>3 DEF OrderInv
  <2>3. /\ pending' = pending /\ pc' # "read"
        /\ \A j, k \in DOMAIN pending : j < k => Earlier(pending[j].path, pending[k].path)
    BY <2>1 DEF OrderInv
  <2> QED
    BY <2>2, <2>3 DEF OrderInv
<1>6. CASE LeaveDir
  <2>1. /\ Len(stack') = Len(stack) - 1 /\ \A i \in 1 .. Len(stack) - 1 : stack'[i] = stack[i]
        /\ stack' \in Seq(Frames) /\ pc' # "read" /\ pending' = pending
    BY <1>6, StackLeft DEF LeaveDir, StageInv
  <2>2. \A i \in DOMAIN stack' : i \in DOMAIN stack /\ stack'[i] = stack[i]
    BY <1>0, <2>1, LenProperties
  <2> QED
    BY <2>1, <2>2 DEF OrderInv, Left
<1> QED
  BY <1>1, <1>2, <1>3, <1>4, <1>5, <1>6, StepsAre

----------------------------------------------------------------------------
(* The numbers.                                                            *)

LEMMA InitNumbers ==
    ASSUME ScanInit
    PROVE  NumberInv
BY DEF ScanInit, NumberInv

LEMMA NumberKept ==
    ASSUME ScanTypes, FolderInv, StageInv, StackInv, NumberInv, [Next]_vars
    PROVE  NumberInv'
<1>0. DOMAIN pending = 1 .. Len(pending) /\ Len(pending) \in Nat /\ nextCNID = 16 + Len(pending)
  BY PendingIs
<1>1. CASE parentMap' = parentMap /\ pending' = pending
  BY <1>1 DEF NumberInv, IsDir
<1>2. CASE Visit /\ pc' # "failed"
  <2> DEFINE n == Len(pending)
             d == Frame.dir
             c == parentMap[d]
  <2>1. /\ stack # <<>> /\ Frame.left # <<>> /\ pending' \in Seq(Finds)
        /\ Len(pending') = n + 1 /\ \A k \in 1 .. n : pending'[k] = pending[k]
        /\ pending'[n + 1] = NewFind
        /\ NewFind.path = Path /\ NewFind.cnid = nextCNID
        /\ NewFind.parent = c /\ NewFind.kind = tree[Path]
        /\ parentMap' = IF tree[Path] = "dir" THEN WithParent(Path) ELSE parentMap
    BY <1>2, VisitIs
  <2>2. /\ Path \in Seq(Names) \ {Root} /\ Len(Path) = Len(stack) /\ Front(Path) = d
        /\ d \in DOMAIN parentMap /\ Len(d) = Len(stack) - 1 /\ Len(stack) \in Nat \ {0}
        /\ d \in Seq(Names)
    BY <2>1, PathIs, TopIs
  <2>3. DOMAIN pending' = 1 .. n + 1
    BY <2>1, LenProperties
  <2>4. /\ pending'[n + 1].path = Path /\ pending'[n + 1].cnid = nextCNID
        /\ pending'[n + 1].parent = c /\ pending'[n + 1].kind = tree[Path]
    BY <2>1
  <2>5. IF d = Root THEN c = CNIDRootFolder ELSE \E k \in 1 .. n : IsDir(k, d, c)
    BY <2>2, ParentIs
  <2>6. d = Root <=> Len(Path) = 1
    BY <2>2, FrontIs
  <2> HIDE DEF n, c, d
  <2>7. ASSUME NEW k \in 1 .. n + 1 PROVE pending'[k].cnid = CNIDFirstUser - 1 + k
    <3>1. k \in 1 .. n \/ k = n + 1
      BY <1>0 DEF n
    <3>2. CASE k \in 1 .. n
      BY <1>0, <2>1, <3>2 DEF NumberInv, n
    <3>3. CASE k = n + 1
      BY <1>0, <2>4, <3>3 DEF CNIDFirstUser, n
    <3> QED
      BY <3>1, <3>2, <3>3
  <2>8. Root \in DOMAIN parentMap' /\ parentMap'[Root] = CNIDRootFolder
    BY <2>1, <2>2 DEF NumberInv, WithParent
  <2>9. ASSUME NEW p \in DOMAIN parentMap' \ {Root}
        PROVE  \E k \in 1 .. n + 1 : /\ pending'[k].path = p /\ pending'[k].kind = "dir"
                                     /\ pending'[k].cnid = parentMap'[p]
    <3>1. CASE tree[Path] = "dir" /\ p = Path
      <4>1. parentMap'[p] = nextCNID /\ n + 1 \in 1 .. n + 1
        BY <1>0, <2>1, <2>9, <3>1 DEF WithParent, n
      <4> QED
        BY <2>4, <3>1, <4>1
    <3>2. CASE ~(tree[Path] = "dir" /\ p = Path)
      <4>1. p \in DOMAIN parentMap \ {Root} /\ parentMap'[p] = parentMap[p]
        BY <2>1, <2>9, <3>2 DEF WithParent
      <4>2. PICK k \in 1 .. n : IsDir(k, p, parentMap[p])
        BY <1>0, <4>1 DEF NumberInv, n
      <4>3. k \in 1 .. n + 1 /\ pending'[k] = pending[k]
        BY <1>0, <2>1, <4>2 DEF n
      <4> QED
        BY <4>1, <4>2, <4>3 DEF IsDir
    <3> QED
      BY <3>1, <3>2
  <2>10. ASSUME NEW k \in 1 .. n + 1
         PROVE  IF Len(pending'[k].path) = 1 THEN pending'[k].parent = CNIDRootFolder
                ELSE \E j \in 1 .. k - 1 : /\ pending'[j].path = Front(pending'[k].path)
                                           /\ pending'[j].kind = "dir"
                                           /\ pending'[j].cnid = pending'[k].parent
    <3>1. k \in 1 .. n \/ k = n + 1
      BY <1>0 DEF n
    <3>2. CASE k \in 1 .. n
      <4>1. CASE Len(pending[k].path) = 1
        BY <1>0, <2>1, <3>2, <4>1 DEF NumberInv, n
      <4>2. CASE Len(pending[k].path) # 1
        <5>1. PICK j \in 1 .. k - 1 : IsDir(j, Front(pending[k].path), pending[k].parent)
          BY <1>0, <3>2, <4>2 DEF NumberInv, n
        <5>2. j \in 1 .. n
          BY <1>0, <3>2 DEF n
        <5>3. pending'[j] = pending[j] /\ pending'[k] = pending[k]
          BY <2>1, <3>2, <5>2
        <5> QED
          BY <4>2, <5>1, <5>3 DEF IsDir
      <4> QED
        BY <4>1, <4>2
    <3>3. CASE k = n + 1
      <4>1. CASE d = Root
        BY <2>4, <2>5, <2>6, <3>3, <4>1
      <4>2. CASE d # Root
        <5>1. PICK j \in 1 .. n : IsDir(j, d, c)
          BY <2>5, <4>2
        <5>2. j \in 1 .. k - 1 /\ pending'[j] = pending[j]
          BY <1>0, <2>1, <3>3 DEF n
        <5>3. /\ pending'[j].path = Front(pending'[k].path) /\ pending'[j].kind = "dir"
              /\ pending'[j].cnid = pending'[k].parent
          BY <2>2, <2>4, <3>3, <5>1, <5>2 DEF IsDir
        <5>4. Len(pending'[k].path) # 1
          BY <2>4, <2>6, <3>3, <4>2
        <5> QED
          BY <5>2, <5>3, <5>4
      <4> QED
        BY <4>1, <4>2
    <3> QED
      BY <3>1, <3>2, <3>3
  <2> QED
    BY <2>3, <2>7, <2>8, <2>9, <2>10 DEF NumberInv, IsDir
<1>3. CASE Stays \/ EntersRoot \/ VisitOther \/ LeaveDir \/ (ReadDir /\ pc' # "failed")
  BY <1>1, <1>3 DEF Stays, EntersRoot, walking, VisitOther, LeaveDir, ReadDir, Fails
<1> QED
  BY <1>2, <1>3, StepsAre

----------------------------------------------------------------------------
(* What was there all the time.                                            *)

LEMMA SourceIs ==
    ASSUME FolderInv, [Next]_vars
    PROVE  kept' \subseteq kept /\ ever \subseteq ever' /\ tree'[Root] = tree[Root]
<1>1. CASE UNCHANGED source
  BY <1>1 DEF source
<1>2. CASE SourceChanges
  BY <1>2, RootStays DEF SourceChanges
<1> QED
  BY <1>1, <1>2, StepKeepsSource DEF Next, ScanOver, vars, source

\* Such an object, and the directories it is in, are there.
LEMMA KeptIs ==
    ASSUME FolderInv, NEW o \in kept
    PROVE  /\ o[1] \in Seq(Names) \ {Root} /\ Len(o[1]) \in Nat \ {0}
           /\ o[1] \in DOMAIN tree /\ o[2] = tree[o[1]] /\ o = <<o[1], o[2]>>
           /\ \A q \in Seq(Names) : Above(q, o[1]) /\ q # Root =>
                 /\ q \in DOMAIN tree \ {Root}
                 /\ Len(q) = Len(o[1]) => q = o[1]
                 /\ Len(q) < Len(o[1]) => <<q, "dir">> \in kept /\ tree[q] = "dir"
<1>1. PICK p \in DOMAIN tree \ {Root} : o = <<p, tree[p]>>
  BY DEF FolderInv, Objects
<1>2. p \in Seq(Names) /\ o[1] = p /\ Len(p) \in Nat \ {0}
  BY <1>1, EmptySeq, LenProperties DEF FolderInv, Root
<1>3. ASSUME NEW q \in Seq(Names), Above(q, p), q # Root
      PROVE  /\ q \in DOMAIN tree \ {Root}
             /\ Len(q) = Len(p) => q = p
             /\ Len(q) < Len(p) => <<q, "dir">> \in kept /\ tree[q] = "dir"
  <2>1. Len(q) \in 1 .. Len(p) /\ \A m \in 1 .. Len(q) : p[m] = q[m]
    BY <1>2, <1>3, EmptySeq, LenProperties DEF Above, Root
  <2>2. CASE Len(q) = Len(p)
    <3>1. q = p
      BY <1>2, <2>1, <2>2, SeqEqual
    <3> QED
      BY <1>1, <1>2, <2>2, <3>1
  <2>3. CASE Len(q) # Len(p)
    <3> DEFINE n == Len(q)
               r == SubSeq(p, 1, n)
    <3>1. n \in 1 .. Len(p) - 1 /\ n \in 0 .. Len(p) /\ n < Len(p)
      BY <1>2, <2>1, <2>3
    <3>2. <<r, "dir">> \in kept
      BY <1>2, <3>1 DEF FolderInv
    <3>3. r \in Seq(Names) /\ Len(r) = n /\ \A m \in 1 .. n : r[m] = p[m]
      BY <1>2, <3>1, PrefixIs
    <3> HIDE DEF r
    <3>4. r = q
      BY <2>1, <3>3, SeqEqual
    <3>5. PICK x \in DOMAIN tree \ {Root} : <<r, "dir">> = <<x, tree[x]>>
      BY <3>2 DEF FolderInv, Objects
    <3> QED
      BY <2>3, <3>2, <3>4, <3>5
  <2> QED
    BY <2>2, <2>3
<1> QED
  BY <1>1, <1>2, <1>3

\* The directories being visited lead to it.
AheadIn(p, frames) ==
    \E i \in DOMAIN frames : /\ Len(p) >= i /\ Above(frames[i].dir, p)
                             /\ \E m \in DOMAIN frames[i].left : p[i] = frames[i].left[m]

LEMMA AheadIs ==
    ASSUME NEW p
    PROVE  /\ Ahead(p) <=> \/ pc = "read" /\ Len(toRead) < Len(p) /\ Above(toRead, p)
                           \/ AheadIn(p, stack)
           /\ Ahead(p)' <=> \/ pc' = "read" /\ Len(toRead') < Len(p) /\ Above(toRead', p)
                            \/ AheadIn(p, stack')
BY DEF Ahead, AheadIn, Left, Above

LEMMA InitSeen ==
    ASSUME ScanInit
    PROVE  SeenInv
BY DEF ScanInit, SeenInv

LEMMA SeenStays ==
    ASSUME FolderInv, SeenInv, [Next]_vars, Stays
    PROVE  SeenInv'
<1>1. kept' \subseteq kept /\ ever \subseteq ever' /\ tree'[Root] = tree[Root]
  BY SourceIs
<1>2. stack' = stack /\ toRead' = toRead /\ pending' = pending
  BY DEF Stays, walking
<1>3. \A k \in DOMAIN pending' : <<pending'[k].path, pending'[k].kind>> \in ever'
  BY <1>1, <1>2 DEF SeenInv
<1>4. ASSUME tree'[Root] = "dir", pc' \notin {"stat", "nameRoot", "lstatRoot", "failed"}, NEW o \in kept'
      PROVE  o[2] = "other" \/ Found(o)' \/ Ahead(o[1])'
  <2>1. pc \notin {"stat", "nameRoot", "lstatRoot"} /\ (pc' = "read" <=> pc = "read")
    BY <1>1, <1>4 DEF Stays, Early
  <2>2. CASE pc = "failed"
    <3>1. pc' = pc
      BY <2>2, <1>4 DEF Next, ScanStep, Stat, NameRoot, LstatRoot, ReadDir, Visit, VisitOther, LeaveDir,
                      Collect, Backfill, RootInfo, BuildCatalog, Fails, SourceChanges, ScanOver, vars
    <3> QED
      BY <1>4, <2>2, <3>1
  <2>3. CASE pc # "failed"
    <3>1. o[2] = "other" \/ Found(o) \/ Ahead(o[1])
      BY <1>1, <1>4, <2>1, <2>3 DEF SeenInv
    <3>2. Found(o) => Found(o)'
      BY <1>2 DEF Found
    <3>3. Ahead(o[1]) => Ahead(o[1])'
      BY <1>2, <2>1, AheadIs
    <3> QED
      BY <3>1, <3>2, <3>3
  <2> QED
    BY <2>2, <2>3
<1> QED
  BY <1>3, <1>4 DEF SeenInv

\* A directory that is read leads to what is in it.
LEMMA ReadLeads ==
    ASSUME ScanTypes, FolderInv, StackInv, pc = "read", NEW o \in kept,
           Len(toRead) < Len(o[1]), Above(toRead, o[1])
    PROVE  /\ Len(toRead) = Len(stack) /\ Len(o[1]) >= Len(stack) + 1
           /\ \E m \in DOMAIN Listing(toRead) : o[1][Len(stack) + 1] = Listing(toRead)[m]
<1> DEFINE n == Len(stack)
           p == o[1]
           q == SubSeq(p, 1, n + 1)
<1>1. n \in Nat /\ toRead \in Seq(Names)
  BY StackIs DEF ScanTypes
<1>2. Depth = n + 1 /\ Dir(n + 1) = toRead
  BY <1>1 DEF Depth, Dir
<1>3. Len(toRead) = n
  <2>1. Len(Dir(n + 1)) = (n + 1) - 1
    BY <1>1, <1>2 DEF StackInv
  <2> QED
    BY <1>1, <1>2, <2>1
<1>4. p \in Seq(Names) /\ Len(p) \in Nat \ {0} /\ Len(p) >= n + 1
  BY <1>1, <1>3, KeptIs
<1> HIDE DEF n, p
<1>5. q \in Seq(Names) /\ Len(q) = n + 1 /\ \A m \in 1 .. n + 1 : q[m] = p[m]
  BY <1>1, <1>4, PrefixIs
<1> HIDE DEF q
<1>6. Above(q, p) /\ q # Root
  BY <1>1, <1>4, <1>5, EmptySeq DEF Above, Root
<1>7. q \in DOMAIN tree \ {Root}
  BY <1>5, <1>6, KeptIs DEF p
<1>8. Front(q) = toRead /\ Last(q) = p[n + 1]
  <2>1. /\ Front(q) \in Seq(Names) /\ Len(Front(q)) = Len(q) - 1
        /\ \A m \in 1 .. Len(q) - 1 : Front(q)[m] = q[m]
        /\ Last(q) = q[Len(q)]
    BY <1>5, <1>6, FrontIs
  <2>2. Len(Front(q)) = n
    BY <1>1, <1>5, <2>1
  <2>3. \A m \in 1 .. n : Front(q)[m] = toRead[m]
    <3>1. \A m \in 1 .. n : p[m] = toRead[m]
      BY <1>3 DEF Above, p
    <3> QED
      BY <1>1, <1>5, <2>1, <3>1
  <2>4. Front(q) = toRead
    BY <1>1, <1>3, <2>1, <2>2, <2>3, SeqEqual
  <2> QED
    BY <1>1, <1>5, <2>1, <2>4
<1>9. p[n + 1] \in NamesIn(toRead)
  BY <1>7, <1>8 DEF NamesIn
<1> QED
  BY <1>3, <1>4, <1>9, ListingIs DEF n, p

\* What the directories lead to, the entry taken or those left lead to.
LEMMA TakenLeads ==
    ASSUME ScanTypes, StackInv, stack # <<>>, Frame.left # <<>>,
           NEW p \in Seq(Names), AheadIn(p, stack)
    PROVE  AheadIn(p, FramePopped) \/ Above(Path, p)
<1> DEFINE n == Len(stack)
<1>1. n \in Nat \ {0} /\ n \in 1 .. n /\ Frame.dir = stack[n].dir
  BY TopIs
<1>2. /\ Len(FramePopped) = n /\ \A i \in 1 .. n - 1 : FramePopped[i] = stack[i]
      /\ FramePopped[n].dir = stack[n].dir /\ FramePopped[n].left = Tail(Left(n))
      /\ DOMAIN FramePopped = 1 .. n
  BY PoppedIs, PoppedLeft
<1>3. /\ Len(Path) = n /\ Path[n] = Left(n)[1] /\ Above(stack[n].dir, Path) /\ Left(n) # <<>>
      /\ Left(n) \in Seq(Names) /\ Path \in Seq(Names) /\ Len(stack[n].dir) = n - 1
  BY <1>1, PathIs, StackIs, TopIs
<1>4. PICK i \in 1 .. n : /\ Len(p) >= i /\ Above(stack[i].dir, p)
                          /\ \E m \in DOMAIN Left(i) : p[i] = Left(i)[m]
  BY StackIs DEF AheadIn, Left
<1>5. CASE i # n
  <2>1. i \in 1 .. n - 1 /\ FramePopped[i] = stack[i]
    <3> HIDE DEF n
    <3>1. i \in 1 .. n - 1
      BY <1>1, <1>5
    <3> QED
      BY <1>2, <3>1
  <2>2. \E m \in DOMAIN FramePopped[i].left : p[i] = FramePopped[i].left[m]
    BY <1>4, <2>1 DEF Left
  <2> QED
    BY <1>2, <1>4, <2>1, <2>2 DEF AheadIn
<1>6. CASE i = n
  <2>1. PICK m \in DOMAIN Left(n) : p[n] = Left(n)[m]
    BY <1>4, <1>6
  <2>2. DOMAIN Left(n) = 1 .. Len(Left(n)) /\ Len(Left(n)) \in Nat
    BY <1>3, LenProperties
  <2>3. CASE m = 1
    <3>1. Len(p) \in Nat /\ p[n] = Path[n] /\ Len(p) >= n
      BY <1>3, <1>4, <1>6, <2>1, <2>3, LenProperties
    <3>2. \A j \in 1 .. n - 1 : p[j] = Path[j]
      BY <1>3, <1>4, <1>6 DEF Above
    <3>3. \A j \in 1 .. n : j \in 1 .. n - 1 \/ j = n
      BY <1>1
    <3>4. \A j \in 1 .. n : Path[j] = p[j]
      BY <3>1, <3>2, <3>3
    <3> QED
      BY <1>1, <1>3, <3>1, <3>4 DEF Above
  <2>4. CASE m # 1
    <3> DEFINE s == Left(n)
               t == Tail(Left(n))
               l == m - 1
    <3>1. DOMAIN t = 1 .. Len(s) - 1 /\ \A j \in 1 .. Len(s) - 1 : t[j] = s[j + 1]
      BY <1>3, TailIs
    <3>2. l \in 1 .. Len(s) - 1 /\ l + 1 = m
      BY <2>2, <2>4
    <3> HIDE DEF s, t, l
    <3>3. l \in DOMAIN t /\ p[n] = t[l]
      BY <2>1, <3>1, <3>2 DEF s
    <3>4. /\ FramePopped[n].left = t /\ FramePopped[n].dir = stack[n].dir
          /\ n \in DOMAIN FramePopped /\ Len(p) >= n /\ Above(stack[n].dir, p)
      BY <1>1, <1>2, <1>4, <1>6 DEF t
    <3> QED
      BY <3>3, <3>4 DEF AheadIn
  <2> QED
    BY <2>3, <2>4
<1> QED
  BY <1>5, <1>6

LEMMA SeenKept ==
    ASSUME ScanTypes, FolderInv, StageInv, StackInv, NumberInv, SeenInv, [Next]_vars
    PROVE  SeenInv'
<1>0. DOMAIN pending = 1 .. Len(pending) /\ DOMAIN stack = 1 .. Len(stack) /\ Len(stack) \in Nat
      /\ Len(pending) \in Nat
  BY PendingIs, StackIs
<1>1. CASE Stays
  BY <1>1, SeenStays
<1>2. CASE EntersRoot
  <2>1. /\ kept' = kept /\ pending' = <<>> /\ stack' = <<>> /\ toRead' = Root /\ pc' = "read"
    BY <1>2 DEF EntersRoot, source, walking, StageInv
  <2>2. ASSUME NEW o \in kept' PROVE Ahead(o[1])'
    <3>1. Len(o[1]) \in Nat \ {0} /\ Len(Root) = 0
      BY <2>1, KeptIs DEF Root
    <3>2. Len(Root) < Len(o[1]) /\ Above(Root, o[1])
      BY <3>1 DEF Above
    <3> QED
      BY <2>1, <3>2, AheadIs
  <2> QED
    BY <2>1, <2>2 DEF SeenInv
<1>3. CASE ReadDir /\ pc' # "failed"
  <2>1. /\ pc = "read" /\ pc' = "visit" /\ UNCHANGED <<toRead, parentMap, nextCNID, pending>>
        /\ UNCHANGED source
        /\ stack' = Append(stack, [dir |-> toRead, left |-> Listing(toRead)])
    BY <1>3 DEF ReadDir, Fails
  <2>2. /\ stack' \in Seq(Frames)
        /\ Len(stack') = Len(stack) + 1 /\ \A i \in 1 .. Len(stack) : stack'[i] = stack[i]
        /\ stack'[Len(stack) + 1].dir = toRead
        /\ stack'[Len(stack) + 1].left = Listing(toRead)
    BY <1>3, <2>1, StackKept, StackGrows
  <2>3. DOMAIN stack' = 1 .. Len(stack) + 1
    BY <2>2, LenProperties
  <2>4. ASSUME NEW o \in kept, tree[Root] = "dir" PROVE o[2] = "other" \/ Found(o)' \/ Ahead(o[1])'
    <3>1. o[2] = "other" \/ Found(o) \/ Ahead(o[1])
      BY <2>1, <2>4 DEF SeenInv
    <3>2. Found(o) => Found(o)'
      BY <2>1 DEF Found
    <3>3. CASE AheadIn(o[1], stack)
      <4>1. AheadIn(o[1], stack')
        BY <1>0, <2>2, <2>3, <3>3 DEF AheadIn
      <4> QED
        BY <4>1, AheadIs
    <3>4. CASE Len(toRead) < Len(o[1]) /\ Above(toRead, o[1])
      <4> DEFINE n == Len(stack) + 1
      <4>1. /\ Len(o[1]) >= n
            /\ \E m \in DOMAIN Listing(toRead) : o[1][n] = Listing(toRead)[m]
        BY <2>1, <3>4, ReadLeads
      <4>2. n \in DOMAIN stack' /\ stack'[n].dir = toRead /\ stack'[n].left = Listing(toRead)
        BY <1>0, <2>2, <2>3
      <4> HIDE DEF n
      <4>3. AheadIn(o[1], stack')
        BY <3>4, <4>1, <4>2 DEF AheadIn
      <4> QED
        BY <4>3, AheadIs
    <3> QED
      BY <3>1, <3>2, <3>3, <3>4, AheadIs
  <2> QED
    BY <2>1, <2>4 DEF SeenInv, source
<1>4. CASE Visit /\ pc' # "failed"
  <2> DEFINE n == Len(pending)
  <2>1. /\ pc = "visit" /\ stack # <<>> /\ Frame.left # <<>> /\ stack' = FramePopped
        /\ Len(pending') = n + 1 /\ pending'[n + 1].path = Path /\ pending'[n + 1].kind = tree[Path]
        /\ \A k \in 1 .. n : pending'[k] = pending[k]
        /\ pending' \in Seq(Finds) /\ Path \in DOMAIN tree
        /\ tree[Path] = "dir" => pc' = "read" /\ toRead' = Path
        /\ UNCHANGED source
    BY <1>4, VisitIs
  <2>2. Path \in Seq(Names) \ {Root}
    BY <2>1, PathIs
  <2>3. DOMAIN pending' = 1 .. n + 1 /\ n + 1 \in 1 .. n + 1 /\ 1 .. n \subseteq 1 .. n + 1
    BY <1>0, <2>1, LenProperties
  <2> HIDE DEF n
  <2>4. ASSUME NEW k \in 1 .. n + 1 PROVE <<pending'[k].path, pending'[k].kind>> \in ever
    <3>1. k \in 1 .. n \/ k = n + 1
      BY <1>0 DEF n
    <3>2. <<Path, tree[Path]>> \in ever
      BY <2>1, <2>2 DEF FolderInv, Objects
    <3> QED
      BY <1>0, <2>1, <3>1, <3>2 DEF SeenInv, n
  <2>5. ASSUME NEW o \in kept, tree[Root] = "dir" PROVE o[2] = "other" \/ Found(o)' \/ Ahead(o[1])'
    <3>1. o[2] = "other" \/ Found(o) \/ AheadIn(o[1], stack)
      BY <2>1, <2>5, AheadIs DEF SeenInv
    <3>2. o[1] \in Seq(Names) /\ Len(o[1]) \in Nat /\ o[2] = tree[o[1]]
      BY KeptIs
    <3>3. CASE Found(o)
      BY <1>0, <2>1, <2>3, <3>3 DEF Found, n
    <3>4. CASE AheadIn(o[1], FramePopped)
      BY <2>1, <3>4, AheadIs
    <3>5. CASE Above(Path, o[1])
      <4>1. Len(Path) <= Len(o[1]) /\ Len(Path) \in Nat
        BY <2>2, <3>5, LenProperties DEF Above
      <4>2. CASE Len(Path) = Len(o[1])
        <5>1. Path = o[1]
          BY <2>2, <3>5, <4>2, KeptIs
        <5>2. Found(o)'
          BY <2>1, <2>3, <3>2, <5>1 DEF Found
        <5> QED
          BY <5>2
      <4>3. CASE Len(Path) < Len(o[1])
        <5>1. tree[Path] = "dir"
          BY <2>2, <3>5, <4>3, KeptIs
        <5> QED
          BY <2>1, <3>5, <4>3, <5>1, AheadIs
      <4> QED
        BY <3>2, <4>1, <4>2, <4>3
    <3> QED
      BY <2>1, <3>1, <3>2, <3>3, <3>4, <3>5, TakenLeads
  <2> QED
    BY <2>1, <2>3, <2>4, <2>5 DEF SeenInv, source
<1>5. CASE VisitOther
  <2>1. /\ pc = "visit" /\ stack # <<>> /\ Frame.left # <<>> /\ stack' = FramePopped
        /\ pending' = pending /\ Path \in DOMAIN tree /\ tree[Path] = "other" /\ pc' = pc
        /\ UNCHANGED source
    BY <1>5 DEF VisitOther, StageInv, Exists
  <2>2. Path \in Seq(Names) \ {Root}
    BY <2>1, PathIs
  <2>3. ASSUME NEW o \in kept, tree[Root] = "dir" PROVE o[2] = "other" \/ Found(o)' \/ Ahead(o[1])'
    <3>1. o[2] = "other" \/ Found(o) \/ AheadIn(o[1], stack)
      BY <2>1, <2>3, AheadIs DEF SeenInv
    <3>2. o[1] \in Seq(Names) /\ Len(o[1]) \in Nat /\ o[2] = tree[o[1]]
      BY KeptIs
    <3>3. CASE Found(o)
      BY <2>1, <3>3 DEF Found
    <3>4. CASE AheadIn(o[1], FramePopped)
      BY <2>1, <3>4, AheadIs
    <3>5. CASE Above(Path, o[1])
      <4>1. Len(Path) <= Len(o[1]) /\ Len(Path) \in Nat
        BY <2>2, <3>5, LenProperties DEF Above
      <4>2. CASE Len(Path) = Len(o[1])
        <5>1. Path = o[1]
          BY <2>2, <3>5, <4>2, KeptIs
        <5> QED
          BY <2>1, <3>2, <5>1
      <4>3. CASE Len(Path) < Len(o[1])
        <5>1. tree[Path] = "dir"
          BY <2>2, <3>5, <4>3, KeptIs
        <5> QED
          BY <2>1, <5>1
      <4> QED
        BY <3>2, <4>1, <4>2, <4>3
    <3> QED
      BY <2>1, <3>1, <3>2, <3>3, <3>4, <3>5, TakenLeads
  <2> QED
    BY <2>1, <2>3 DEF SeenInv, source
<1>6. CASE LeaveDir
  <2>1. /\ Len(stack') = Len(stack) - 1 /\ \A i \in 1 .. Len(stack) - 1 : stack'[i] = stack[i]
        /\ stack' \in Seq(Frames) /\ pc = "visit" /\ pending' = pending
        /\ UNCHANGED source /\ stack # <<>> /\ Frame.left = <<>>
    BY <1>6, StackLeft DEF LeaveDir, StageInv
  <2>2. DOMAIN stack' = 1 .. Len(stack) - 1
    BY <1>0, <2>1, LenProperties
  <2>3. stack[Len(stack)].left = <<>>
    BY <2>1, TopIs DEF Left
  <2>4. ASSUME NEW o \in kept, tree[Root] = "dir" PROVE o[2] = "other" \/ Found(o)' \/ Ahead(o[1])'
    <3>1. o[2] = "other" \/ Found(o) \/ AheadIn(o[1], stack)
      BY <2>1, <2>4, AheadIs DEF SeenInv
    <3>2. Found(o) => Found(o)'
      BY <2>1 DEF Found
    <3>3. CASE AheadIn(o[1], stack)
      <4>1. PICK i \in 1 .. Len(stack) :
               /\ Len(o[1]) >= i /\ Above(stack[i].dir, o[1])
               /\ \E m \in DOMAIN stack[i].left : o[1][i] = stack[i].left[m]
        BY <1>0, <3>3 DEF AheadIn
      <4>2. i # Len(stack)
        BY <2>3, <4>1
      <4> DEFINE n == Len(stack)
      <4>5. i \in 1 .. n /\ n \in Nat /\ i # n
        BY <1>0, <4>2
      <4> HIDE DEF n
      <4>6. i \in 1 .. n - 1
        BY <4>5
      <4>3. i \in 1 .. Len(stack) - 1
        BY <4>6 DEF n
      <4>4. AheadIn(o[1], stack')
        BY <2>1, <2>2, <4>1, <4>3 DEF AheadIn
      <4> QED
        BY <4>4, AheadIs
    <3> QED
      BY <3>1, <3>2, <3>3
  <2> QED
    BY <2>1, <2>4 DEF SeenInv, source
<1> QED
  BY <1>1, <1>2, <1>3, <1>4, <1>5, <1>6, StepsAre

----------------------------------------------------------------------------
(* The entries.                                                            *)

LEMMA InitEntries ==
    ASSUME ScanInit
    PROVE  EntriesInv /\ CountInv /\ FilesInv /\ RecordsInv /\ CatalogAccepts
<1>1. /\ pc = "stat" /\ entries = <<>> /\ files = <<>> /\ claimed = {} /\ pending = <<>>
      /\ valence = EmptyBag /\ subFolderCount = EmptyBag /\ Len(entries) = 0 /\ Len(files) = 0
      /\ Len(pending) = 0 /\ DOMAIN files = {} /\ DOMAIN entries = {}
  BY DEF ScanInit
<1>2. 2 .. Len(entries) = {}
  BY <1>1
<1>3. Cardinality({}) = 0
  BY FS_EmptySet
<1>4. EntriesInv
  BY <1>1, <1>2 DEF EntriesInv
<1>5. \A c : ChildrenOf(c) = {} /\ FoldersOf(c) = {}
  BY <1>2 DEF ChildrenOf, FoldersOf
<1>6. DOMAIN EmptyBag = {} /\ {entries[i].parent : i \in 2 .. Len(entries)} = {}
  BY <1>2 DEF EmptyBag, SetToBag
<1>7. CountInv
  BY <1>1, <1>6 DEF CountInv
<1>8. DataUpTo(Len(entries)) = {}
  BY <1>2 DEF DataUpTo
<1>9. FilesInv
  BY <1>1, <1>3, <1>8 DEF FilesInv
<1> QED
  BY <1>1, <1>4, <1>7, <1>9 DEF RecordsInv, CatalogAccepts

\* What has been found stays.
LEMMA PendingGrows ==
    ASSUME ScanTypes, FolderInv, StageInv, StackInv, NumberInv, [Next]_vars
    PROVE  /\ Len(pending') \in Nat /\ Len(pending) <= Len(pending')
           /\ \A k \in 1 .. Len(pending) : pending'[k] = pending[k]
<1>0. Len(pending) \in Nat
  BY PendingIs
<1>1. CASE Visit /\ pc' # "failed"
  BY <1>0, <1>1, VisitIs
<1>2. CASE Stays \/ EntersRoot \/ VisitOther \/ LeaveDir \/ (ReadDir /\ pc' # "failed")
  <2>1. pending' = pending
    BY <1>2 DEF Stays, EntersRoot, walking, VisitOther, LeaveDir, ReadDir, Fails
  <2> QED
    BY <1>0, <2>1
<1> QED
  BY <1>1, <1>2, StepsAre

LEMMA EntriesKept ==
    ASSUME ScanTypes, FolderInv, StageInv, StackInv, NumberInv, EntriesInv, CountInv, [Next]_vars
    PROVE  EntriesInv'
<1>0. /\ Len(entries) \in Nat /\ Len(pending) \in Nat /\ Len(entries) <= Len(pending) + 1
      /\ \A i \in 2 .. Len(entries) : i - 1 \in 1 .. Len(pending) /\ i \in 1 .. Len(entries)
  BY EntriesAre, PendingIs DEF EntriesInv
<1>1. /\ Len(pending') \in Nat /\ Len(pending) <= Len(pending')
      /\ \A k \in 1 .. Len(pending) : pending'[k] = pending[k]
  BY PendingGrows
<1>2. CASE UNCHANGED <<entries, files, claimed, valence, subFolderCount>>
  <2>1. entries' = entries /\ claimed' = claimed
    BY <1>2
  <2>2. Len(entries) <= Len(pending') + 1
    BY <1>0, <1>1
  <2>3. \A i \in 2 .. Len(entries) : Describes(entries[i], pending'[i - 1])
    BY <1>0, <1>1 DEF EntriesInv
  <2> QED
    BY <2>1, <2>2, <2>3 DEF EntriesInv, Describes
<1>3. CASE NameRoot
  <2>1. /\ pc = "nameRoot" /\ UNCHANGED <<files, claimed, pending>>
        /\ \E name \in VolumeNames :
              \/ name = TooLong /\ entries' = entries
              \/ /\ name # TooLong
                 /\ entries' = <<Entry(CNIDRootFolder, CNIDRootParent, name, "dir")>>
    BY <1>3 DEF NameRoot, walking
  <2>2. PICK name \in VolumeNames :
           \/ name = TooLong /\ entries' = entries
           \/ name # TooLong /\ entries' = <<Entry(CNIDRootFolder, CNIDRootParent, name, "dir")>>
    BY <2>1
  <2>3. CASE entries' = entries
    BY <2>1, <2>3 DEF EntriesInv, Describes
  <2>4. CASE name # TooLong /\ entries' = <<Entry(CNIDRootFolder, CNIDRootParent, name, "dir")>>
    <3>1. name # NoName
      BY <2>4, ScanAssumption
    <3>2. Len(entries') = 1 /\ entries'[1] = Entry(CNIDRootFolder, CNIDRootParent, name, "dir")
      BY <2>4
    <3>3. /\ entries'[1].cnid = CNIDRootFolder /\ entries'[1].parent = CNIDRootParent
          /\ entries'[1].kind = "dir" /\ entries'[1].name # NoName
      BY <3>1, <3>2 DEF Entry
    <3>4. entries = <<>> /\ 2 .. Len(entries) = {} /\ 2 .. Len(entries') = {}
      BY <2>1, <3>2 DEF StageInv
    <3>5. claimed = {}
      BY <3>4 DEF EntriesInv
    <3>6. claimed' = {<<entries'[i].parent, entries'[i].name>> : i \in 2 .. Len(entries')}
      BY <2>1, <3>4, <3>5
    <3>7. Len(entries') <= Len(pending') + 1
      BY <1>1, <3>2
    <3> QED
      BY <3>3, <3>4, <3>6, <3>7 DEF EntriesInv, Describes
  <2> QED
    BY <2>2, <2>3, <2>4
<1>4. CASE Collect /\ pc' # "failed"
  <2> DEFINE n == Len(entries)
  <2>1. /\ n \in 1 .. Len(pending) /\ This = pending[n]
        /\ Len(entries') = n + 1 /\ entries'[n + 1] = NewEntry
        /\ \A i \in 1 .. n : entries'[i] = entries[i]
        /\ NewEntry.cnid = This.cnid /\ NewEntry.parent = This.parent /\ NewEntry.kind = This.kind
        /\ NewEntry.name = Nfd[Last(This.path)] /\ NewEntry.name # NoName
        /\ Claim(This) \notin claimed /\ claimed' = claimed \cup {Claim(This)}
        /\ pending' = pending
    BY <1>4, CollectIs DEF walking
  <2>2. Claim(This) = <<NewEntry.parent, NewEntry.name>>
    BY <2>1 DEF Claim
  <2>3. entries # <<>> /\ entries'[1] = entries[1]
    BY <2>1
  <2>4. claimed = {<<entries[i].parent, entries[i].name>> : i \in 2 .. n}
    BY DEF EntriesInv
  <2> HIDE DEF n
  <2>5. \A i \in 2 .. n + 1 : i \in 1 .. n + 1 /\ (i = n + 1 \/ (i \in 2 .. n /\ entries'[i] = entries[i]))
    BY <2>1
  <2>6. ASSUME NEW i \in 2 .. n + 1 PROVE Describes(entries'[i], pending'[i - 1])
    <3>1. CASE i = n + 1
      <4>1. i - 1 = n
        BY <2>1, <3>1
      <4> QED
        BY <2>1, <3>1, <4>1 DEF Describes
    <3>2. CASE i # n + 1
      BY <2>1, <2>5, <3>2 DEF EntriesInv, n
    <3> QED
      BY <3>1, <3>2
  <2>7. ASSUME NEW i \in 2 .. n PROVE ~(/\ entries[i].parent = NewEntry.parent
                                        /\ entries[i].name = NewEntry.name)
    BY <2>1, <2>2, <2>4
  <2>8. ASSUME NEW i \in 2 .. n + 1, NEW j \in 2 .. n + 1,
               entries'[i].parent = entries'[j].parent, entries'[i].name = entries'[j].name
        PROVE  i = j
    <3>1. CASE i = n + 1 /\ j # n + 1
      <4>1. j \in 2 .. n /\ entries'[j] = entries[j] /\ entries'[i] = NewEntry
        BY <2>1, <2>5, <3>1
      <4> QED
        BY <2>7, <2>8, <4>1
    <3>2. CASE j = n + 1 /\ i # n + 1
      <4>1. i \in 2 .. n /\ entries'[i] = entries[i] /\ entries'[j] = NewEntry
        BY <2>1, <2>5, <3>2
      <4> QED
        BY <2>7, <2>8, <4>1
    <3>3. CASE i # n + 1 /\ j # n + 1
      BY <2>5, <2>8, <3>3 DEF EntriesInv, n
    <3> QED
      BY <3>1, <3>2, <3>3
  <2>9. claimed' = {<<entries'[i].parent, entries'[i].name>> : i \in 2 .. n + 1}
    <3>1. n + 1 \in 2 .. n + 1 /\ \A i \in 2 .. n : i \in 2 .. n + 1 /\ entries'[i] = entries[i]
      BY <2>1
    <3>2. claimed' \subseteq {<<entries'[i].parent, entries'[i].name>> : i \in 2 .. n + 1}
      BY <2>1, <2>2, <2>4, <3>1
    <3>3. {<<entries'[i].parent, entries'[i].name>> : i \in 2 .. n + 1} \subseteq claimed'
      BY <2>1, <2>2, <2>4, <2>5
    <3> QED
      BY <3>2, <3>3
  <2>10. n + 1 <= Len(pending') + 1
    BY <1>0, <2>1
  <2>11. /\ entries'[1].cnid = CNIDRootFolder /\ entries'[1].parent = CNIDRootParent
         /\ entries'[1].kind = "dir" /\ entries'[1].name # NoName
    BY <2>3 DEF EntriesInv
  <2> QED
    BY <2>1, <2>6, <2>8, <2>9, <2>10, <2>11 DEF EntriesInv, Describes
<1>5. CASE Backfill
  <2>1. /\ Len(entries') = Len(entries) /\ claimed' = claimed /\ pending' = pending
        /\ \A i \in 1 .. Len(entries) : SameEntry(entries'[i], entries[i])
    BY <1>5, BackfillIs DEF walking
  <2>2. \A i \in 1 .. Len(entries) : /\ entries'[i].cnid = entries[i].cnid
                                     /\ entries'[i].parent = entries[i].parent
                                     /\ entries'[i].name = entries[i].name
                                     /\ entries'[i].kind = entries[i].kind
    BY <2>1 DEF SameEntry
  <2>3. entries' # <<>> => 1 \in 1 .. Len(entries) /\ entries # <<>>
    <3>1. pc = "collect" /\ entries \in Seq(Entries)
      BY <1>5 DEF Backfill, ScanTypes
    <3> QED
      BY <1>0, <3>1, EmptySeq DEF StageInv
  <2>4. claimed' = {<<entries'[i].parent, entries'[i].name>> : i \in 2 .. Len(entries)}
    <3>1. \A i \in 2 .. Len(entries) :
             <<entries'[i].parent, entries'[i].name>> = <<entries[i].parent, entries[i].name>>
      BY <1>0, <2>2
    <3>2. claimed = {<<entries[i].parent, entries[i].name>> : i \in 2 .. Len(entries)}
      BY DEF EntriesInv
    <3> QED
      BY <2>1, <3>1, <3>2
  <2>5. \A i \in 2 .. Len(entries) : Describes(entries'[i], pending[i - 1])
    BY <1>0, <2>2 DEF EntriesInv, Describes
  <2>6. \A i, j \in 2 .. Len(entries) :
           entries'[i].parent = entries'[j].parent /\ entries'[i].name = entries'[j].name => i = j
    BY <1>0, <2>2 DEF EntriesInv
  <2>7. entries' # <<>> => /\ entries'[1].cnid = CNIDRootFolder /\ entries'[1].parent = CNIDRootParent
                           /\ entries'[1].kind = "dir" /\ entries'[1].name # NoName
    BY <2>2, <2>3 DEF EntriesInv
  <2> QED
    BY <1>0, <2>1, <2>4, <2>5, <2>6, <2>7 DEF EntriesInv, Describes
<1> QED
  BY <1>2, <1>3, <1>4, <1>5, EntrySteps

----------------------------------------------------------------------------
(* The counters.                                                           *)

LEMMA CountAdds ==
    ASSUME NEW B, NEW x, NEW c, Count(c, B) \in Nat
    PROVE  Count(c, B (+) SetToBag({x})) = Count(c, B) + IF c = x THEN 1 ELSE 0
<1> DEFINE A == B (+) SetToBag({x})
<1>1. DOMAIN A = DOMAIN B \cup {x}
  BY DEF (+), SetToBag
<1>2. ASSUME NEW y \in DOMAIN B \cup {x}
      PROVE  A[y] = (IF y \in DOMAIN B THEN B[y] ELSE 0) + (IF y \in {x} THEN 1 ELSE 0)
  BY DEF (+), SetToBag
<1> HIDE DEF A
<1>3. Count(c, A) = IF c \in DOMAIN A THEN A[c] ELSE 0
  BY DEF Count, BagIn, BagToSet
<1>4. Count(c, B) = IF c \in DOMAIN B THEN B[c] ELSE 0
  BY DEF Count, BagIn, BagToSet
<1> DEFINE a == Count(c, A)
           b == Count(c, B)
<1>5. b \in Nat /\ a = b + IF c = x THEN 1 ELSE 0
  <2>1. b \in Nat /\ (c \notin DOMAIN B => b = 0)
    BY <1>4
  <2>2. CASE c \in DOMAIN B
    BY <1>1, <1>2, <1>3, <1>4, <2>1, <2>2
  <2>3. CASE c \notin DOMAIN B
    <3>1. c = x => a = 0 + 1
      BY <1>1, <1>2, <1>3, <2>3
    <3>2. c # x => a = 0
      BY <1>1, <1>3, <2>3
    <3> HIDE DEF a, b
    <3> QED
      BY <2>1, <2>3, <3>1, <3>2
  <2> QED
    BY <2>2, <2>3
<1> QED
  BY <1>5 DEF A

\* The counters have been filled in by Backfill.
LEMMA LateSteps ==
    ASSUME [Next]_vars, pc' \in {"rootInfo", "records", "done"}, ~Backfill
    PROVE  /\ pc \in {"rootInfo", "records", "done"} /\ entries' = entries /\ pending' = pending
           /\ pc = "done" => UNCHANGED records
           /\ pc' = "done" /\ pc # "done" => BuildCatalog
<1>1. CASE ScanStep
  BY <1>1 DEF ScanStep, Stat, NameRoot, LstatRoot, ReadDir, Visit, VisitOther, LeaveDir, Collect,
              RootInfo, BuildCatalog, Fails, walking
<1>2. CASE SourceChanges \/ ScanOver \/ UNCHANGED vars
  BY <1>2 DEF SourceChanges, ScanOver, vars, walking, result
<1> QED
  BY <1>1, <1>2 DEF Next

\* The entries in a directory, and those that are directories.
Kids(es, c) == {i \in 2 .. Len(es) : es[i].parent = c}
Dirs(es, c) == {i \in Kids(es, c) : es[i].kind = "dir"}
Fit(es, v, f) ==
    \A c \in {es[i].parent : i \in 2 .. Len(es)} \cup DOMAIN v \cup DOMAIN f :
        Count(c, v) = Cardinality(Kids(es, c)) /\ Count(c, f) = Cardinality(Dirs(es, c))
Filled(es) ==
    \A i \in DOMAIN es : es[i].kind = "dir" =>
        /\ es[i].valence = Cardinality(Kids(es, es[i].cnid))
        /\ es[i].subFolders = Cardinality(Dirs(es, es[i].cnid))
Late == {"rootInfo", "records", "done"}

LEMMA CountInvIs ==
    /\ \A c : ChildrenOf(c) = Kids(entries, c) /\ FoldersOf(c) = Dirs(entries, c)
    /\ CountInv <=> Fit(entries, valence, subFolderCount) /\ (pc \in Late => Filled(entries))
    /\ CountInv' <=> Fit(entries', valence', subFolderCount') /\ (pc' \in Late => Filled(entries'))
<1>1. \A c : ChildrenOf(c) = Kids(entries, c) /\ FoldersOf(c) = Dirs(entries, c)
  BY DEF ChildrenOf, FoldersOf, Kids, Dirs
<1>2. CountInv <=> Fit(entries, valence, subFolderCount) /\ (pc \in Late => Filled(entries))
  BY Zenon DEF CountInv, ChildrenOf, FoldersOf, Kids, Dirs, Fit, Filled, Late
<1>3. CountInv' <=> Fit(entries', valence', subFolderCount') /\ (pc' \in Late => Filled(entries'))
  BY Zenon DEF CountInv, ChildrenOf, FoldersOf, Kids, Dirs, Fit, Filled, Late
<1> QED
  BY <1>1, <1>2, <1>3

\* One entry more.
OneMore(es, fs, n) == Len(es) = n /\ Len(fs) = n + 1 /\ \A i \in 1 .. n : fs[i] = es[i]
Grown(es, fs, n, c) ==
    /\ n + 1 \notin Kids(es, c) /\ n + 1 \notin Dirs(es, c)
    /\ fs[n + 1].parent = c => Kids(fs, c) = Kids(es, c) \cup {n + 1}
    /\ fs[n + 1].parent # c => Kids(fs, c) = Kids(es, c)
    /\ fs[n + 1].parent = c /\ fs[n + 1].kind = "dir" => Dirs(fs, c) = Dirs(es, c) \cup {n + 1}
    /\ ~(fs[n + 1].parent = c /\ fs[n + 1].kind = "dir") => Dirs(fs, c) = Dirs(es, c)

LEMMA KidsGrow ==
    ASSUME NEW es, NEW fs, NEW n \in Nat \ {0}, OneMore(es, fs, n), NEW c
    PROVE  Grown(es, fs, n, c)
<1>0. Len(es) = n /\ Len(fs) = n + 1 /\ \A i \in 1 .. n : fs[i] = es[i]
  BY DEF OneMore
<1>1. \A i : i \in 2 .. n + 1 <=> i \in 2 .. n \/ i = n + 1
  OBVIOUS
<1>2. \A i \in 2 .. n : i # n + 1 /\ fs[i] = es[i]
  BY <1>0
<1>3. \A i : i \in Kids(fs, c) <=> \/ i \in Kids(es, c)
                                   \/ i = n + 1 /\ fs[n + 1].parent = c
  BY <1>0, <1>1, <1>2 DEF Kids
<1>4. \A i \in Kids(es, c) : i # n + 1 /\ fs[i] = es[i]
  BY <1>0, <1>2 DEF Kids
<1>5. \A i : i \in Dirs(fs, c) <=> \/ i \in Dirs(es, c)
                                   \/ i = n + 1 /\ fs[n + 1].parent = c /\ fs[n + 1].kind = "dir"
  BY <1>3, <1>4 DEF Dirs
<1>6. n + 1 \notin Kids(es, c) /\ n + 1 \notin Dirs(es, c)
  BY <1>4 DEF Dirs
<1> QED
  BY <1>3, <1>5, <1>6 DEF Grown

LEMMA CountKept ==
    ASSUME ScanTypes, FolderInv, StageInv, StackInv, NumberInv, EntriesInv, CountInv, [Next]_vars
    PROVE  CountInv'
<1>0. /\ Len(entries) \in Nat
      /\ Fit(entries, valence, subFolderCount) /\ (pc \in Late => Filled(entries))
  BY EntriesAre, CountInvIs
<1>1. ASSUME Backfill PROVE CountInv'
  <2>1. /\ Len(entries') = Len(entries) /\ valence' = valence /\ subFolderCount' = subFolderCount
        /\ entries' \in Seq(Entries)
        /\ \A i \in 1 .. Len(entries) :
              /\ SameEntry(entries'[i], entries[i])
              /\ entries[i].kind = "dir" =>
                    /\ entries'[i].valence = Cardinality(Kids(entries, entries[i].cnid))
                    /\ entries'[i].subFolders = Cardinality(Dirs(entries, entries[i].cnid))
    BY <1>1, BackfillIs, CountInvIs
  <2>2. DOMAIN entries' = 1 .. Len(entries) /\ \A i \in 2 .. Len(entries) : i \in 1 .. Len(entries)
    BY <1>0, <2>1, LenProperties
  <2>3. \A i \in 1 .. Len(entries) : /\ entries'[i].parent = entries[i].parent
                                     /\ entries'[i].kind = entries[i].kind
                                     /\ entries'[i].cnid = entries[i].cnid
    BY <2>1 DEF SameEntry
  <2>4. ASSUME NEW c PROVE Kids(entries', c) = Kids(entries, c) /\ Dirs(entries', c) = Dirs(entries, c)
    <3>1. Kids(entries', c) = Kids(entries, c)
      BY <2>1, <2>2, <2>3 DEF Kids
    <3>2. \A i \in Kids(entries, c) : entries'[i].kind = entries[i].kind
      BY <2>2, <2>3 DEF Kids
    <3> QED
      BY <3>1, <3>2 DEF Dirs
  <2>5. Filled(entries')
    BY <2>1, <2>2, <2>3, <2>4 DEF Filled
  <2>6. {entries'[i].parent : i \in 2 .. Len(entries')} = {entries[i].parent : i \in 2 .. Len(entries)}
    BY <2>1, <2>2, <2>3
  <2>7. Fit(entries', valence', subFolderCount')
    BY <1>0, <2>1, <2>4, <2>6 DEF Fit
  <2> QED
    BY <2>5, <2>7, CountInvIs
<1>2. CASE UNCHANGED <<entries, files, claimed, valence, subFolderCount>>
  <2>1. Fit(entries', valence', subFolderCount')
    BY <1>0, <1>2
  <2>2. CASE ~Backfill /\ pc' \in Late
    <3>1. pc \in Late /\ entries' = entries
      BY <2>2, LateSteps DEF Late
    <3> QED
      BY <1>0, <2>1, <3>1, CountInvIs
  <2> QED
    BY <1>1, <2>1, <2>2, CountInvIs
<1>3. CASE NameRoot
  <2>1. /\ pc = "nameRoot" /\ pc' \notin Late
        /\ valence' = valence /\ subFolderCount' = subFolderCount
        /\ \E name : entries' \in {entries, <<Entry(CNIDRootFolder, CNIDRootParent, name, "dir")>>}
    BY <1>3 DEF NameRoot, Late
  <2>2. entries = <<>>
    BY <2>1 DEF StageInv
  <2>3. Len(entries) = 0 /\ Len(entries') \in {0, 1}
    BY <2>1, <2>2
  <2>4. 2 .. Len(entries') = {} /\ 2 .. Len(entries) = {}
    <3> DEFINE m == Len(entries')
    <3>1. m \in {0, 1}
      BY <2>3
    <3> HIDE DEF m
    <3>2. 2 .. m = {}
      BY <3>1
    <3> QED
      BY <2>3, <3>2 DEF m
  <2>5. \A c : Kids(entries', c) = {} /\ Kids(entries, c) = {}
    BY <2>4 DEF Kids
  <2>6. \A c : Dirs(entries', c) = {} /\ Dirs(entries, c) = {}
    BY <2>5 DEF Dirs
  <2>7. Fit(entries', valence', subFolderCount')
    BY <1>0, <2>1, <2>4, <2>5, <2>6 DEF Fit
  <2> QED
    BY <2>1, <2>7, CountInvIs
<1>4. CASE Collect /\ pc' # "failed"
  <2> DEFINE n == Len(entries)
             p == This.parent
  <2>1. /\ Len(entries') = n + 1 /\ entries'[n + 1] = NewEntry
        /\ \A i \in 1 .. n : entries'[i] = entries[i]
        /\ NewEntry.parent = p /\ NewEntry.kind = This.kind
        /\ valence' = valence (+) SetToBag({p})
        /\ subFolderCount' = IF This.kind = "dir" THEN subFolderCount (+) SetToBag({p})
                             ELSE subFolderCount
        /\ pc' \notin Late /\ n \in Nat \ {0}
    BY <1>4, CollectIs DEF CountsAsFolder, Late
  <2>2. /\ entries'[n + 1].parent = p
        /\ entries'[n + 1].kind = This.kind
    BY <2>1
  <2> HIDE DEF p
  <2>3. ASSUME NEW c
        PROVE  /\ Count(c, valence') = Cardinality(Kids(entries', c))
               /\ Count(c, subFolderCount') = Cardinality(Dirs(entries', c))
    <3> DEFINE K == Kids(entries, c)
               D == Dirs(entries, c)
               v == Count(c, valence)
               f == Count(c, subFolderCount)
    <3>1. /\ v = Cardinality(K) /\ v \in Nat /\ f = Cardinality(D) /\ f \in Nat
          /\ IsFiniteSet(K) /\ IsFiniteSet(D)
      BY CountsAre, ChildrenFinite, CountInvIs
    <3>2. /\ n + 1 \notin K /\ n + 1 \notin D
          /\ p = c => Kids(entries', c) = K \cup {n + 1}
          /\ p # c => Kids(entries', c) = K
          /\ p = c /\ This.kind = "dir" => Dirs(entries', c) = D \cup {n + 1}
          /\ ~(p = c /\ This.kind = "dir") => Dirs(entries', c) = D
      <4>1. /\ Len(entries) = n /\ n \in Nat \ {0} /\ Len(entries') = n + 1
            /\ \A i \in 1 .. n : entries'[i] = entries[i]
        BY <2>1 DEF n
      <4>2. OneMore(entries, entries', n)
        BY <4>1 DEF OneMore
      <4> HIDE DEF n
      <4>3. Grown(entries, entries', n, c)
        BY <4>1, <4>2, KidsGrow
      <4> QED
        BY <2>2, <4>3 DEF Grown
    <3>3. \A B : Count(c, B) \in Nat =>
                    Count(c, B (+) SetToBag({p})) = Count(c, B) + IF c = p THEN 1 ELSE 0
      BY CountAdds
    <3> HIDE DEF K, D, n
    <3>4. Cardinality(K \cup {n + 1}) = Cardinality(K) + 1 /\ Cardinality(D \cup {n + 1}) = Cardinality(D) + 1
      BY <3>1, <3>2, FS_AddElement
    <3>5. Count(c, valence') = v + IF c = p THEN 1 ELSE 0
      BY <2>1, <3>1, <3>3
    <3>6. Count(c, subFolderCount') = f + IF c = p /\ This.kind = "dir" THEN 1 ELSE 0
      <4>1. CASE This.kind = "dir"
        BY <2>1, <3>1, <3>3, <4>1
      <4>2. CASE This.kind # "dir"
        BY <2>1, <3>1, <4>2
      <4> QED
        BY <4>1, <4>2
    <3> HIDE DEF v, f
    <3>7. Count(c, valence') = Cardinality(Kids(entries', c))
      BY <3>1, <3>2, <3>4, <3>5
    <3>8. Count(c, subFolderCount') = Cardinality(Dirs(entries', c))
      <4>1. CASE c = p /\ This.kind = "dir"
        BY <3>1, <3>2, <3>4, <3>6, <4>1
      <4>2. CASE ~(c = p /\ This.kind = "dir")
        <5>1. Dirs(entries', c) = D
          BY <3>2, <4>2
        <5> QED
          BY <3>1, <3>6, <4>2, <5>1
      <4> QED
        BY <4>1, <4>2
    <3> QED
      BY <3>7, <3>8
  <2>4. Fit(entries', valence', subFolderCount')
    BY <2>3 DEF Fit
  <2> QED
    BY <2>1, <2>4, CountInvIs
<1> QED
  BY <1>1, <1>2, <1>3, <1>4, EntrySteps

----------------------------------------------------------------------------
(* The files.                                                              *)

LEMMA DataFinite ==
    ASSUME ScanTypes, NEW i \in 0 .. Len(entries)
    PROVE  /\ IsFiniteSet(DataUpTo(i)) /\ Cardinality(DataUpTo(i)) \in Nat
           /\ \A j \in DataUpTo(i) : j \in 2 .. i
<1>1. i \in Nat
  BY EntriesAre
<1>2. IsFiniteSet(2 .. i) /\ DataUpTo(i) \subseteq 2 .. i
  BY <1>1, FS_Interval DEF DataUpTo
<1> QED
  BY <1>2, FS_Subset, FS_CardinalityType

\* The entries with data, and the place of their numbers among the files.
Data(es, i) == {j \in 2 .. i : HasData(es[j].kind)}
Nth(es, i) == Cardinality(Data(es, i))
Placed(es, fs) ==
    /\ Len(fs) = Nth(es, Len(es))
    /\ \A i \in Data(es, Len(es)) : Nth(es, i) \in DOMAIN fs /\ fs[Nth(es, i)] = es[i].cnid
    /\ \A m \in DOMAIN fs : \E i \in Data(es, Len(es)) : m = Nth(es, i)

LEMMA FilesInvIs ==
    /\ \A i : DataUpTo(i) = Data(entries, i)
    /\ FilesInv <=> Placed(entries, files)
    /\ FilesInv' <=> Placed(entries', files')
<1>1. \A i : DataUpTo(i) = Data(entries, i)
  BY DEF DataUpTo, Data
<1>2. FilesInv <=> Placed(entries, files)
  BY Zenon DEF FilesInv, DataUpTo, Data, Nth, Placed
<1>3. FilesInv' <=> Placed(entries', files')
  BY Zenon DEF FilesInv, DataUpTo, Data, Nth, Placed
<1> QED
  BY <1>1, <1>2, <1>3

LEMMA FilesSame ==
    ASSUME NEW es, NEW gs, NEW fs, Placed(es, fs), Len(es) \in Nat, Len(gs) \in Nat,
           2 .. Len(gs) = 2 .. Len(es),
           \A i \in 2 .. Len(es) : gs[i].kind = es[i].kind /\ gs[i].cnid = es[i].cnid
    PROVE  Placed(gs, fs)
<1> DEFINE n == Len(es)
           o == Len(gs)
<1>1. ASSUME NEW i \in 2 .. n PROVE Data(gs, i) = Data(es, i)
  <2>1. \A j \in 2 .. i : gs[j].kind = es[j].kind
    OBVIOUS
  <2> QED
    BY <2>1 DEF Data
<1>2. Data(gs, o) = Data(es, n)
  BY DEF Data
<1>3. \A i \in Data(es, n) : i \in 2 .. n
  BY DEF Data
<1>4. \A i \in Data(es, n) : Nth(gs, i) = Nth(es, i) /\ gs[i].cnid = es[i].cnid
  BY <1>1, <1>3 DEF Nth
<1>5. Nth(gs, o) = Nth(es, n)
  BY <1>2 DEF Nth
<1> QED
  BY <1>2, <1>4, <1>5 DEF Placed

LEMMA FilesGrow ==
    ASSUME NEW es, NEW gs, NEW n \in Nat \ {0}, OneMore(es, gs, n), NEW fs \in Seq(Nat),
           Placed(es, fs), gs[n + 1].cnid \in Nat
    PROVE  Placed(gs, IF HasData(gs[n + 1].kind) THEN Append(fs, gs[n + 1].cnid) ELSE fs)
<1> DEFINE D == Data(es, n)
           o == n + 1
           E == Data(gs, o)
           c == Cardinality(D)
           x == gs[o].cnid
<1>0. Len(es) = n /\ Len(gs) = o /\ o \in Nat /\ \A i \in 1 .. n : gs[i] = es[i]
  BY DEF OneMore
<1>1. \A i \in 2 .. n : gs[i] = es[i] /\ \A j \in 2 .. i : gs[j] = es[j]
  BY <1>0
<1>2. \A i \in D : i \in 2 .. n /\ Nth(gs, i) = Nth(es, i) /\ gs[i].cnid = es[i].cnid
  <2> SUFFICES ASSUME NEW i \in D PROVE i \in 2 .. n /\ Nth(gs, i) = Nth(es, i) /\ gs[i].cnid = es[i].cnid
    OBVIOUS
  <2>1. i \in 2 .. n
    BY DEF Data
  <2>2. Data(gs, i) = Data(es, i)
    BY <1>1, <2>1 DEF Data
  <2> QED
    BY <1>1, <2>1, <2>2 DEF Nth
<1>3. \A j : j \in 2 .. o <=> j \in 2 .. n \/ j = o
  OBVIOUS
<1>4. \A j \in 2 .. n : j # o
  OBVIOUS
<1>5. IsFiniteSet(D) /\ c \in Nat /\ o \notin D
  <2>1. IsFiniteSet(2 .. n) /\ D \subseteq 2 .. n
    BY FS_Interval DEF Data
  <2> QED
    BY <1>4, <2>1, FS_Subset, FS_CardinalityType
<1>6. \A j : j \in E <=> j \in D \/ (j = o /\ HasData(gs[o].kind))
  BY <1>1, <1>3 DEF Data
<1>7. /\ Len(fs) = c /\ DOMAIN fs = 1 .. c
      /\ \A i \in D : Nth(es, i) \in 1 .. c /\ fs[Nth(es, i)] = es[i].cnid
      /\ \A m \in 1 .. c : \E i \in D : m = Nth(es, i)
  <2>1. DOMAIN fs = 1 .. Len(fs) /\ Len(fs) = c
    BY <1>0, LenProperties DEF Placed, Nth
  <2> QED
    BY <1>0, <2>1 DEF Placed
<1>8. x \in Nat
  OBVIOUS
<1>9. Nth(gs, o) = Cardinality(E)
  BY DEF Nth
<1> HIDE DEF o, D, E, c, x
<1>10. CASE HasData(gs[o].kind)
  <2> DEFINE hs == Append(fs, x)
  <2>1. E = D \cup {o}
    BY <1>6, <1>10
  <2>2. Cardinality(E) = c + 1
    BY <1>5, <2>1, FS_AddElement DEF c
  <2>3. hs \in Seq(Nat) /\ Len(hs) = c + 1 /\ hs[c + 1] = x /\ \A m \in 1 .. c : hs[m] = fs[m]
    BY <1>7, <1>8, AppendProperties
  <2>4. DOMAIN hs = 1 .. c + 1
    BY <2>3, LenProperties
  <2> HIDE DEF hs
  <2>5. \A m : m \in 1 .. c + 1 <=> m \in 1 .. c \/ m = c + 1
    BY <1>5
  <2>6. ASSUME NEW i \in E PROVE Nth(gs, i) \in DOMAIN hs /\ hs[Nth(gs, i)] = gs[i].cnid
    <3>1. CASE i \in D
      BY <1>2, <1>7, <2>3, <2>4, <2>5, <3>1
    <3>2. CASE i = o
      BY <1>9, <2>2, <2>3, <2>4, <2>5, <3>2 DEF x
    <3> QED
      BY <2>1, <3>1, <3>2
  <2>7. ASSUME NEW m \in DOMAIN hs PROVE \E i \in E : m = Nth(gs, i)
    <3>1. CASE m \in 1 .. c
      BY <1>2, <1>7, <2>1, <3>1
    <3>2. CASE m = c + 1
      BY <1>9, <2>1, <2>2, <3>2
    <3> QED
      BY <2>4, <2>5, <3>1, <3>2
  <2>8. Placed(gs, hs)
    BY <1>0, <1>9, <2>2, <2>3, <2>6, <2>7 DEF Placed, E
  <2> QED
    BY <1>10, <2>8 DEF hs, x, o
<1>11. CASE ~HasData(gs[o].kind)
  <2>1. E = D
    BY <1>6, <1>11
  <2>2. Nth(gs, o) = Len(fs)
    BY <1>7, <1>9, <2>1 DEF c
  <2>3. Placed(gs, fs)
    BY <1>0, <1>2, <1>7, <2>1, <2>2 DEF Placed, E
  <2> QED
    BY <1>11, <2>3 DEF o
<1> QED
  BY <1>10, <1>11

LEMMA FilesKept ==
    ASSUME ScanTypes, FolderInv, StageInv, StackInv, NumberInv, EntriesInv, CountInv, FilesInv,
           [Next]_vars
    PROVE  FilesInv'
<1>0. Len(entries) \in Nat /\ Placed(entries, files) /\ files \in Seq(Nat)
  BY EntriesAre, FilesInvIs DEF ScanTypes
<1>1. CASE UNCHANGED <<entries, files, claimed, valence, subFolderCount>>
  <2>1. Placed(entries', files')
    BY <1>0, <1>1
  <2> QED
    BY <2>1, FilesInvIs
<1>2. CASE NameRoot
  <2>1. /\ pc = "nameRoot" /\ files' = files
        /\ \E name : entries' \in {entries, <<Entry(CNIDRootFolder, CNIDRootParent, name, "dir")>>}
    BY <1>2 DEF NameRoot
  <2>2. entries = <<>>
    BY <2>1 DEF StageInv
  <2>3. Len(entries) = 0 /\ Len(entries') \in {0, 1}
    BY <2>1, <2>2
  <2> DEFINE m == Len(entries')
  <2>4. 2 .. m = {} /\ m \in Nat
    <3>1. m \in {0, 1}
      BY <2>3
    <3> HIDE DEF m
    <3> QED
      BY <3>1
  <2>5. 2 .. Len(entries) = {}
    BY <2>3
  <2>6. Placed(entries', files)
    BY <1>0, <2>4, <2>5, FilesSame
  <2> QED
    BY <2>1, <2>6, FilesInvIs
<1>3. CASE Backfill
  <2>1. /\ Len(entries') = Len(entries) /\ files' = files
        /\ \A i \in 1 .. Len(entries) : SameEntry(entries'[i], entries[i])
    BY <1>3, BackfillIs
  <2>2. \A i \in 2 .. Len(entries) : i \in 1 .. Len(entries)
    BY <1>0
  <2>3. \A i \in 2 .. Len(entries) : entries'[i].kind = entries[i].kind /\ entries'[i].cnid = entries[i].cnid
    BY <2>1, <2>2 DEF SameEntry
  <2>4. Placed(entries', files)
    BY <1>0, <2>1, <2>3, FilesSame
  <2> QED
    BY <2>1, <2>4, FilesInvIs
<1>4. CASE Collect /\ pc' # "failed"
  <2> DEFINE n == Len(entries)
  <2>1. /\ Len(entries') = n + 1 /\ entries'[n + 1] = NewEntry
        /\ \A i \in 1 .. n : entries'[i] = entries[i]
        /\ NewEntry.cnid = This.cnid /\ NewEntry.kind = This.kind /\ NewEntry \in Entries
        /\ files' = IF HasData(This.kind) THEN Append(files, This.cnid) ELSE files
        /\ n \in Nat \ {0}
    BY <1>4, CollectIs
  <2>2. OneMore(entries, entries', n)
    BY <2>1 DEF OneMore
  <2> HIDE DEF n
  <2>3. entries'[n + 1].cnid \in Nat
    BY <2>1 DEF Entries
  <2>4. files' = IF HasData(entries'[n + 1].kind) THEN Append(files, entries'[n + 1].cnid) ELSE files
    BY <2>1
  <2>5. Placed(entries', IF HasData(entries'[n + 1].kind)
                         THEN Append(files, entries'[n + 1].cnid) ELSE files)
    BY <1>0, <2>1, <2>2, <2>3, FilesGrow
  <2> QED
    BY <2>4, <2>5, FilesInvIs
<1> QED
  BY <1>1, <1>2, <1>3, <1>4, EntrySteps

----------------------------------------------------------------------------
(* The records.                                                            *)

\* Where the entries are.
LEMMA ParentsAre ==
    ASSUME ScanTypes, NumberInv, EntriesInv, NEW i \in 1 .. Len(entries)
    PROVE  IF i = 1 THEN entries[i].parent = 1
           ELSE entries[i].parent = 2 \/ entries[i].parent >= 16
<1>1. CASE i = 1
  <2>1. entries # <<>>
    BY EmptySeq
  <2> QED
    BY <1>1, <2>1 DEF EntriesInv, CNIDRootParent
<1>2. CASE i # 1
  <2> DEFINE k == i - 1
  <2>1. i \in 2 .. Len(entries) /\ k \in 1 .. Len(pending)
    BY <1>2, EntriesAre, PendingIs DEF EntriesInv
  <2>2. entries[i].parent = pending[k].parent
    BY <2>1 DEF EntriesInv, Describes
  <2> HIDE DEF k
  <2>3. CASE Len(pending[k].path) = 1
    BY <1>2, <2>1, <2>2, <2>3, PendingIs DEF NumberInv, CNIDRootFolder
  <2>4. CASE Len(pending[k].path) # 1
    <3>1. PICK j \in 1 .. k - 1 : IsDir(j, Front(pending[k].path), pending[k].parent)
      BY <2>1, <2>4, PendingIs DEF NumberInv
    <3>2. j \in 1 .. Len(pending) /\ DOMAIN pending = 1 .. Len(pending)
      BY <2>1, <3>1, PendingIs
    <3>3. pending[k].parent = pending[j].cnid
      BY <3>1 DEF IsDir
    <3>4. pending[j].cnid = 15 + j
      BY <3>2 DEF NumberInv, CNIDFirstUser
    <3> QED
      BY <1>2, <2>2, <3>2, <3>3, <3>4
  <2> QED
    BY <2>3, <2>4
<1> QED
  BY <1>1, <1>2

\* No two records have the same key.
LEMMA KeysDiffer ==
    ASSUME ScanTypes, NumberInv, EntriesInv,
           NEW i \in 1 .. Len(entries), NEW j \in 1 .. Len(entries)
    PROVE  /\ Key(Forward(entries[i])) = Key(Forward(entries[j])) => i = j
           /\ Key(Thread(entries[i])) = Key(Thread(entries[j])) => i = j
           /\ Key(Forward(entries[i])) # Key(Thread(entries[j]))
<1>1. entries[i].name # NoName
  <2>1. CASE i = 1
    <3>1. entries # <<>>
      BY EmptySeq
    <3> QED
      BY <2>1, <3>1 DEF EntriesInv
  <2>2. CASE i # 1
    <3>1. i \in 2 .. Len(entries)
      BY <2>2, EntriesAre
    <3> QED
      BY <3>1 DEF EntriesInv, Describes
  <2> QED
    BY <2>1, <2>2
<1>2. Key(Forward(entries[i])) # Key(Thread(entries[j]))
  BY <1>1 DEF Key, Forward, Thread
<1>3. entries[i].cnid = entries[j].cnid => i = j
  BY NumbersIn, EntriesAre DEF CNIDRootFolder, CNIDFirstUser
<1>4. ASSUME entries[i].parent = entries[j].parent, entries[i].name = entries[j].name PROVE i = j
  <2>1. CASE i = 1 \/ j = 1
    BY <1>4, <2>1, ParentsAre
  <2>2. CASE i # 1 /\ j # 1
    <3>1. i \in 2 .. Len(entries) /\ j \in 2 .. Len(entries)
      BY <2>2, EntriesAre
    <3> QED
      BY <1>4, <3>1 DEF EntriesInv
  <2> QED
    BY <2>1, <2>2
<1> QED
  BY <1>2, <1>3, <1>4 DEF Key, Forward, Thread

LEMMA CatalogIs ==
    ASSUME ScanTypes, BuildCatalog
    PROVE  /\ Len(records') = 2 * Len(entries) /\ DOMAIN records' = 1 .. 2 * Len(entries)
           /\ \A i \in 1 .. Len(entries) : /\ 2 * i - 1 \in DOMAIN records' /\ 2 * i \in DOMAIN records'
                                           /\ records'[2 * i - 1] = Forward(entries[i])
                                           /\ records'[2 * i] = Thread(entries[i])
           /\ \A m \in DOMAIN records' : \E i \in 1 .. Len(entries) :
                 \/ m = 2 * i - 1 /\ records'[m] = Forward(entries[i])
                 \/ m = 2 * i /\ records'[m] = Thread(entries[i])
           /\ pc = "records" /\ UNCHANGED <<source, walking, entries>>
<1> DEFINE n == Len(entries)
           R == {Forward(entries[i]) : i \in 1 .. n} \cup {Thread(entries[i]) : i \in 1 .. n}
           ss == [i \in 1 .. n |-> <<Forward(entries[i]), Thread(entries[i])>>]
<1>1. n \in Nat /\ DOMAIN entries = 1 .. n
  BY EntriesAre
<1>2. pc = "records" /\ UNCHANGED <<source, walking, entries>> /\ records' = FlattenSeq(ss)
  BY <1>1 DEF BuildCatalog
<1>3. /\ ss \in Seq(Seq(R)) /\ Len(ss) = n
      /\ \A i \in 1 .. n : /\ Len(ss[i]) = 2 /\ ss[i][1] = Forward(entries[i])
                           /\ ss[i][2] = Thread(entries[i])
  <2>1. \A i \in 1 .. n : ss[i] = <<Forward(entries[i]), Thread(entries[i])>>
    OBVIOUS
  <2>2. \A i \in 1 .. n : Forward(entries[i]) \in R /\ Thread(entries[i]) \in R
    OBVIOUS
  <2> HIDE DEF R
  <2>3. \A i \in 1 .. n : <<Forward(entries[i]), Thread(entries[i])>> \in Seq(R)
    BY <2>2
  <2>4. ss \in [1 .. n -> Seq(R)]
    BY <2>3
  <2>5. ss \in Seq(Seq(R))
    BY <1>1, <2>4, SeqDef
  <2>6. Len(ss) = n
    BY <1>1, <2>4, <2>5, LenProperties
  <2> QED
    BY <2>1, <2>5, <2>6
<1> HIDE DEF ss, R, n
<1>4. /\ FlattenSeq(ss) \in Seq(R) /\ Len(FlattenSeq(ss)) = 2 * n
      /\ \A i \in 1 .. n : /\ FlattenSeq(ss)[2 * i - 1] = Forward(entries[i])
                           /\ FlattenSeq(ss)[2 * i] = Thread(entries[i])
  <2>1. \A i \in 1 .. Len(ss) : Len(ss[i]) = 2
    BY <1>3
  <2>2. /\ FlattenSeq(ss) \in Seq(R) /\ Len(FlattenSeq(ss)) = 2 * Len(ss)
        /\ \A i \in 1 .. Len(ss) : /\ FlattenSeq(ss)[2 * i - 1] = ss[i][1]
                                   /\ FlattenSeq(ss)[2 * i] = ss[i][2]
    BY <1>3, <2>1, FlattenPairs
  <2> QED
    BY <1>3, <2>2
<1>5. DOMAIN records' = 1 .. 2 * n
  BY <1>2, <1>4, LenProperties
<1>6. \A i \in 1 .. n : 2 * i - 1 \in 1 .. 2 * n /\ 2 * i \in 1 .. 2 * n
  BY <1>1
<1>7. ASSUME NEW m \in 1 .. 2 * n PROVE \E i \in 1 .. n : m = 2 * i - 1 \/ m = 2 * i
  <2>1. \E i \in Nat : m = 2 * i - 1 \/ m = 2 * i
    <3> DEFINE T == {l \in Nat : \E i \in Nat : l = 2 * i - 1 \/ l = 2 * i}
    <3>1. 0 \in T
      <4>1. 0 = 2 * 0
        OBVIOUS
      <4> QED
        BY <4>1
    <3>2. ASSUME NEW l \in Nat, l \in T PROVE l + 1 \in T
      <4>1. PICK i \in Nat : l = 2 * i - 1 \/ l = 2 * i
        BY <3>2
      <4> DEFINE j == i + 1
      <4>2. j \in Nat /\ l + 1 \in Nat /\ (l + 1 = 2 * i \/ l + 1 = 2 * j - 1)
        BY <3>2, <4>1
      <4> HIDE DEF j
      <4> QED
        BY <4>2
    <3>3. m \in Nat
      BY <1>1, <1>7
    <3> HIDE DEF T
    <3>4. m \in T
      BY <3>1, <3>2, <3>3, Induction
    <3> QED
      BY <3>4 DEF T
  <2>2. PICK i \in Nat : m = 2 * i - 1 \/ m = 2 * i
    BY <2>1
  <2>3. i \in 1 .. n
    BY <1>1, <1>7, <2>2
  <2> QED
    BY <2>2, <2>3
<1>8. ASSUME NEW m \in DOMAIN records'
      PROVE  \E i \in 1 .. n : \/ m = 2 * i - 1 /\ records'[m] = Forward(entries[i])
                               \/ m = 2 * i /\ records'[m] = Thread(entries[i])
  <2>1. PICK i \in 1 .. n : m = 2 * i - 1 \/ m = 2 * i
    BY <1>5, <1>7
  <2> QED
    BY <1>2, <1>4, <2>1
<1> QED
  BY <1>2, <1>4, <1>5, <1>6, <1>8 DEF n

LEMMA CatalogKept ==
    ASSUME ScanTypes, FolderInv, StageInv, NumberInv, EntriesInv, CatalogAccepts, RecordsInv, [Next]_vars
    PROVE  CatalogAccepts' /\ RecordsInv'
<1>1. CASE BuildCatalog
  <2> DEFINE n == Len(entries)
  <2>1. /\ Len(records') = 2 * n
        /\ \A i \in 1 .. n : /\ 2 * i - 1 \in DOMAIN records' /\ 2 * i \in DOMAIN records'
                             /\ records'[2 * i - 1] = Forward(entries[i])
                             /\ records'[2 * i] = Thread(entries[i])
        /\ \A m \in DOMAIN records' : \E i \in 1 .. n :
              \/ m = 2 * i - 1 /\ records'[m] = Forward(entries[i])
              \/ m = 2 * i /\ records'[m] = Thread(entries[i])
        /\ entries' = entries /\ DOMAIN entries = 1 .. n
    BY <1>1, CatalogIs, EntriesAre
  <2>2. ASSUME NEW l \in DOMAIN records', NEW m \in DOMAIN records', Key(records'[l]) = Key(records'[m])
        PROVE  l = m
    <3>1. PICK i \in 1 .. n : \/ l = 2 * i - 1 /\ records'[l] = Forward(entries[i])
                              \/ l = 2 * i /\ records'[l] = Thread(entries[i])
      BY <2>1
    <3>2. PICK j \in 1 .. n : \/ m = 2 * j - 1 /\ records'[m] = Forward(entries[j])
                              \/ m = 2 * j /\ records'[m] = Thread(entries[j])
      BY <2>1
    <3>3. /\ Key(Forward(entries[i])) = Key(Forward(entries[j])) => i = j
          /\ Key(Thread(entries[i])) = Key(Thread(entries[j])) => i = j
          /\ Key(Forward(entries[i])) # Key(Thread(entries[j]))
          /\ Key(Forward(entries[j])) # Key(Thread(entries[i]))
      BY KeysDiffer
    <3> QED
      BY <2>2, <3>1, <3>2, <3>3
  <2>3. pc' = "done"
    BY <1>1, <2>2 DEF BuildCatalog
  <2>4. ToSet(records') = {Forward(e) : e \in ToSet(entries)} \cup {Thread(e) : e \in ToSet(entries)}
    <3>1. \A m \in DOMAIN records' :
             records'[m] \in {Forward(e) : e \in ToSet(entries)} \cup {Thread(e) : e \in ToSet(entries)}
      BY <2>1 DEF ToSet
    <3>2. \A e \in ToSet(entries) : Forward(e) \in ToSet(records') /\ Thread(e) \in ToSet(records')
      BY <2>1 DEF ToSet
    <3> QED
      BY <3>1, <3>2 DEF ToSet
  <2> QED
    BY <2>1, <2>3, <2>4 DEF CatalogAccepts, RecordsInv
<1>2. CASE ~BuildCatalog
  <2>1. pc' # "refused"
    BY <1>2 DEF Next, ScanStep, Stat, NameRoot, LstatRoot, ReadDir, Visit, VisitOther, LeaveDir,
                Collect, Backfill, RootInfo, Fails, SourceChanges, ScanOver, vars, CatalogAccepts
  <2>2. CASE pc' = "done"
    <3>1. ~Backfill
      BY <2>2 DEF Backfill
    <3>2. pc = "done" /\ entries' = entries /\ records' = records
      BY <1>2, <2>2, <3>1, LateSteps
    <3> QED
      BY <2>1, <3>2 DEF RecordsInv, CatalogAccepts
  <2> QED
    BY <2>1, <2>2 DEF RecordsInv, CatalogAccepts
<1> QED
  BY <1>1, <1>2

----------------------------------------------------------------------------
(* The invariant.                                                          *)

\* For any folder and any changes of it while walk runs, with any number of names: every step
\* of walk and of BuildCatalogTree keeps the invariant.
THEOREM ScanInvCorrect == ScanSpec => []ScanInv
<1>1. ScanInit => ScanInv
  BY InitTypes, InitFolder, InitStage, InitOrder, InitNumbers, InitSeen, InitEntries DEF ScanInv
<1>2. ScanInv /\ [Next]_vars => ScanInv'
  <2> SUFFICES ASSUME ScanInv, [Next]_vars PROVE ScanInv'
    OBVIOUS
  <2>1. /\ ScanTypes /\ FolderInv /\ StageInv /\ StackInv /\ OrderInv /\ NumberInv /\ SeenInv
        /\ EntriesInv /\ CountInv /\ FilesInv /\ RecordsInv /\ CatalogAccepts
    BY DEF ScanInv
  <2>2. ScanTypes' /\ FolderInv' /\ StageInv' /\ StackInv'
    BY <2>1, TypesKept, FolderKept, StageKept, StackKept DEF Next
  <2>3. OrderInv' /\ NumberInv' /\ SeenInv'
    BY <2>1, OrderKept, NumberKept, SeenKept
  <2>4. EntriesInv' /\ CountInv' /\ FilesInv'
    BY <2>1, EntriesKept, CountKept, FilesKept
  <2>5. RecordsInv' /\ CatalogAccepts'
    BY <2>1, CatalogKept
  <2> QED
    BY <2>2, <2>3, <2>4, <2>5 DEF ScanInv
<1> QED
  BY <1>1, <1>2, PTL DEF ScanSpec, Next

\* BuildCatalogTree never finds two records with one key: walk has refused the names that
\* become one, and gives no number twice.
THEOREM CatalogAcceptsCorrect == ScanSpec => []CatalogAccepts
<1>1. ScanInv => CatalogAccepts
  BY DEF ScanInv
<1> QED
  BY <1>1, ScanInvCorrect, PTL

----------------------------------------------------------------------------
(* The counters of the catalog.                                            *)

LEMMA SameSize ==
    ASSUME NEW S, IsFiniteSet(S), NEW T, NEW f \in [S -> T],
           \A x, y \in S : f[x] = f[y] => x = y, \A y \in T : \E x \in S : f[x] = y
    PROVE  IsFiniteSet(T) /\ Cardinality(T) = Cardinality(S)
<1>1. f \in Bijection(S, T)
  BY DEF Bijection, Injection, IsInjective, Surjection
<1> QED
  BY <1>1, FS_Bijection DEF ExistsBijection

\* The numbers of the entries grow.
LEMMA NumbersGrow ==
    ASSUME ScanTypes, NumberInv, EntriesInv,
           NEW i \in 1 .. Len(entries), NEW j \in 1 .. Len(entries)
    PROVE  /\ entries[i].cnid \in Nat
           /\ i < j => entries[i].cnid < entries[j].cnid
           /\ entries[i].cnid = entries[j].cnid => i = j
           /\ entries[i].cnid = CNIDRootFolder <=> i = 1
           /\ entries[i].cnid # 1
BY NumbersIn, EntriesAre DEF CNIDRootFolder, CNIDFirstUser

\* The counters of a folder.
LEMMA ChildrenAgree ==
    ASSUME ScanTypes, NumberInv, EntriesInv, NEW i \in 1 .. Len(entries)
    PROVE  LET c == entries[i].cnid
               children == {e \in ToSet(entries) : e.parent = c}
           IN  /\ Cardinality(children) = Cardinality(ChildrenOf(c))
               /\ Cardinality({e \in children : e.kind = "dir"}) = Cardinality(FoldersOf(c))
<1> DEFINE c == entries[i].cnid
           children == {e \in ToSet(entries) : e.parent = c}
           folders == {e \in children : e.kind = "dir"}
<1>0. Len(entries) \in Nat /\ DOMAIN entries = 1 .. Len(entries) /\ c # 1
  BY EntriesAre, NumbersGrow
<1> HIDE DEF c
<1>1. \A j \in ChildrenOf(c) : j \in 1 .. Len(entries) /\ entries[j] \in children
  BY <1>0 DEF ChildrenOf, ToSet
<1>2. \A e \in children : \E j \in ChildrenOf(c) : entries[j] = e
  <2> SUFFICES ASSUME NEW e \in children PROVE \E j \in ChildrenOf(c) : entries[j] = e
    OBVIOUS
  <2>1. PICK j \in 1 .. Len(entries) : entries[j] = e
    BY <1>0 DEF ToSet
  <2>2. j # 1
    BY <1>0, <2>1, ParentsAre
  <2>3. j \in 2 .. Len(entries)
    BY <1>0, <2>2
  <2> QED
    BY <2>1, <2>3 DEF ChildrenOf
<1>3. \A j, k \in ChildrenOf(c) : entries[j] = entries[k] => j = k
  BY <1>1, NumbersGrow
<1>4. IsFiniteSet(ChildrenOf(c)) /\ IsFiniteSet(FoldersOf(c))
  BY ChildrenFinite
<1>5. Cardinality(children) = Cardinality(ChildrenOf(c))
  <2> DEFINE f == [j \in ChildrenOf(c) |-> entries[j]]
  <2>1. f \in [ChildrenOf(c) -> children]
    BY <1>1
  <2>2. \A j, k \in ChildrenOf(c) : f[j] = f[k] => j = k
    BY <1>3
  <2>3. \A e \in children : \E j \in ChildrenOf(c) : f[j] = e
    BY <1>2
  <2> HIDE DEF f, children
  <2> QED
    BY <1>4, <2>1, <2>2, <2>3, SameSize
<1>6. Cardinality(folders) = Cardinality(FoldersOf(c))
  <2> DEFINE f == [j \in FoldersOf(c) |-> entries[j]]
  <2>1. f \in [FoldersOf(c) -> folders]
    BY <1>1 DEF FoldersOf
  <2>2. \A j, k \in FoldersOf(c) : f[j] = f[k] => j = k
    BY <1>3 DEF FoldersOf
  <2>3. \A e \in folders : \E j \in FoldersOf(c) : f[j] = e
    BY <1>2 DEF FoldersOf
  <2> HIDE DEF f, folders
  <2> QED
    BY <1>4, <2>1, <2>2, <2>3, SameSize
<1> QED
  BY <1>5, <1>6 DEF c

\* The counters of the volume.
LEMMA TotalsAgree ==
    ASSUME ScanTypes, NumberInv, EntriesInv, entries # <<>>
    PROVE  FileCount + FolderCount + 1 = Len(entries)
<1> DEFINE n == Len(entries)
           F == {i \in DOMAIN entries : entries[i].kind # "dir"}
           G == {i \in DOMAIN entries : entries[i].kind = "dir" /\ entries[i].cnid # CNIDRootFolder}
<1>1. n \in Nat \ {0} /\ DOMAIN entries = 1 .. n
  BY EntriesAre, EmptySeq DEF ScanTypes
<1>2. IsFiniteSet(1 .. n) /\ Cardinality(1 .. n) = n
  BY <1>1, FS_Interval
<1>3. 1 \in 1 .. n /\ entries[1].kind = "dir" /\ entries[1].cnid = CNIDRootFolder
  BY <1>1 DEF EntriesInv
<1>4. (1 .. n) \ {1} = F \cup G
  BY <1>1, <1>3, NumbersGrow
<1>5. F \cap G = {}
  OBVIOUS
<1>6. IsFiniteSet(F) /\ IsFiniteSet(G)
  BY <1>1, <1>2, FS_Subset
<1>7. Cardinality((1 .. n) \ {1}) = n - 1
  BY <1>2, <1>3, FS_RemoveElement
<1>8. FileCount = Cardinality(F) /\ FolderCount = Cardinality(G)
  BY DEF FileCount, FolderCount
<1> HIDE DEF F, G, n
<1>9. Cardinality(F \cup G) = Cardinality(F) + Cardinality(G) - Cardinality(F \cap G)
  BY <1>6, FS_Union
<1>10. Cardinality(F \cap G) = 0 /\ Cardinality(F) \in Nat /\ Cardinality(G) \in Nat
  BY <1>5, <1>6, FS_EmptySet, FS_CardinalityType
<1> DEFINE f == Cardinality(F)
           g == Cardinality(G)
<1>11. n - 1 = f + g - Cardinality(F \cap G) /\ n \in Nat
  BY <1>1, <1>4, <1>7, <1>9
<1>12. f \in Nat /\ g \in Nat /\ Cardinality(F \cap G) = 0
  BY <1>10
<1>13. FileCount = f /\ FolderCount = g
  BY <1>8
<1> HIDE DEF f, g
<1>14. f + g + 1 = n
  BY <1>11, <1>12
<1> QED
  BY <1>13, <1>14 DEF n

LEMMA NextIsNew ==
    ASSUME ScanTypes, NumberInv, EntriesInv, entries # <<>>, NEW i \in 1 .. Len(entries)
    PROVE  entries[i].cnid < NextCatalogID
<1> DEFINE n == Len(entries)
           S == {entries[j].cnid : j \in DOMAIN entries}
<1>1. n \in 1 .. n /\ DOMAIN entries = 1 .. n
  BY EntriesAre
<1>2. S \subseteq Nat /\ \A j \in 1 .. n : entries[j].cnid \in S
  BY <1>1, NumbersGrow
<1>3. \A y \in S : entries[n].cnid >= y
  <2> SUFFICES ASSUME NEW j \in 1 .. n PROVE entries[n].cnid >= entries[j].cnid
    BY <1>1
  <2>3. n \in Nat
    BY EntriesAre
  <2>1. j = n \/ j < n
    <3> HIDE DEF n
    <3> QED
      BY <2>3
  <2>2. entries[j].cnid \in Nat /\ entries[n].cnid \in Nat /\ (j < n => entries[j].cnid < entries[n].cnid)
    BY <1>1, NumbersGrow
  <2> QED
    BY <2>1, <2>2
<1> HIDE DEF S, n
<1>4. Max(S) \in S /\ \A y \in S : Max(S) >= y
  BY <1>1, <1>2, <1>3 DEF Max
<1>5. entries[i].cnid \in S
  BY <1>2 DEF n
<1>6. entries[i].cnid \in Nat /\ Max(S) \in Nat /\ Max(S) >= entries[i].cnid
  BY <1>2, <1>4, <1>5
<1> QED
  BY <1>6 DEF NextCatalogID, S

\* The valence and the folder count that walk fills in are those of the catalog's records, so
\* are the totals BuildPlan puts into the volume header, and nextCatalogID is not in use.
THEOREM CountsAgreeCorrect == ScanSpec => []CountsAgree
<1>1. ScanInv => CountsAgree
  <2> SUFFICES ASSUME ScanInv, pc = "done" PROVE CountsAgree
    BY DEF CountsAgree
  <2>1. ScanTypes /\ NumberInv /\ EntriesInv /\ entries # <<>> /\ CountInv /\ RecordsInv
    BY DEF ScanInv, StageInv
  <2>2. ASSUME NEW e \in ToSet(entries), e.kind = "dir"
        PROVE  LET children == {c \in ToSet(entries) : c.parent = e.cnid}
               IN  /\ e.valence = Cardinality(children)
                   /\ e.subFolders = Cardinality({c \in children : c.kind = "dir"})
    <3>1. PICK i \in 1 .. Len(entries) : e = entries[i]
      BY <2>1, EntriesAre DEF ToSet
    <3>2. i \in DOMAIN entries
      BY <2>1, EntriesAre
    <3>3. /\ e.valence = Cardinality(ChildrenOf(e.cnid))
          /\ e.subFolders = Cardinality(FoldersOf(e.cnid))
      BY <2>1, <2>2, <3>1, <3>2 DEF CountInv
    <3> QED
      BY <2>1, <3>1, <3>3, ChildrenAgree
  <2>3. 2 * (FileCount + FolderCount + 1) = Len(records)
    BY <2>1, TotalsAgree DEF RecordsInv
  <2>4. \A e \in ToSet(entries) : e.cnid < NextCatalogID
    BY <2>1, EntriesAre, NextIsNew DEF ToSet
  <2> QED
    BY <2>2, <2>3, <2>4 DEF CountsAgree
<1> QED
  BY <1>1, ScanInvCorrect, PTL

----------------------------------------------------------------------------
(* What a path leads to.                                                   *)

\* One name further, from some folders.
Further(folders, name) == UNION {{r.entry.cnid : r \in Find(c, name)} : c \in folders}
Leads(f, path) == /\ f[0] = {CNIDRootFolder}
                  /\ \A i \in 1 .. Len(path) : f[i] = Further(f[i - 1], Nfd[path[i]])

LEMMA ReachedIs ==
    ASSUME NEW path \in Seq(Names)
    PROVE  \E f : Leads(f, path) /\ Reached(path) = f[Len(path)]
<1> DEFINE n == Len(path)
           at[i \in 0 .. Len(path)] ==
               IF i = 0 THEN {CNIDRootFolder}
               ELSE UNION {{r.entry.cnid : r \in Find(c, Nfd[path[i]])} : c \in at[i - 1]}
           Is(f) == f = [i \in 0 .. Len(path) |->
                           IF i = 0 THEN {CNIDRootFolder}
                           ELSE UNION {{r.entry.cnid : r \in Find(c, Nfd[path[i]])} : c \in f[i - 1]}]
           Cnids == {CNIDRootFolder} \cup {r.entry.cnid : r \in ToSet(records)}
           X == SUBSET Cnids
           g == [p \in Nat \X X |-> Further(p[2], Nfd[path[p[1] + 1]])]
<1>0. n \in Nat
  BY LenProperties
<1>1. {CNIDRootFolder} \in X /\ \A S, x : Further(S, x) \in X
  BY DEF Further, Find
<1> HIDE DEF X
<1>2. g \in [Nat \X X -> X] /\ \A i \in Nat : \A S \in X : g[<<i, S>>] = Further(S, Nfd[path[i + 1]])
  BY <1>1
<1> HIDE DEF g
<1>3. PICK f : Iterates(f, X, {CNIDRootFolder}, g)
  BY <1>1, <1>2, Recursion, Zenon
<1>4. ASSUME NEW i \in 1 .. n PROVE f[i] = Further(f[i - 1], Nfd[path[i]])
  <2> DEFINE j == i - 1
  <2>1. j \in Nat /\ j + 1 = i
    BY <1>0
  <2> HIDE DEF j
  <2>2. f[j + 1] = g[<<j, f[j]>>] /\ f[j] \in X
    BY <1>3, <2>1 DEF Iterates
  <2>3. g[<<j, f[j]>>] = Further(f[j], Nfd[path[j + 1]])
    BY <1>2, <2>1, <2>2, Zenon
  <2>4. f[i] = Further(f[j], Nfd[path[i]])
    BY <2>1, <2>2, <2>3
  <2> QED
    BY <2>4 DEF j
<1> DEFINE h == [i \in 0 .. n |-> f[i]]
<1>5. Is(h)
  <2>1. ASSUME NEW i \in 0 .. n
        PROVE  h[i] = IF i = 0 THEN {CNIDRootFolder}
                      ELSE UNION {{r.entry.cnid : r \in Find(c, Nfd[path[i]])} : c \in h[i - 1]}
    <3>1. CASE i = 0
      BY <1>3, <3>1 DEF Iterates
    <3>2. CASE i # 0
      <4>1. i \in 1 .. n /\ i - 1 \in 0 .. n
        BY <1>0, <3>2
      <4>2. h[i] = f[i] /\ h[i - 1] = f[i - 1]
        BY <4>1
      <4> HIDE DEF h
      <4>3. h[i] = Further(h[i - 1], Nfd[path[i]])
        BY <1>4, <4>1, <4>2, Zenon
      <4> QED
        BY <3>2, <4>3 DEF Further
    <3> QED
      BY <3>1, <3>2
  <2> QED
    BY <2>1
<1>6. Is(at)
  <2> HIDE DEF h
  <2> QED
    BY <1>5, Zenon
<1>7. ASSUME NEW f1, Is(f1) PROVE Leads(f1, path)
  <2> DEFINE F == [i \in 0 .. Len(path) |->
                      IF i = 0 THEN {CNIDRootFolder}
                      ELSE UNION {{r.entry.cnid : r \in Find(c, Nfd[path[i]])} : c \in f1[i - 1]}]
  <2>1. F[0] = {CNIDRootFolder}
    BY <1>0
  <2>2. ASSUME NEW i \in 1 .. n PROVE F[i] = Further(f1[i - 1], Nfd[path[i]])
    <3>1. i \in 0 .. n /\ i # 0
      BY <1>0
    <3> QED
      BY <3>1 DEF Further
  <2>3. f1 = F
    BY <1>7
  <2> HIDE DEF F
  <2> QED
    BY <2>1, <2>2, <2>3 DEF Leads
<1> HIDE DEF at, Is
<1>8. Leads(at, path)
  BY <1>6, <1>7
<1>9. Reached(path) = at[Len(path)]
  BY Zenon DEF Reached, at
<1> QED
  BY <1>8, <1>9

\* The last name leads further from where the directory's path leads.
LEMMA ReachedFurther ==
    ASSUME NEW path \in Seq(Names), path # Root
    PROVE  Reached(path) = Further(Reached(Front(path)), Nfd[Last(path)])
<1> DEFINE n == Len(path)
           d == Front(path)
           l == n - 1
<1>1. /\ n \in Nat \ {0} /\ d \in Seq(Names) /\ Len(d) = l /\ l \in Nat /\ l + 1 = n
      /\ \A m \in 1 .. l : d[m] = path[m]
      /\ Last(path) = path[n]
  BY FrontIs
<1>2. PICK f : Leads(f, path) /\ Reached(path) = f[n]
  BY ReachedIs
<1>3. PICK h : Leads(h, d) /\ Reached(d) = h[Len(d)]
  BY <1>1, ReachedIs
<1> HIDE DEF n, d, l
<1> DEFINE T == {i \in Nat : i <= l => f[i] = h[i]}
<1>4. 0 \in T
  BY <1>2, <1>3 DEF Leads
<1>5. ASSUME NEW i \in Nat, i \in T PROVE i + 1 \in T
  <2> SUFFICES ASSUME i + 1 <= l PROVE f[i + 1] = h[i + 1]
    OBVIOUS
  <2> DEFINE j == i + 1
  <2>1. j \in 1 .. Len(path) /\ j \in 1 .. Len(d) /\ j - 1 = i /\ d[j] = path[j]
    BY <1>1 DEF n
  <2>2. f[i] = h[i]
    BY <1>1, <1>5
  <2> HIDE DEF j
  <2>3. f[j] = Further(f[j - 1], Nfd[path[j]]) /\ h[j] = Further(h[j - 1], Nfd[d[j]])
    BY <1>2, <1>3, <2>1, Zenon DEF Leads
  <2>4. f[j] = h[j]
    BY <2>1, <2>2, <2>3
  <2> QED
    BY <2>4 DEF j
<1>6. Nat \subseteq T
  <2> HIDE DEF T
  <2> QED
    BY <1>4, <1>5, Induction
<1>7. f[l] = Reached(d)
  BY <1>1, <1>3, <1>6
<1>8. n \in 1 .. Len(path) /\ n - 1 = l
  BY <1>1 DEF n
<1>9. f[n] = Further(f[n - 1], Nfd[path[n]])
  BY <1>2, <1>8, Zenon DEF Leads
<1> QED
  BY <1>1, <1>2, <1>7, <1>8, <1>9 DEF d

LEMMA ReachedRoot == Reached(Root) = {CNIDRootFolder}
<1>1. Root \in Seq(Names) /\ Len(Root) = 0
  BY DEF Root
<1>2. PICK f : Leads(f, Root) /\ Reached(Root) = f[Len(Root)]
  BY <1>1, ReachedIs
<1> QED
  BY <1>1, <1>2 DEF Leads

\* There is one record under each key.
LEMMA FindIs ==
    ASSUME ScanInv, pc = "done", NEW i \in 1 .. Len(entries)
    PROVE  /\ Find(entries[i].parent, entries[i].name) = {Forward(entries[i])}
           /\ Find(entries[i].cnid, NoName) = {Thread(entries[i])}
<1>1. /\ ScanTypes /\ NumberInv /\ EntriesInv
      /\ ToSet(records) = {Forward(e) : e \in ToSet(entries)} \cup {Thread(e) : e \in ToSet(entries)}
  BY DEF ScanInv, RecordsInv
<1>2. ToSet(entries) = {entries[j] : j \in 1 .. Len(entries)}
  BY <1>1, EntriesAre DEF ToSet
<1>3. ASSUME NEW r \in ToSet(records)
      PROVE  \E j \in 1 .. Len(entries) : r = Forward(entries[j]) \/ r = Thread(entries[j])
  BY <1>1, <1>2
<1>4. Forward(entries[i]) \in ToSet(records) /\ Thread(entries[i]) \in ToSet(records)
  BY <1>1, <1>2
<1>5. ASSUME NEW r \in ToSet(records), r.parent = entries[i].parent, r.name = entries[i].name
      PROVE  r = Forward(entries[i])
  <2>1. Key(r) = Key(Forward(entries[i]))
    BY <1>5 DEF Key, Forward
  <2>2. PICK j \in 1 .. Len(entries) : r = Forward(entries[j]) \/ r = Thread(entries[j])
    BY <1>3
  <2> QED
    BY <1>1, <2>1, <2>2, KeysDiffer
<1>6. ASSUME NEW r \in ToSet(records), r.parent = entries[i].cnid, r.name = NoName
      PROVE  r = Thread(entries[i])
  <2>1. Key(r) = Key(Thread(entries[i]))
    BY <1>6 DEF Key, Thread
  <2>2. PICK j \in 1 .. Len(entries) : r = Forward(entries[j]) \/ r = Thread(entries[j])
    BY <1>3
  <2> QED
    BY <1>1, <2>1, <2>2, KeysDiffer
<1>7. /\ Forward(entries[i]).parent = entries[i].parent /\ Forward(entries[i]).name = entries[i].name
      /\ Thread(entries[i]).parent = entries[i].cnid /\ Thread(entries[i]).name = NoName
  BY DEF Forward, Thread
<1>8. Find(entries[i].parent, entries[i].name) = {Forward(entries[i])}
  BY <1>4, <1>5, <1>7 DEF Find
<1>9. Find(entries[i].cnid, NoName) = {Thread(entries[i])}
  BY <1>4, <1>6, <1>7 DEF Find
<1> QED
  BY <1>8, <1>9

\* The entry of each object.
LEMMA EntryOf ==
    ASSUME ScanInv, pc = "done", NEW k \in 1 .. Len(pending)
    PROVE  /\ k + 1 \in 1 .. Len(entries) /\ Len(entries) = Len(pending) + 1
           /\ entries[k + 1].cnid = pending[k].cnid /\ entries[k + 1].parent = pending[k].parent
           /\ entries[k + 1].kind = pending[k].kind
           /\ entries[k + 1].name = Nfd[Last(pending[k].path)]
<1>1. Len(pending) \in Nat /\ Len(entries) = Len(pending) + 1
  BY PendingIs DEF ScanInv, StageInv
<1> DEFINE i == k + 1
<1>2. i \in 1 .. Len(entries) /\ i \in 2 .. Len(entries) /\ i - 1 = k
  BY <1>1
<1> HIDE DEF i
<1>3. Describes(entries[i], pending[i - 1])
  BY <1>2 DEF ScanInv, EntriesInv
<1> QED
  BY <1>1, <1>2, <1>3 DEF Describes, i

LEMMA PathLeads ==
    ASSUME ScanInv, pc = "done"
    PROVE  \A k \in 1 .. Len(pending) : /\ Reached(pending[k].path) = {pending[k].cnid}
                                        /\ Reached(Front(pending[k].path)) = {pending[k].parent}
<1> DEFINE Resolves(k) == /\ Reached(pending[k].path) = {pending[k].cnid}
                          /\ Reached(Front(pending[k].path)) = {pending[k].parent}
           B == {k \in 1 .. Len(pending) : ~Resolves(k)}
<1>0. ScanTypes /\ NumberInv
  BY DEF ScanInv
<1> SUFFICES ASSUME B # {} PROVE FALSE
  OBVIOUS
<1>1. B \in SUBSET Nat
  OBVIOUS
<1>2. PICK k \in B : \A j \in B : k <= j
  <2> HIDE DEF B
  <2> QED
    BY <1>1, LeastElement
<1>3. k \in 1 .. Len(pending) /\ ~Resolves(k) /\ \A j \in 1 .. k - 1 : Resolves(j)
  <2>1. k \in 1 .. Len(pending) /\ ~Resolves(k)
    OBVIOUS
  <2>2. ASSUME NEW j \in 1 .. k - 1 PROVE Resolves(j)
    <3> DEFINE n == Len(pending)
    <3>2. n \in Nat /\ k \in 1 .. n
      BY <1>0, <2>1, PendingIs
    <3> HIDE DEF n
    <3>3. j \in 1 .. n /\ ~(k <= j)
      BY <3>2
    <3>1. j \in 1 .. Len(pending) /\ ~(k <= j)
      BY <3>3 DEF n
    <3> HIDE DEF Resolves
    <3> QED
      BY <1>2, <3>1
  <2> QED
    BY <2>1, <2>2
<1> DEFINE p == pending[k].path
           e == entries[k + 1]
<1>4. /\ p \in Seq(Names) /\ p # Root /\ (Front(p) = Root <=> Len(p) = 1)
  BY <1>0, <1>3, PendingIs, FrontIs
<1>5. Reached(Front(p)) = {pending[k].parent}
  <2>1. CASE Len(p) = 1
    <3>1. pending[k].parent = CNIDRootFolder
      BY <1>0, <1>3, <2>1, PendingIs DEF NumberInv
    <3> QED
      BY <1>4, <2>1, <3>1, ReachedRoot
  <2>2. CASE Len(p) # 1
    <3>1. PICK j \in 1 .. k - 1 : IsDir(j, Front(p), pending[k].parent)
      BY <1>0, <1>3, <2>2, PendingIs DEF NumberInv
    <3>2. Reached(pending[j].path) = {pending[j].cnid}
      BY <1>3
    <3> QED
      BY <3>1, <3>2 DEF IsDir
  <2> QED
    BY <2>1, <2>2
<1>6. /\ e.cnid = pending[k].cnid /\ e.parent = pending[k].parent /\ e.name = Nfd[Last(p)]
      /\ Find(e.parent, e.name) = {Forward(e)}
  BY <1>3, EntryOf, FindIs
<1>7. Forward(e).entry.cnid = pending[k].cnid
  BY <1>6 DEF Forward
<1> HIDE DEF e, p
<1>8. Further({pending[k].parent}, Nfd[Last(p)]) = {pending[k].cnid}
  BY <1>6, <1>7 DEF Further
<1>9. Reached(p) = {pending[k].cnid}
  BY <1>4, <1>5, <1>8, ReachedFurther
<1> QED
  BY <1>3, <1>5, <1>9 DEF p

\* Whatever changes between the two passes of walk, the forward records lead down a path to
\* the one object found under it, and its thread record leads back up.
THEOREM PathsResolveCorrect == ScanSpec => []PathsResolve
<1>1. ScanInv => PathsResolve
  <2> SUFFICES ASSUME ScanInv, pc = "done", NEW k \in DOMAIN pending
               PROVE  LET path == pending[k].path
                      IN  /\ Reached(path) = {pending[k].cnid}
                          /\ \A r \in Find(pending[k].cnid, NoName) :
                                {r.entry.parent} = Reached(Front(path)) /\ r.entry.name = Nfd[Last(path)]
                          /\ Find(pending[k].cnid, NoName) # {}
    BY DEF PathsResolve
  <2>1. k \in 1 .. Len(pending)
    BY PendingIs DEF ScanInv
  <2>2. /\ Reached(pending[k].path) = {pending[k].cnid}
        /\ Reached(Front(pending[k].path)) = {pending[k].parent}
    BY <2>1, PathLeads
  <2> DEFINE e == entries[k + 1]
  <2>3. /\ e.cnid = pending[k].cnid /\ e.parent = pending[k].parent
        /\ e.name = Nfd[Last(pending[k].path)]
        /\ Find(e.cnid, NoName) = {Thread(e)}
    BY <2>1, EntryOf, FindIs
  <2>4. Thread(e).entry = e
    BY DEF Thread
  <2> HIDE DEF e
  <2> QED
    BY <2>2, <2>3, <2>4
<1> QED
  BY <1>1, ScanInvCorrect, PTL

----------------------------------------------------------------------------
(* The scan implements Archive.                                            *)

LEMMA SamePrefix ==
    ASSUME NEW p \in Seq(Names), NEW q \in Seq(Names), NEW n \in Nat, n <= Len(p), n <= Len(q)
    PROVE  SubSeq(p, 1, n) = SubSeq(q, 1, n) <=> \A m \in 1 .. n : p[m] = q[m]
<1> DEFINE s == SubSeq(p, 1, n)
           t == SubSeq(q, 1, n)
<1>1. n \in 0 .. Len(p) /\ n \in 0 .. Len(q)
  BY LenProperties
<1>2. /\ s \in Seq(Names) /\ Len(s) = n /\ \A m \in 1 .. n : s[m] = p[m]
      /\ t \in Seq(Names) /\ Len(t) = n /\ \A m \in 1 .. n : t[m] = q[m]
  BY <1>1, PrefixIs
<1> HIDE DEF s, t
<1>3. ASSUME \A m \in 1 .. n : p[m] = q[m] PROVE s = t
  <2>1. \A m \in 1 .. n : s[m] = t[m]
    BY <1>2, <1>3
  <2> QED
    BY <1>2, <2>1, SeqEqual
<1>4. ASSUME s = t PROVE \A m \in 1 .. n : p[m] = q[m]
  BY <1>2, <1>4
<1> QED
  BY <1>3, <1>4 DEF s, t

LEMMA BeforeIs ==
    ASSUME NEW p \in Seq(Names), NEW q \in Seq(Names)
    PROVE  TheArchive!Before(p, q) <=> Earlier(p, q)
<1>1. /\ Len(p) \in Nat /\ Len(q) \in Nat
      /\ DOMAIN p = 1 .. Len(p) /\ DOMAIN q = 1 .. Len(q)
  BY LenProperties
<1>2. Len(p) < Len(q) => (IsPrefix(p, q) <=> Above(p, q))
  <2> SUFFICES ASSUME Len(p) < Len(q) PROVE IsPrefix(p, q) <=> Above(p, q)
    OBVIOUS
  <2>1. Len(p) <= Len(p) /\ Len(p) <= Len(q)
    BY <1>1
  <2>2. SubSeq(p, 1, Len(p)) = SubSeq(q, 1, Len(p)) <=> \A m \in 1 .. Len(p) : p[m] = q[m]
    BY <1>1, <2>1, SamePrefix
  <2>3. IsPrefix(p, q) <=> SubSeq(p, 1, Len(p)) = SubSeq(q, 1, Len(p))
    BY <2>1 DEF IsPrefix
  <2> QED
    BY <2>1, <2>2, <2>3 DEF Above
<1>3. ASSUME NEW i \in 1 .. Len(p), i <= Len(q)
      PROVE  SubSeq(p, 1, i - 1) = SubSeq(q, 1, i - 1) <=> \A m \in 1 .. i - 1 : p[m] = q[m]
  <2> DEFINE n == i - 1
  <2>1. n \in Nat /\ n <= Len(p) /\ n <= Len(q)
    BY <1>1, <1>3
  <2> HIDE DEF n
  <2>2. SubSeq(p, 1, n) = SubSeq(q, 1, n) <=> \A m \in 1 .. n : p[m] = q[m]
    BY <2>1, SamePrefix
  <2> QED
    BY <2>2 DEF n
<1>4. \A i : i \in DOMAIN p \cap DOMAIN q <=> i \in 1 .. Len(p) /\ i <= Len(q)
  BY <1>1
<1>5. TheArchive!Before(p, q) <=>
         \/ Len(p) < Len(q) /\ IsPrefix(p, q)
         \/ \E i \in DOMAIN p \cap DOMAIN q :
               p[i] < q[i] /\ SubSeq(p, 1, i - 1) = SubSeq(q, 1, i - 1)
  BY DEF TheArchive!Before, TheArchive!IsPrefix, IsPrefix
<1>6. (\E i \in DOMAIN p \cap DOMAIN q : p[i] < q[i] /\ SubSeq(p, 1, i - 1) = SubSeq(q, 1, i - 1))
      <=> \E i \in 1 .. Len(p) : /\ i <= Len(q) /\ p[i] < q[i]
                                 /\ \A m \in 1 .. i - 1 : p[m] = q[m]
  BY <1>3, <1>4
<1> QED
  BY <1>2, <1>5, <1>6 DEF Earlier

\* What the catalog holds for an object of the first pass.
DataOf(k) == IF HasData(pending[k].kind) THEN Cardinality(DataUpTo(k + 1)) ELSE 0
Object(k) == [path |-> pending[k].path, kind |-> pending[k].kind, cnid |-> pending[k].cnid,
              data |-> DataOf(k)]
TheObjects == {Object(k) : k \in DOMAIN pending}

LEMMA PlaceIs ==
    ASSUME ScanInv, pc = "done", NEW k \in 1 .. Len(pending)
    PROVE  (IF PlaceOf(pending[k].cnid) = {} THEN 0 ELSE Min(PlaceOf(pending[k].cnid))) = DataOf(k)
<1> DEFINE c == pending[k].cnid
           i == k + 1
           n == Len(entries)
           m == Cardinality(DataUpTo(i))
<1>1. /\ i \in 1 .. n /\ i \in 2 .. n /\ entries[i].cnid = c /\ entries[i].kind = pending[k].kind
      /\ n \in Nat
  BY EntryOf, PendingIs DEF ScanInv
<1>2. ScanTypes /\ NumberInv /\ EntriesInv /\ FilesInv
  BY DEF ScanInv
<1> HIDE DEF i
<1>3. i \in DataUpTo(n) <=> HasData(pending[k].kind)
  BY <1>1 DEF DataUpTo
<1>4. ASSUME NEW x \in DOMAIN files, files[x] = c PROVE i \in DataUpTo(n) /\ x = m
  <2>1. PICK j \in DataUpTo(n) : x = Cardinality(DataUpTo(j))
    BY <1>2 DEF FilesInv
  <2>2. files[x] = entries[j].cnid /\ j \in 1 .. n
    BY <1>1, <1>2, <2>1 DEF FilesInv, DataUpTo
  <2>3. j = i
    BY <1>1, <1>2, <1>4, <2>2, NumbersGrow
  <2> QED
    BY <2>1, <2>3
<1>5. CASE HasData(pending[k].kind)
  <2>1. m \in DOMAIN files /\ files[m] = c
    BY <1>1, <1>2, <1>3, <1>5 DEF FilesInv
  <2>2. PlaceOf(c) = {m}
    BY <1>4, <2>1 DEF PlaceOf
  <2>3. m \in Nat
    BY <1>1, <1>2, DataFinite
  <2> HIDE DEF m
  <2>4. Min({m}) = m
    BY <2>3 DEF Min
  <2> QED
    BY <1>5, <2>2, <2>4 DEF DataOf, m, i
<1>6. CASE ~HasData(pending[k].kind)
  <2>1. PlaceOf(c) = {}
    BY <1>3, <1>4, <1>6 DEF PlaceOf
  <2> QED
    BY <1>6, <2>1 DEF DataOf
<1> QED
  BY <1>5, <1>6

LEMMA ArchivedIs ==
    ASSUME ScanInv, pc = "done"
    PROVE  UNION {Archived(pending[k].path) : k \in DOMAIN pending} = TheObjects
<1>1. ASSUME NEW k \in DOMAIN pending PROVE Archived(pending[k].path) = {Object(k)}
  <2>1. k \in 1 .. Len(pending)
    BY PendingIs DEF ScanInv
  <2> DEFINE p == pending[k].path
             c == pending[k].cnid
             e == entries[k + 1]
  <2>2. Reached(p) = {c}
    BY <2>1, PathLeads
  <2>3. e.cnid = c /\ e.kind = pending[k].kind /\ Find(e.cnid, NoName) = {Thread(e)}
    BY <2>1, EntryOf, FindIs
  <2>4. Thread(e).entry.kind = pending[k].kind
    BY <2>3 DEF Thread
  <2>5. (IF PlaceOf(c) = {} THEN 0 ELSE Min(PlaceOf(c))) = DataOf(k)
    BY <2>1, PlaceIs
  <2> HIDE DEF p, c, e
  <2>6. Archived(p) = {[path |-> p, kind |-> Thread(e).entry.kind, cnid |-> c, data |-> DataOf(k)]}
    BY <2>2, <2>3, <2>5 DEF Archived
  <2> QED
    BY <2>4, <2>6 DEF Object, p, c
<1> QED
  BY <1>1 DEF TheObjects

\* Of two objects the first found comes before the other.
LEMMA OrderOfObjects ==
    ASSUME ScanInv, NEW j \in 1 .. Len(pending), NEW k \in 1 .. Len(pending)
    PROVE  /\ TheArchive!Before(Object(j).path, Object(k).path) <=> j < k
           /\ Object(j) = Object(k) <=> j = k
           /\ Object(k).cnid = 15 + k
           /\ TheArchive!HasContent(Object(k)) <=> HasData(pending[k].kind)
<1>0. ScanTypes /\ OrderInv /\ NumberInv
  BY DEF ScanInv
<1>1. /\ DOMAIN pending = 1 .. Len(pending) /\ Len(pending) \in Nat
      /\ pending[j].path \in Seq(Names) /\ pending[k].path \in Seq(Names)
  BY <1>0, PendingIs DEF Finds
<1>2. pending[j].cnid = 15 + j /\ pending[k].cnid = 15 + k
  BY <1>0, <1>1 DEF NumberInv, CNIDFirstUser
<1>3. /\ Object(j).path = pending[j].path /\ Object(k).path = pending[k].path
      /\ Object(j).cnid = pending[j].cnid /\ Object(k).cnid = pending[k].cnid
      /\ Object(k).kind = pending[k].kind
  BY DEF Object
<1>4. Earlier(pending[j].path, pending[k].path) <=> j < k
  <2>1. CASE j < k
    BY <1>0, <1>1, <2>1 DEF OrderInv
  <2>2. CASE k < j
    <3>1. Earlier(pending[k].path, pending[j].path)
      BY <1>0, <1>1, <2>2 DEF OrderInv
    <3> QED
      BY <1>1, <2>2, <3>1, EarlierStrict
  <2>3. CASE j = k
    BY <1>1, <2>3, EarlierStrict
  <2> QED
    BY <2>1, <2>2, <2>3
<1>5. TheArchive!Before(pending[j].path, pending[k].path) <=> Earlier(pending[j].path, pending[k].path)
  BY <1>1, BeforeIs
<1>6. Object(j) = Object(k) <=> j = k
  BY <1>2, <1>3
<1>7. TheArchive!HasContent(Object(k)) <=> HasData(pending[k].kind)
  BY <1>3 DEF TheArchive!HasContent, HasData
<1> QED
  BY <1>2, <1>3, <1>4, <1>5, <1>6, <1>7

\* Archive's number of the elements of a set is that of the library.
LEMMA SizeIs ==
    ASSUME NEW S
    PROVE  TheArchive!Cardinality(S) = Cardinality(S)
BY Zenon DEF TheArchive!Cardinality, Cardinality

\* An object's rank among the objects, and among those with data.
LEMMA RankIs ==
    ASSUME ScanInv, NEW k \in 1 .. Len(pending)
    PROVE  TheArchive!Rank(Object(k), TheObjects) = k
<1> DEFINE S == {p \in TheObjects : p = Object(k) \/ TheArchive!Before(p.path, Object(k).path)}
           f == [j \in 1 .. k |-> Object(j)]
<1>1. DOMAIN pending = 1 .. Len(pending) /\ Len(pending) \in Nat
  BY PendingIs DEF ScanInv
<1>2. \A j \in 1 .. Len(pending) : Object(j) \in S <=> j <= k
  BY <1>1, OrderOfObjects DEF TheObjects
<1>3. \A o \in S : \E j \in 1 .. Len(pending) : o = Object(j)
  BY <1>1 DEF TheObjects
<1> HIDE DEF S
<1>4. \A j \in 1 .. k : j \in 1 .. Len(pending) /\ f[j] = Object(j) /\ Object(j) \in S
  BY <1>1, <1>2
<1>5. f \in [1 .. k -> S]
  BY <1>4
<1>6. \A o \in S : \E j \in 1 .. k : f[j] = o
  BY <1>1, <1>2, <1>3, <1>4
<1>7. \A i, j \in 1 .. k : f[i] = f[j] => i = j
  BY <1>4, OrderOfObjects
<1>8. IsFiniteSet(1 .. k) /\ Cardinality(1 .. k) = k
  BY FS_Interval
<1> HIDE DEF f
<1>9. Cardinality(S) = Cardinality(1 .. k)
  BY <1>5, <1>6, <1>7, <1>8, SameSize
<1> QED
  BY <1>8, <1>9, SizeIs DEF TheArchive!Rank, S

LEMMA DataRankIs ==
    ASSUME ScanInv, pc = "done", NEW k \in 1 .. Len(pending), HasData(pending[k].kind)
    PROVE  TheArchive!Rank(Object(k), {p \in TheObjects : TheArchive!HasContent(p)})
              = Cardinality(DataUpTo(k + 1))
<1> DEFINE W == {p \in TheObjects : TheArchive!HasContent(p)}
           S == {p \in W : p = Object(k) \/ TheArchive!Before(p.path, Object(k).path)}
           D == DataUpTo(k + 1)
           f == [i \in D |-> Object(i - 1)]
<1>1. DOMAIN pending = 1 .. Len(pending) /\ Len(pending) \in Nat
  BY PendingIs DEF ScanInv
<1>2. \A j \in 1 .. Len(pending) : Object(j) \in S <=> j <= k /\ HasData(pending[j].kind)
  BY <1>1, OrderOfObjects DEF TheObjects
<1>3. \A o \in S : \E j \in 1 .. Len(pending) : o = Object(j)
  BY <1>1 DEF TheObjects
<1> HIDE DEF S
<1>4. \A j \in 1 .. Len(pending) : entries[j + 1].kind = pending[j].kind
  BY EntryOf
<1>5. \A i : i \in D <=> \E j \in 1 .. Len(pending) : i = j + 1 /\ j <= k /\ HasData(pending[j].kind)
  <2>1. \A i \in 2 .. k + 1 : i - 1 \in 1 .. Len(pending) /\ i = (i - 1) + 1
    BY <1>1
  <2>2. ASSUME NEW i \in D
        PROVE  \E j \in 1 .. Len(pending) : i = j + 1 /\ j <= k /\ HasData(pending[j].kind)
    <3> DEFINE j == i - 1
    <3>1. i \in 2 .. k + 1 /\ HasData(entries[i].kind)
      BY <2>2 DEF DataUpTo
    <3>2. j \in 1 .. Len(pending) /\ i = j + 1 /\ j <= k
      BY <1>1, <3>1
    <3> HIDE DEF j
    <3> QED
      BY <1>4, <3>1, <3>2
  <2>3. ASSUME NEW j \in 1 .. Len(pending), j <= k, HasData(pending[j].kind) PROVE j + 1 \in D
    <3> DEFINE i == j + 1
    <3>1. i \in 2 .. k + 1 /\ entries[i].kind = pending[j].kind
      BY <1>1, <1>4, <2>3
    <3> HIDE DEF i
    <3>2. i \in DataUpTo(k + 1)
      BY <2>3, <3>1 DEF DataUpTo
    <3> QED
      BY <3>2 DEF i
  <2> QED
    BY <2>2, <2>3
<1> HIDE DEF D
<1>6. \A i \in D : /\ i - 1 \in 1 .. Len(pending) /\ f[i] = Object(i - 1) /\ Object(i - 1) \in S
                   /\ i = (i - 1) + 1
  <2> SUFFICES ASSUME NEW i \in D
               PROVE  /\ i - 1 \in 1 .. Len(pending) /\ f[i] = Object(i - 1) /\ Object(i - 1) \in S
                      /\ i = (i - 1) + 1
    OBVIOUS
  <2>1. PICK j \in 1 .. Len(pending) : i = j + 1 /\ j <= k /\ HasData(pending[j].kind)
    BY <1>5
  <2>2. i - 1 = j
    BY <1>1, <2>1
  <2>3. f[i] = Object(i - 1)
    OBVIOUS
  <2> QED
    BY <1>2, <2>1, <2>2, <2>3
<1>7. f \in [D -> S]
  BY <1>6
<1>8. \A o \in S : \E i \in D : f[i] = o
  <2> SUFFICES ASSUME NEW o \in S PROVE \E i \in D : f[i] = o
    OBVIOUS
  <2>1. PICK j \in 1 .. Len(pending) : o = Object(j)
    BY <1>3
  <2>2. j + 1 \in D /\ (j + 1) - 1 = j
    BY <1>1, <1>2, <1>5, <2>1
  <2> QED
    BY <2>1, <2>2
<1>9. ASSUME NEW i \in D, NEW j \in D, f[i] = f[j] PROVE i = j
  <2> DEFINE x == i - 1
             y == j - 1
  <2>1. x \in 1 .. Len(pending) /\ y \in 1 .. Len(pending) /\ Object(x) = Object(y)
    BY <1>6, <1>9
  <2>2. i = x + 1 /\ j = y + 1
    BY <1>6
  <2> HIDE DEF x, y
  <2>3. x = y
    BY <2>1, OrderOfObjects
  <2> QED
    BY <2>2, <2>3
<1>10. IsFiniteSet(D)
  <2> DEFINE n == k + 1
  <2>1. n \in 1 .. Len(entries)
    BY EntryOf
  <2>2. ScanTypes /\ Len(entries) \in Nat
    BY EntriesAre DEF ScanInv
  <2>3. n \in 0 .. Len(entries)
    <3> HIDE DEF n
    <3> QED
      BY <2>1, <2>2
  <2> QED
    BY <2>2, <2>3, DataFinite DEF D
<1> HIDE DEF f
<1>11. Cardinality(S) = Cardinality(D)
  BY <1>7, <1>8, <1>9, <1>10, SameSize
<1> QED
  BY <1>11, SizeIs DEF TheArchive!Rank, S, D

\* The objects are numbered as Archive numbers them.
LEMMA NumbersFollow ==
    ASSUME ScanInv, pc = "done"
    PROVE  TheArchive!Numbered(TheObjects)
<1>1. ASSUME NEW k \in 1 .. Len(pending)
      PROVE  LET o == Object(k)
             IN  /\ o.cnid = 15 + TheArchive!Rank(o, TheObjects)
                 /\ o.data = IF TheArchive!HasContent(o)
                             THEN TheArchive!Rank(o, {p \in TheObjects : TheArchive!HasContent(p)})
                             ELSE 0
  <2>1. /\ Object(k).cnid = 15 + k
        /\ TheArchive!HasContent(Object(k)) <=> HasData(pending[k].kind)
    BY OrderOfObjects
  <2>2. TheArchive!Rank(Object(k), TheObjects) = k
    BY RankIs
  <2>3. Object(k).data = DataOf(k)
    BY DEF Object
  <2>4. HasData(pending[k].kind) =>
           TheArchive!Rank(Object(k), {p \in TheObjects : TheArchive!HasContent(p)}) = DataOf(k)
    BY DataRankIs DEF DataOf
  <2>5. ~HasData(pending[k].kind) => DataOf(k) = 0
    BY DEF DataOf
  <2> QED
    BY <2>1, <2>2, <2>3, <2>4, <2>5
<1>2. DOMAIN pending = 1 .. Len(pending)
  BY PendingIs DEF ScanInv
<1> QED
  BY <1>1, <1>2 DEF TheArchive!Numbered, TheObjects

\* They are objects an archive may hold, when the folder is a directory itself, and there
\* are none when it is not.
Held == {<<pending[k].path, pending[k].kind>> : k \in DOMAIN pending}
LEMMA HeldIs ==
    ASSUME ScanInv, pc = "done"
    PROVE  /\ Held \subseteq {o \in ever : o[2] # "other"}
           /\ tree[Root] = "dir" => {o \in kept : o[2] # "other"} \subseteq Held
           /\ tree[Root] # "dir" => pending = <<>>
           /\ \A o \in Held : Len(o[1]) > 1 => <<Front(o[1]), "dir">> \in Held
<1>0. /\ ScanTypes /\ FolderInv /\ StageInv /\ NumberInv /\ SeenInv
      /\ DOMAIN pending = 1 .. Len(pending) /\ Len(pending) \in Nat
  BY PendingIs DEF ScanInv
<1>1. Held \subseteq {o \in ever : o[2] # "other"}
  <2>1. \A k \in DOMAIN pending : pending[k].kind # "other"
    BY <1>0, PendingIs DEF Archivable
  <2> QED
    BY <1>0, <2>1 DEF SeenInv, Held
<1>2. ASSUME tree[Root] = "dir", NEW o \in kept, o[2] # "other" PROVE o \in Held
  <2>1. Found(o) \/ Ahead(o[1])
    BY <1>0, <1>2 DEF SeenInv
  <2>2. ~Ahead(o[1])
    <3>1. DOMAIN stack = {}
      BY <1>0 DEF StageInv
    <3> QED
      BY <3>1 DEF Ahead
  <2>3. o = <<o[1], o[2]>>
    BY <1>0, KeptIs
  <2> QED
    BY <2>1, <2>2, <2>3 DEF Found, Held
<1>3. tree[Root] # "dir" => pending = <<>>
  BY <1>0 DEF StageInv
<1>4. ASSUME NEW o \in Held, Len(o[1]) > 1 PROVE <<Front(o[1]), "dir">> \in Held
  <2>1. PICK k \in 1 .. Len(pending) : o = <<pending[k].path, pending[k].kind>>
    BY <1>0 DEF Held
  <2> DEFINE n == Len(pending[k].path)
  <2>2. o[1] = pending[k].path /\ n > 1 /\ n \in Nat
    BY <1>0, <1>4, <2>1, PendingIs
  <2> HIDE DEF n
  <2>6. n # 1
    BY <2>2
  <2>3. \E j \in 1 .. k - 1 : IsDir(j, Front(pending[k].path), pending[k].parent)
    BY <1>0, <2>6 DEF NumberInv, n
  <2>4. PICK j \in 1 .. k - 1 : IsDir(j, Front(pending[k].path), pending[k].parent)
    BY <2>3
  <2>5. j \in DOMAIN pending
    BY <1>0, <2>4
  <2> QED
    BY <2>2, <2>4, <2>5 DEF Held, IsDir
<1> QED
  BY <1>1, <1>2, <1>3, <1>4

\* The archive of a scan that is done.
ArchiveGood ==
    pc = "done" =>
        /\ UNION {Archived(pending[k].path) : k \in DOMAIN pending} = TheObjects
        /\ {<<o.path, o.kind>> : o \in TheObjects} = Held
        /\ TheArchive!Numbered(TheObjects)
        /\ Held \subseteq {o \in ever : o[2] # "other"}
        /\ tree[Root] = "dir" => {o \in kept : o[2] # "other"} \subseteq Held
        /\ tree[Root] # "dir" => pending = <<>>
        /\ \A o \in Held : Len(o[1]) > 1 => <<Front(o[1]), "dir">> \in Held

LEMMA ArchiveIsGood == ScanInv => ArchiveGood
<1> SUFFICES ASSUME ScanInv, pc = "done" PROVE ArchiveGood
  BY DEF ArchiveGood
<1>1. {<<o.path, o.kind>> : o \in TheObjects} = Held
  <2>1. \A k \in DOMAIN pending : Object(k).path = pending[k].path /\ Object(k).kind = pending[k].kind
    BY DEF Object
  <2> QED
    BY <2>1 DEF TheObjects, Held
<1> QED
  BY <1>1, ArchivedIs, NumbersFollow, HeldIs DEF ArchiveGood

\* What Archive sees of the scan.
Folder == IF IsDirectory THEN tree ELSE <<>>
Ever == IF IsDirectory THEN ever ELSE {}
KeptBy == IF IsDirectory THEN kept ELSE {}
Status == CASE pc = "done" -> "archived"
            [] pc \in {"failed", "refused"} -> "refused"
            [] OTHER -> "scanning"
Made == IF pc = "done" THEN UNION {Archived(pending[k].path) : k \in DOMAIN pending} ELSE {}

LEMMA Shown ==
    /\ TheArchive!ArchiveInit <=> /\ Ever = TheArchive!ArchiveObjects(Folder)
                                  /\ KeptBy = TheArchive!ArchiveObjects(Folder)
                                  /\ Status = "scanning" /\ Made = {}
    /\ TheArchive!Change <=> /\ Status = "scanning"
                             /\ Ever' = Ever \cup TheArchive!ArchiveObjects(Folder')
                             /\ KeptBy' = KeptBy \cap TheArchive!ArchiveObjects(Folder')
                             /\ Status' = Status /\ Made' = Made
    /\ TheArchive!Refuse <=> /\ Status = "scanning" /\ Status' = "refused"
                             /\ Folder' = Folder /\ Ever' = Ever /\ KeptBy' = KeptBy /\ Made' = Made
    /\ TheArchive!Take <=>
          /\ Status = "scanning" /\ Status' = "archived"
          /\ TheArchive!MayHold({<<o.path, o.kind>> : o \in Made'}) /\ TheArchive!Numbered(Made')
          /\ Folder' = Folder /\ Ever' = Ever /\ KeptBy' = KeptBy
    /\ \A S : TheArchive!MayHold(S) <=>
          /\ S \subseteq {o \in Ever : o[2] # "other"}
          /\ {o \in KeptBy : o[2] # "other"} \subseteq S
          /\ \A o \in S : Len(o[1]) > 1 => <<Front(o[1]), "dir">> \in S
    /\ UNCHANGED TheArchive!archiveVars <=>
          /\ Folder' = Folder /\ Ever' = Ever /\ KeptBy' = KeptBy /\ Status' = Status /\ Made' = Made
<1>1. TheArchive!ArchiveInit <=> /\ Ever = TheArchive!ArchiveObjects(Folder)
                                 /\ KeptBy = TheArchive!ArchiveObjects(Folder)
                                 /\ Status = "scanning" /\ Made = {}
  BY Zenon DEF TheArchive!ArchiveInit, Folder, Ever, KeptBy, Status, Made
<1>2. TheArchive!Change <=> /\ Status = "scanning"
                            /\ Ever' = Ever \cup TheArchive!ArchiveObjects(Folder')
                            /\ KeptBy' = KeptBy \cap TheArchive!ArchiveObjects(Folder')
                            /\ Status' = Status /\ Made' = Made
  BY Zenon DEF TheArchive!Change, Folder, Ever, KeptBy, Status, Made
<1>3. TheArchive!Refuse <=> /\ Status = "scanning" /\ Status' = "refused"
                            /\ Folder' = Folder /\ Ever' = Ever /\ KeptBy' = KeptBy /\ Made' = Made
  BY Zenon DEF TheArchive!Refuse, Folder, Ever, KeptBy, Status, Made
<1>4. TheArchive!Take <=>
          /\ Status = "scanning" /\ Status' = "archived"
          /\ TheArchive!MayHold({<<o.path, o.kind>> : o \in Made'}) /\ TheArchive!Numbered(Made')
          /\ Folder' = Folder /\ Ever' = Ever /\ KeptBy' = KeptBy
  BY Zenon DEF TheArchive!Take, Folder, Ever, KeptBy, Status, Made
<1>5. \A S : TheArchive!MayHold(S) <=>
          /\ S \subseteq {o \in Ever : o[2] # "other"}
          /\ {o \in KeptBy : o[2] # "other"} \subseteq S
          /\ \A o \in S : Len(o[1]) > 1 => <<Front(o[1]), "dir">> \in S
  BY Zenon DEF TheArchive!MayHold, TheArchive!Front, Front, Ever, KeptBy
<1>6. UNCHANGED TheArchive!archiveVars <=>
          /\ Folder' = Folder /\ Ever' = Ever /\ KeptBy' = KeptBy /\ Status' = Status /\ Made' = Made
  BY DEF TheArchive!archiveVars, Folder, Ever, KeptBy, Status, Made
<1> QED
  BY <1>1, <1>2, <1>3, <1>4, <1>5, <1>6

LEMMA MadeIs ==
    ASSUME ArchiveGood
    PROVE  Made = IF pc = "done" THEN TheObjects ELSE {}
BY DEF ArchiveGood, Made

\* A scan that ends takes the archive.
LEMMA TakesArchive ==
    ASSUME ScanInv, ArchiveGood', UNCHANGED source, Status = "scanning", pc' = "done",
           Made' = TheObjects'
    PROVE  TheArchive!Take
<1>1. /\ {<<o.path, o.kind>> : o \in TheObjects'} = Held'
      /\ TheArchive!Numbered(TheObjects')
      /\ Held' \subseteq {o \in ever' : o[2] # "other"}
      /\ tree'[Root] = "dir" => {o \in kept' : o[2] # "other"} \subseteq Held'
      /\ tree'[Root] # "dir" => pending' = <<>>
      /\ \A o \in Held' : Len(o[1]) > 1 => <<Front(o[1]), "dir">> \in Held'
  BY DEF ArchiveGood
<1>2. tree' = tree /\ ever' = ever /\ kept' = kept /\ IsDirectory' = IsDirectory
  BY DEF source, IsDirectory
<1>3. Folder' = Folder /\ Ever' = Ever /\ KeptBy' = KeptBy
  BY <1>2 DEF Folder, Ever, KeptBy
<1>4. Status' = "archived"
  BY DEF Status
<1>5. TheArchive!MayHold(Held')
  <2>1. CASE IsDirectory
    <3>1. Ever = ever /\ KeptBy = kept /\ tree'[Root] = "dir"
      BY <1>2, <2>1 DEF Ever, KeptBy, IsDirectory
    <3> QED
      BY <1>1, <1>2, <3>1, Shown
  <2>2. CASE ~IsDirectory
    <3>1. KeptBy = {} /\ tree'[Root] # "dir"
      BY <1>2, <2>2 DEF KeptBy, IsDirectory
    <3>2. pending' = <<>>
      BY <1>1, <3>1
    <3>3. Held' = {<<pending'[k].path, pending'[k].kind>> : k \in DOMAIN pending'}
      BY DEF Held
    <3>4. Held' = {}
      BY <3>2, <3>3
    <3> QED
      BY <3>1, <3>4, Shown
  <2> QED
    BY <2>1, <2>2
<1> QED
  BY <1>1, <1>3, <1>4, <1>5, Shown

\* Another program's step is a change of the folder Archive sees, or of none.
LEMMA ChangesFolder ==
    ASSUME ScanInv, SourceChanges, Made = {}, Made' = {}
    PROVE  TheArchive!Change \/ UNCHANGED TheArchive!archiveVars
<1>1. /\ pc' = pc /\ pc \notin {"done", "failed", "refused"}
      /\ ever' = ever \cup Objects' /\ kept' = kept \cap Objects'
  BY DEF SourceChanges
<1>2. tree'[Root] = tree[Root] /\ IsDirectory' = IsDirectory
  BY RootStays DEF ScanInv, IsDirectory
<1>3. Status = "scanning" /\ Status' = "scanning"
  BY <1>1 DEF Status
<1>4. CASE IsDirectory
  <2>1. Folder' = tree' /\ Ever = ever /\ Ever' = ever' /\ KeptBy = kept /\ KeptBy' = kept'
    BY <1>2, <1>4 DEF Folder, Ever, KeptBy
  <2>2. TheArchive!ArchiveObjects(Folder') = Objects'
    BY <2>1 DEF TheArchive!ArchiveObjects, Objects, Root
  <2> QED
    BY <1>1, <1>3, <2>1, <2>2, Shown
<1>5. CASE ~IsDirectory
  <2>1. Folder' = Folder /\ Ever' = Ever /\ KeptBy' = KeptBy
    BY <1>2, <1>5 DEF Folder, Ever, KeptBy
  <2> QED
    BY <1>3, <2>1, Shown
<1> QED
  BY <1>4, <1>5

\* Every step of the scan is a step of Archive or changes nothing of it.
LEMMA StepArchives ==
    ASSUME ScanInv, ArchiveGood, ArchiveGood', [Next]_vars
    PROVE  [TheArchive!Change \/ TheArchive!Take \/ TheArchive!Refuse]_(TheArchive!archiveVars)
<1>1. Made = IF pc = "done" THEN TheObjects ELSE {}
  BY MadeIs
<1>2. Made' = IF pc' = "done" THEN TheObjects' ELSE {}
  BY DEF ArchiveGood, Made
<1>3. CASE ScanStep
  <2>1. UNCHANGED source /\ pc \notin {"done", "failed", "refused"}
    BY <1>3, StepKeepsSource
       DEF ScanStep, Stat, NameRoot, LstatRoot, ReadDir, Visit, VisitOther, LeaveDir, Collect,
           Backfill, RootInfo, BuildCatalog, Fails
  <2>2. Status = "scanning" /\ Made = {}
    BY <1>1, <2>1 DEF Status
  <2>3. Folder' = Folder /\ Ever' = Ever /\ KeptBy' = KeptBy
    BY <2>1 DEF source, Folder, Ever, KeptBy, IsDirectory
  <2>4. CASE pc' = "done"
    BY <1>2, <2>1, <2>2, <2>4, TakesArchive
  <2>5. CASE pc' \in {"failed", "refused"}
    <3>1. Status' = "refused" /\ Made' = {}
      BY <1>2, <2>5 DEF Status
    <3> QED
      BY <2>2, <2>3, <3>1, Shown
  <2>6. CASE pc' \notin {"done", "failed", "refused"}
    <3>1. Status' = "scanning" /\ Made' = {}
      BY <1>2, <2>6 DEF Status
    <3> QED
      BY <2>2, <2>3, <3>1, Shown
  <2> QED
    BY <2>4, <2>5, <2>6
<1>4. CASE SourceChanges
  <2>1. Made = {} /\ Made' = {}
    BY <1>1, <1>2, <1>4 DEF SourceChanges
  <2> QED
    BY <1>4, <2>1, ChangesFolder
<1>5. CASE ScanOver \/ UNCHANGED vars
  <2>1. UNCHANGED vars
    BY <1>5 DEF ScanOver
  <2>2. /\ pc' = pc /\ tree' = tree /\ ever' = ever /\ kept' = kept
        /\ pending' = pending /\ entries' = entries
    BY <2>1 DEF vars
  <2>3. Folder' = Folder /\ Ever' = Ever /\ KeptBy' = KeptBy /\ Status' = Status
    BY <2>2 DEF Folder, Ever, KeptBy, IsDirectory, Status
  <2>4. TheObjects' = TheObjects
    BY <2>2 DEF TheObjects, Object, DataOf, DataUpTo
  <2> QED
    BY <1>1, <1>2, <2>2, <2>3, <2>4, Shown
<1> QED
  BY <1>3, <1>4, <1>5 DEF Next

\* Whatever changes in the folder while walk reads it, the catalog and the files of a scan
\* that ends are an archive of objects that were there, with each that stayed, their
\* numbers and their data in the one order of the names.
THEOREM ImplementsArchiveCorrect == ScanSpec => ImplementsArchive
<1>1. ScanInit => TheArchive!ArchiveInit
  <2> SUFFICES ASSUME ScanInit PROVE TheArchive!ArchiveInit
    OBVIOUS
  <2>1. pc = "stat" /\ ever = Objects /\ kept = Objects
    BY DEF ScanInit
  <2>2. Status = "scanning" /\ Made = {}
    BY <2>1 DEF Status, Made
  <2>3. CASE IsDirectory
    BY <2>1, <2>2, <2>3, Shown
       DEF Folder, Ever, KeptBy, Objects, Root, TheArchive!ArchiveObjects
  <2>4. CASE ~IsDirectory
    <3>1. TheArchive!ArchiveObjects(<<>>) = {}
      BY DEF TheArchive!ArchiveObjects
    <3> QED
      BY <2>2, <2>4, <3>1, Shown DEF Folder, Ever, KeptBy
  <2> QED
    BY <2>3, <2>4
<1>2. ScanInv => ArchiveGood
  BY ArchiveIsGood
<1>3. ScanInv /\ ArchiveGood /\ ArchiveGood' /\ [Next]_vars =>
         [TheArchive!Change \/ TheArchive!Take \/ TheArchive!Refuse]_(TheArchive!archiveVars)
  BY StepArchives
<1> QED
  BY <1>1, <1>2, <1>3, ScanInvCorrect, PTL DEF ScanSpec, Next, ImplementsArchive, TheArchive!ArchiveSpec
=============================================================================
