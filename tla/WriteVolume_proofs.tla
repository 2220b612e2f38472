------------------------- MODULE WriteVolume_proofs -------------------------
(* What BuildPlan guarantees for every block size, every number of files   *)
(* and every size of the trees and of the files; and what WriteVolume      *)
(* does, whatever changes in the files while they are read: the finished   *)
(* image holds every part of the plan at its place, and no write of a file *)
(* leaves its extent.                                                      *)
EXTENDS WriteVolume, SequenceTheorems, FiniteSetTheorems, WellFoundedInduction, TLAPS

----------------------------------------------------------------------------
(* Arithmetic of the rounded division.                                     *)

\* The quotient of a division by a positive number.
LEMMA Quotient ==
    ASSUME NEW n \in Nat, NEW d \in Nat, d > 0
    PROVE  /\ n \div d \in Nat
           /\ d * (n \div d) <= n
           /\ n < d * (n \div d) + d
OBVIOUS

\* A product grows with its factor.
LEMMA Grows ==
    ASSUME NEW a \in Nat, NEW b \in Nat, NEW d \in Nat, a <= b
    PROVE  d * a <= d * b
<1>1. b - a \in Nat
  OBVIOUS
<1>2. d * (b - a) \in Nat
  BY <1>1
<1>3. d * b = d * a + d * (b - a)
  BY <1>1
<1> QED
  BY <1>2, <1>3

\* The only quotient that fits.
LEMMA QuotientUnder ==
    ASSUME NEW n \in Nat, NEW d \in Nat, d > 0, NEW q \in Nat, n < d * q + d
    PROVE  n \div d <= q
<1> SUFFICES ASSUME n \div d > q PROVE FALSE
  BY Quotient
<1>1. n \div d \in Nat /\ d * (n \div d) <= n
  BY Quotient
<1>2. d * (q + 1) <= d * (n \div d)
  BY <1>1, Grows
<1>3. d * (q + 1) = d * q + d
  OBVIOUS
<1> QED
  BY <1>1, <1>2, <1>3

\* The rounded division: the least multiple of d that holds n.
LEMMA RoundUp ==
    ASSUME NEW n \in Nat, NEW d \in Nat, d > 0
    PROVE  /\ DivRoundUp(n, d) \in Nat
           /\ n <= d * DivRoundUp(n, d)
           /\ d * DivRoundUp(n, d) < n + d
<1> DEFINE m == n + d - 1
<1>1. m \in Nat
  OBVIOUS
<1>2. m \div d \in Nat /\ d * (m \div d) <= m /\ m < d * (m \div d) + d
  BY <1>1, Quotient
<1>3. d * (m \div d) \in Nat
  BY <1>2
<1> QED
  BY <1>2, <1>3 DEF DivRoundUp

\* It grows with n.
LEMMA RoundUpGrows ==
    ASSUME NEW m \in Nat, NEW n \in Nat, m <= n, NEW d \in Nat, d > 0
    PROVE  DivRoundUp(m, d) <= DivRoundUp(n, d)
<1> DEFINE q == (n + d - 1) \div d
<1>1. n + d - 1 \in Nat /\ m + d - 1 \in Nat
  OBVIOUS
<1>2. q \in Nat /\ n + d - 1 < d * q + d
  BY <1>1, Quotient
<1>3. d * q \in Nat
  BY <1>2
<1>4. m + d - 1 < d * q + d
  BY <1>2, <1>3
<1> QED
  BY <1>1, <1>2, <1>4, QuotientUnder DEF DivRoundUp

----------------------------------------------------------------------------
(* The invariant.                                                          *)

\* A tree's fork has a block at least.
LEMMA ForkType ==
    ASSUME blockSize \in Nat, blockSize > 0, NEW n \in Nat
    PROVE  ForkBlocks(n) \in Nat \ {0}
BY RoundUp DEF ForkBlocks

\* What the fixed point is computed from.
LEMMA NeedType ==
    ASSUME PlanTypeOK, blockSize > 0, NEW a \in Nat
    PROVE  /\ Packed(a) \in Nat /\ Packed(a) >= a + 2
           /\ TotalWith(a) \in Nat /\ Packed(a) <= TotalWith(a)
           /\ Need(a) \in Nat
           /\ MaxFork \in Nat /\ \A t \in Trees : forks[t] <= MaxFork
           /\ 4 * MaxFork <= TotalWith(a)
<1>1. /\ forks["catalog"] \in Nat /\ forks["extents"] \in Nat
      /\ forks["attributes"] \in Nat /\ userBlocks \in Nat
  BY DEF PlanTypeOK, Trees
<1>2. MaxFork \in Nat /\ \A t \in Trees : forks[t] <= MaxFork
  BY <1>1 DEF MaxFork, Trees
<1>3. Packed(a) \in Nat /\ Packed(a) >= a + 2
  BY <1>1 DEF Packed
<1>4. TotalWith(a) \in Nat /\ Packed(a) <= TotalWith(a) /\ 4 * MaxFork <= TotalWith(a)
  BY <1>2, <1>3 DEF TotalWith
<1>5. blockSize * 8 \in Nat /\ blockSize * 8 > 0
  BY DEF PlanTypeOK
<1>6. Need(a) \in Nat
  BY <1>4, <1>5, RoundUp DEF Need
<1> QED
  BY <1>2, <1>3, <1>4, <1>6

\* A larger bitmap needs no smaller one.
LEMMA NeedGrows ==
    ASSUME PlanTypeOK, blockSize > 0, NEW a \in Nat, NEW b \in Nat, a <= b
    PROVE  Need(a) <= Need(b)
<1>1. /\ forks["catalog"] \in Nat /\ forks["extents"] \in Nat
      /\ forks["attributes"] \in Nat /\ userBlocks \in Nat
  BY DEF PlanTypeOK, Trees
<1>2. Packed(a) <= Packed(b) /\ Packed(a) \in Nat /\ Packed(b) \in Nat
  BY <1>1 DEF Packed
<1>3. TotalWith(a) <= TotalWith(b)
  BY <1>2, NeedType DEF TotalWith
<1>4. blockSize * 8 \in Nat /\ blockSize * 8 > 0
  BY DEF PlanTypeOK
<1>5. TotalWith(a) \in Nat /\ TotalWith(b) \in Nat
  BY NeedType
<1> QED
  BY <1>3, <1>4, <1>5, RoundUpGrows DEF Need

\* While the counts fit a uint32 the starts of the trees do not wrap.
LEMMA Starts ==
    ASSUME PlanTypeOK, blockSize > 0, NEW n \in Nat, TotalWith(alloc) = n, n < Word
    PROVE  /\ CatalogStart = 1 + alloc
           /\ ExtentsStart = CatalogStart + forks["catalog"]
           /\ AttributesStart = ExtentsStart + forks["extents"]
           /\ UserDataStart = AttributesStart + forks["attributes"]
           /\ UserDataStart = FirstUser
           /\ FirstUser \in Nat
           /\ FirstUser + userBlocks + 1 = Packed(alloc)
           /\ FirstUser + userBlocks + 1 <= n
<1>1. /\ forks["catalog"] \in Nat /\ forks["extents"] \in Nat
      /\ forks["attributes"] \in Nat /\ userBlocks \in Nat /\ alloc \in Nat
  BY DEF PlanTypeOK, Trees
<1>2. FirstUser + userBlocks + 1 = Packed(alloc) /\ FirstUser \in Nat
  BY <1>1 DEF FirstUser, Packed
<1>3. Packed(alloc) <= n /\ Word \in Nat
  BY <1>1, NeedType, PlanAssumption
<1>4. \A m \in Nat : m < Word => U32(m) = m
  BY <1>3 DEF U32
<1>5. FirstUser = 1 + alloc + forks["catalog"] + forks["extents"] + forks["attributes"]
  BY DEF FirstUser
<1>6. CatalogStart = 1 + alloc
  BY <1>1, <1>2, <1>3, <1>4, <1>5 DEF CatalogStart, AllocStart
<1>7. ExtentsStart = CatalogStart + forks["catalog"]
  BY <1>1, <1>2, <1>3, <1>4, <1>5, <1>6 DEF ExtentsStart
<1>8. AttributesStart = ExtentsStart + forks["extents"]
  BY <1>1, <1>2, <1>3, <1>4, <1>5, <1>6, <1>7 DEF AttributesStart
<1>9. UserDataStart = AttributesStart + forks["attributes"]
  BY <1>1, <1>2, <1>3, <1>4, <1>5, <1>6, <1>7, <1>8 DEF UserDataStart
<1> QED
  BY <1>1, <1>2, <1>3, <1>5, <1>6, <1>7, <1>8, <1>9

\* The blocks of the first files, as a number.
LEMMA AtType ==
    ASSUME PlanTypeOK, NEW k \in 0 .. Len(sums)
    PROVE  At(k) \in Nat
BY DEF PlanTypeOK, At

\* The program starts in the invariant.
LEMMA PlanInvInit == PlanInit => PlanInv
<1> SUFFICES ASSUME PlanInit PROVE PlanInv
  OBVIOUS
<1>1. PlanTypeOK
  <2>1. PICK n \in 0 .. MaxFiles : files \in [1 .. n -> FileSizes]
    BY DEF PlanInit
  <2>2. files \in Seq(Nat)
    <3>1. n \in Nat
      BY PlanAssumption
    <3>2. files \in [1 .. n -> Nat]
      BY <2>1, PlanAssumption
    <3> QED
      BY <3>1, <3>2
  <2>3. treeSize \in [Trees -> Nat] /\ blockSize \in Nat
    BY PlanAssumption DEF PlanInit
  <2> QED
    BY <2>2, <2>3 DEF PlanInit, PlanTypeOK, Extent
<1>2. ForksInv
  BY DEF PlanInit, ForksInv, Counted, Settled
<1>3. FilesInv
  BY <1>1 DEF PlanInit, FilesInv, Counted, Settled, PlanTypeOK
<1>4. SumsInv
  BY DEF PlanInit, SumsInv, At
<1>5. TotalInv
  BY DEF PlanInit, TotalInv, Counted, Settled
<1>6. PlaceInv
  BY DEF PlanInit, PlaceInv, Settled
<1> QED
  BY <1>1, <1>2, <1>3, <1>4, <1>5, <1>6 DEF PlanInv

\* The blocks of the next file to count.
LEMMA CountType ==
    ASSUME PlanInv, SizeFile
    PROVE  /\ DivRoundUp(files[Len(fileBlocks) + 1], blockSize) \in Nat
           /\ blockSize > 0
<1>1. blockSize > 0 /\ blockSize \in Nat
  BY DEF PlanInv, ForksInv, SizeFile, PlanTypeOK
<1>2. files[Len(fileBlocks) + 1] \in Nat
  BY DEF PlanInv, SizeFile, PlanTypeOK
<1> QED
  BY ONLY <1>1, <1>2, RoundUp

\* Each variable keeps its type.
LEMMA PlanTypeStep ==
    ASSUME PlanInv, [PlanStep \/ PlanOver]_planVars
    PROVE  PlanTypeOK'
<1> USE PlanAssumption
<1>t. PlanTypeOK /\ (pc # "blockSize" => blockSize > 0)
  BY DEF PlanInv, ForksInv
<1>1. CASE CheckBlockSize
  BY <1>t, <1>1 DEF CheckBlockSize, PlanTypeOK
<1>2. CASE SizeTrees
  <2>1. \A t \in Trees : ForkBlocks(treeSize[t]) \in Nat
    BY <1>t, <1>2, ForkType DEF SizeTrees, PlanTypeOK
  <2> QED
    BY <1>t, <1>2, <2>1 DEF SizeTrees, PlanTypeOK
<1>3. CASE SizeFile
  <2> DEFINE n == DivRoundUp(files[Len(fileBlocks) + 1], blockSize)
  <2>2. n \in Nat
    BY <1>3, CountType
  <2>3. CASE n > Word - 1
    <3>1. ~(n <= Word - 1)
      BY <2>2, <2>3
    <3> QED
      BY <1>t, <1>3, <3>1 DEF SizeFile, PlanTypeOK
  <2>4. CASE n <= Word - 1
    <3>1. /\ fileBlocks' = Append(fileBlocks, n) /\ userBlocks' = userBlocks + n
          /\ sums' = Append(sums, userBlocks + n) /\ pc' = pc
          /\ UNCHANGED <<blockSize, treeSize, files, forks, alloc, total,
                         placements, cursor, bitmapBytes, nextAllocation>>
      BY <1>3, <2>2, <2>4 DEF SizeFile
    <3> HIDE DEF n
    <3>2. fileBlocks' \in Seq(Nat) /\ sums' \in Seq(Nat) /\ userBlocks' \in Nat
      BY <1>t, <2>2, <3>1 DEF PlanTypeOK
    <3> QED
      BY <1>t, <3>1, <3>2 DEF PlanTypeOK
  <2> QED
    BY <2>2, <2>3, <2>4
<1>4. CASE FilesSized
  BY <1>t, <1>4 DEF FilesSized, PlanTypeOK
<1>5. CASE GrowBitmap
  <2>0. blockSize > 0 /\ alloc \in Nat \ {0} /\ Need(alloc) > alloc
    BY <1>t, <1>5 DEF GrowBitmap, PlanTypeOK
  <2>2. Need(alloc) \in Nat
    BY <1>t, <2>0, NeedType
  <2>1. Need(alloc) \in Nat /\ Need(alloc) > 0
    BY <2>0, <2>2
  <2> QED
    BY <1>t, <1>5, <2>1 DEF GrowBitmap, Grown, PlanTypeOK
<1>6. CASE Settle
  <2>0. blockSize > 0 /\ alloc \in Nat
    BY <1>t, <1>6 DEF Settle, PlanTypeOK
  <2>1. TotalWith(alloc) \in Nat
    BY <1>t, <2>0, NeedType
  <2>2. CASE TotalWith(alloc) > Word - 1
    <3>1. ~(TotalWith(alloc) <= Word - 1)
      BY <2>1, <2>2
    <3> QED
      BY <1>t, <1>6, <3>1 DEF Settle, PlanTypeOK
  <2>3. CASE TotalWith(alloc) <= Word - 1
    <3>1. UserDataStart \in Nat
      BY <1>t, <1>6, <2>1, <2>3, Starts DEF Settle
    <3> QED
      BY <1>t, <1>6, <2>1, <2>3, <3>1 DEF Settle, PlanTypeOK
  <2> QED
    BY <2>1, <2>2, <2>3
<1>7. CASE PlaceFile
  <2> DEFINE n == fileBlocks[Len(placements) + 1]
  <2>1. n \in Nat
    BY <1>t, <1>7 DEF PlaceFile, PlanTypeOK, PlanInv, FilesInv, Counted, Settled
  <2>2. Advance(n) \in Nat
    BY <1>t, <2>1 DEF Advance, U32, PlanTypeOK
  <2>3. Extent(IF n = 0 THEN 0 ELSE cursor, n) \in [start : Nat, blocks : Nat]
    BY <1>t, <2>1 DEF Extent, PlanTypeOK
  <2>4. placements' = Append(placements, Extent(IF n = 0 THEN 0 ELSE cursor, n))
        /\ cursor' = Advance(n)
    BY <1>7 DEF PlaceFile
  <2> HIDE DEF n
  <2>5. placements' \in Seq([start : Nat, blocks : Nat])
    BY <1>t, <2>3, <2>4 DEF PlanTypeOK
  <2> QED
    BY <1>t, <1>7, <2>2, <2>4, <2>5 DEF PlaceFile, PlanTypeOK
<1>8. CASE MarkBitmap
  <2>1. BitmapLength \in Nat
    <3>1. U32(total + 7) \in Nat
      BY <1>t DEF U32, PlanTypeOK
    <3> QED
      BY <3>1 DEF BitmapLength
  <2>2. NextFree \in Nat
    BY <1>t DEF NextFree, PlanTypeOK
  <2> QED
    BY <1>t, <1>8, <2>1, <2>2 DEF MarkBitmap, PlanTypeOK
<1>9. CASE UNCHANGED planVars
  BY <1>t, <1>9 DEF planVars, PlanTypeOK
<1> QED
  BY <1>1, <1>2, <1>3, <1>4, <1>5, <1>6, <1>7, <1>8, <1>9 DEF PlanStep, PlanOver

\* The block size and the forks are those of a checked input.
LEMMA ForksStep ==
    ASSUME PlanInv, [PlanStep \/ PlanOver]_planVars
    PROVE  ForksInv'
<1> USE PlanAssumption DEF ForksInv, Counted, Settled
<1>t. PlanTypeOK /\ ForksInv
  BY DEF PlanInv
<1>1. CASE CheckBlockSize
  BY <1>t, <1>1 DEF CheckBlockSize, PlanTypeOK
<1>2. CASE SizeTrees
  <2>0. blockSize > 0 /\ blockSize \in Nat
    BY <1>t, <1>2 DEF SizeTrees, PlanTypeOK
  <2>1. \A t \in Trees : ForkBlocks(treeSize[t]) \in Nat \ {0}
    BY <1>t, <2>0, ForkType DEF PlanTypeOK
  <2> QED
    BY <1>t, <1>2, <2>0, <2>1 DEF SizeTrees
<1>3. CASE SizeFile
  BY <1>t, <1>3 DEF SizeFile
<1>4. CASE FilesSized
  BY <1>t, <1>4 DEF FilesSized
<1>5. CASE GrowBitmap
  BY <1>t, <1>5 DEF GrowBitmap
<1>6. CASE Settle
  BY <1>t, <1>6 DEF Settle
<1>7. CASE PlaceFile
  BY <1>t, <1>7 DEF PlaceFile
<1>8. CASE MarkBitmap
  BY <1>t, <1>8 DEF MarkBitmap
<1>9. CASE UNCHANGED planVars
  BY <1>t, <1>9 DEF planVars
<1> QED
  BY <1>1, <1>2, <1>3, <1>4, <1>5, <1>6, <1>7, <1>8, <1>9 DEF PlanStep, PlanOver

\* The files are counted one by one, in the order of the slice.
LEMMA FilesStep ==
    ASSUME PlanInv, [PlanStep \/ PlanOver]_planVars
    PROVE  FilesInv'
<1> USE PlanAssumption DEF FilesInv, Counted, Settled
<1>t. PlanTypeOK /\ FilesInv /\ (pc # "blockSize" => blockSize > 0)
  BY DEF PlanInv, ForksInv
<1>1. CASE CheckBlockSize
  <2>1. fileBlocks = <<>> /\ fileBlocks' = <<>>
    BY <1>t, <1>1 DEF CheckBlockSize
  <2> QED
    BY <1>t, <1>1, <2>1 DEF CheckBlockSize, PlanTypeOK
<1>2. CASE SizeTrees
  BY <1>t, <1>2 DEF SizeTrees, DivRoundUp
<1>3. CASE SizeFile
  <2> DEFINE n == DivRoundUp(files[Len(fileBlocks) + 1], blockSize)
  <2>1. CASE n > Word - 1
    <3>1. UNCHANGED <<sums, fileBlocks, files, blockSize>> /\ pc' = "error"
      <4>1. n \in Nat /\ Word \in Nat
        BY <1>3, CountType
      <4>2. ~(n <= Word - 1)
        BY <2>1, <4>1
      <4> QED
        BY <1>3, <4>2 DEF SizeFile
    <3> QED
      BY <1>t, <3>1
  <2>2. CASE ~(n > Word - 1)
    <3>1. /\ fileBlocks' = Append(fileBlocks, n) /\ sums' = Append(sums, userBlocks + n)
          /\ UNCHANGED <<blockSize, files, pc>> /\ pc = "files"
          /\ Len(fileBlocks) < Len(files)
      BY <1>3, <2>2 DEF SizeFile
    <3>2. /\ Len(fileBlocks') = Len(fileBlocks) + 1 /\ Len(sums') = Len(sums) + 1
          /\ fileBlocks'[Len(fileBlocks) + 1] = n
          /\ \A k \in 1 .. Len(fileBlocks) : fileBlocks'[k] = fileBlocks[k]
      BY <1>t, <3>1 DEF PlanTypeOK
    <3> DEFINE m == Len(fileBlocks)
    <3>3. \A k \in 1 .. m + 1 :
             fileBlocks'[k] = DivRoundUp(files[k], blockSize)
      <4> SUFFICES ASSUME NEW k \in 1 .. m + 1
                   PROVE  fileBlocks'[k] = DivRoundUp(files[k], blockSize)
        OBVIOUS
      <4>1. m \in Nat
        BY <1>t DEF PlanTypeOK
      <4>2. CASE k = m + 1
        BY <3>2, <4>2
      <4>3. CASE k # m + 1
        <5>1. k \in 1 .. m
          BY <4>1, <4>3
        <5>2. fileBlocks[k] = DivRoundUp(files[k], blockSize)
          BY <1>t, <5>1
        <5> QED
          BY <3>2, <5>1, <5>2
      <4> QED
        BY <4>2, <4>3
    <3> QED
      BY <1>t, <3>1, <3>2, <3>3 DEF PlanTypeOK
  <2> QED
    BY <2>1, <2>2
<1>4. CASE FilesSized
  BY <1>t, <1>4 DEF FilesSized
<1>5. CASE GrowBitmap
  BY <1>t, <1>5 DEF GrowBitmap
<1>6. CASE Settle
  BY <1>t, <1>6 DEF Settle
<1>7. CASE PlaceFile
  BY <1>t, <1>7 DEF PlaceFile
<1>8. CASE MarkBitmap
  BY <1>t, <1>8 DEF MarkBitmap
<1>9. CASE UNCHANGED planVars
  BY <1>t, <1>9 DEF planVars
<1> QED
  BY <1>1, <1>2, <1>3, <1>4, <1>5, <1>6, <1>7, <1>8, <1>9 DEF PlanStep, PlanOver

\* The sums grow by the blocks of each file.
LEMMA SumsStep ==
    ASSUME PlanInv, [PlanStep \/ PlanOver]_planVars
    PROVE  SumsInv'
<1>t. PlanTypeOK /\ FilesInv /\ SumsInv /\ (pc # "blockSize" => blockSize > 0)
  BY DEF PlanInv, ForksInv
<1>1. CASE UNCHANGED <<userBlocks, sums, fileBlocks>>
  BY <1>t, <1>1 DEF SumsInv, At
<1>2. CASE SizeFile /\ ~UNCHANGED <<userBlocks, sums, fileBlocks>>
  <2> DEFINE n == DivRoundUp(files[Len(fileBlocks) + 1], blockSize)
             f == Len(sums)
  <2>1. /\ fileBlocks' = Append(fileBlocks, n)
        /\ sums' = Append(sums, userBlocks + n) /\ userBlocks' = userBlocks + n
        /\ blockSize > 0 /\ Len(fileBlocks) < Len(files)
    BY <1>t, <1>2 DEF SizeFile
  <2>2. n \in Nat
    BY <1>2, CountType
  <2>3. f \in Nat /\ f = Len(fileBlocks) /\ userBlocks \in Nat
    BY <1>t DEF PlanTypeOK, FilesInv
  <2> HIDE DEF n
  <2>4. /\ Len(sums') = f + 1 /\ sums'[f + 1] = userBlocks + n
        /\ fileBlocks'[f + 1] = n
        /\ \A k \in 1 .. f : sums'[k] = sums[k] /\ fileBlocks'[k] = fileBlocks[k]
    BY <1>t, <2>1, <2>2, <2>3 DEF PlanTypeOK
  <2> DEFINE New(k) == IF k = 0 THEN 0 ELSE sums'[k]
  <2>5. \A k \in 0 .. f : New(k) = At(k) /\ At(k) \in Nat
    BY <1>t, <2>3, <2>4, AtType DEF At
  <2>6. New(f + 1) = userBlocks + n /\ userBlocks = At(f)
    BY <1>t, <2>3, <2>4 DEF SumsInv
  <2>7. \A k \in 0 .. f : New(k) <= New(f + 1)
    BY <1>t, <2>2, <2>3, <2>5, <2>6 DEF SumsInv
  <2>8. \A j, k \in 0 .. f + 1 : j <= k => New(j) <= New(k)
    <3> SUFFICES ASSUME NEW j \in 0 .. f + 1, NEW k \in 0 .. f + 1, j <= k
                 PROVE  New(j) <= New(k)
      OBVIOUS
    <3> HIDE DEF New
    <3>1. CASE k = f + 1
      BY <2>2, <2>3, <2>5, <2>6, <2>7, <3>1
    <3>2. CASE k # f + 1
      <4>1. j \in 0 .. f /\ k \in 0 .. f
        BY <2>3, <3>2
      <4>2. At(j) <= At(k)
        BY <1>t, <4>1 DEF SumsInv
      <4> QED
        BY <2>5, <4>1, <4>2
    <3> QED
      BY <3>1, <3>2
  <2>9. \A k \in 1 .. f + 1 : sums'[k] = New(k - 1) + fileBlocks'[k]
    <3> SUFFICES ASSUME NEW k \in 1 .. f + 1
                 PROVE  sums'[k] = New(k - 1) + fileBlocks'[k]
      OBVIOUS
    <3> HIDE DEF New
    <3>1. CASE k = f + 1
      BY <2>3, <2>4, <2>5, <2>6, <3>1
    <3>2. CASE k # f + 1
      <4>1. k \in 1 .. f /\ k - 1 \in 0 .. f
        BY <2>3, <3>2
      <4>2. sums[k] = At(k - 1) + fileBlocks[k]
        BY <1>t, <4>1 DEF SumsInv
      <4> QED
        BY <2>4, <2>5, <4>1, <4>2
    <3> QED
      BY <3>1, <3>2
  <2>10. \A k : At(k)' = New(k)
    BY DEF At
  <2> HIDE DEF New
  <2> QED
    BY <2>1, <2>3, <2>4, <2>6, <2>8, <2>9, <2>10 DEF SumsInv
<1>3. CASE ~SizeFile
  <2>1. UNCHANGED <<userBlocks, sums, fileBlocks>>
    BY <1>3 DEF PlanStep, PlanOver, planVars, CheckBlockSize, SizeTrees, FilesSized,
                GrowBitmap, Settle, PlaceFile, MarkBitmap
  <2> QED
    BY <1>1, <2>1
<1> QED
  BY <1>1, <1>2, <1>3

\* What the fixed point has reached: a bitmap that is too small needs a larger
\* one, and none smaller than the new one does.
LEMMA TotalStep ==
    ASSUME PlanInv, [PlanStep \/ PlanOver]_planVars
    PROVE  TotalInv'
<1> USE PlanAssumption DEF TotalInv, Counted, Settled
<1>t. PlanTypeOK /\ TotalInv /\ (pc # "blockSize" => blockSize > 0)
  BY DEF PlanInv, ForksInv
<1>u. ASSUME UNCHANGED <<blockSize, forks, userBlocks, alloc>>
      PROVE  /\ \A a : Need(a)' = Need(a)
             /\ \A a : TotalWith(a)' = TotalWith(a)
  BY <1>u DEF Need, TotalWith, Packed, MaxFork
<1>1. CASE CheckBlockSize
  BY <1>t, <1>1 DEF CheckBlockSize
<1>2. CASE SizeTrees
  BY <1>t, <1>2 DEF SizeTrees
<1>3. CASE SizeFile
  BY <1>t, <1>3 DEF SizeFile
<1>4. CASE FilesSized
  BY <1>t, <1>4 DEF FilesSized
<1>5. CASE GrowBitmap
  <2>1. /\ pc = "total" /\ pc' = "total" /\ alloc' = Need(alloc) /\ Need(alloc) > alloc
        /\ UNCHANGED <<blockSize, forks, userBlocks>>
    BY <1>5 DEF GrowBitmap, Grown
  <2>2. \A a : Need(a)' = Need(a)
    BY <2>1 DEF Need, TotalWith, Packed, MaxFork
  <2>3. alloc \in Nat \ {0} /\ blockSize > 0
    BY <1>t, <2>1 DEF PlanTypeOK
  <2>4. Need(alloc) \in Nat
    BY <1>t, <2>3, NeedType
  <2>5. ASSUME NEW a \in 1 .. Need(alloc) - 1 PROVE Need(a) > a
    <3>1. CASE a < alloc
      <4>1. a \in 1 .. alloc - 1
        BY <2>3, <2>4, <3>1
      <4> QED
        BY <1>t, <2>1, <4>1
    <3>2. CASE a >= alloc
      <4>1. Need(alloc) <= Need(a)
        BY <1>t, <2>3, <2>4, <3>2, NeedGrows
      <4>2. Need(a) \in Nat
        BY <1>t, <2>3, <2>4, NeedType
      <4> QED
        BY <2>4, <4>1, <4>2
    <3> QED
      BY <2>3, <2>4, <3>1, <3>2
  <2> QED
    BY <1>t, <2>1, <2>2, <2>5
<1>6. CASE Settle
  <2>0. blockSize > 0 /\ alloc \in Nat
    BY <1>t, <1>6 DEF Settle, PlanTypeOK
  <2>1. TotalWith(alloc) \in Nat
    BY <1>t, <2>0, NeedType
  <2>2. TotalWith(alloc) <= Word - 1 => TotalWith(alloc) < Word
    BY <2>1
  <2>3. UNCHANGED <<blockSize, forks, userBlocks, alloc>>
    BY <1>6 DEF Settle
  <2>4. (\A a : Need(a)' = Need(a)) /\ (\A a : TotalWith(a)' = TotalWith(a))
    BY <1>u, <2>3
  <2>5. CASE pc' = "error"
    BY <1>6, <2>5 DEF Settle
  <2>6. CASE pc' # "error"
    <3>1. /\ pc = "total" /\ pc' = "place" /\ Need(alloc) <= alloc
          /\ TotalWith(alloc) <= Word - 1 /\ total' = TotalWith(alloc)
      BY <1>6, <2>6 DEF Settle
    <3> QED
      BY <1>t, <2>2, <2>3, <2>4, <3>1
  <2> QED
    BY <2>5, <2>6
<1>7. CASE PlaceFile
  <2>1. UNCHANGED <<pc, total, blockSize, forks, userBlocks, alloc>>
    BY <1>7 DEF PlaceFile
  <2> QED
    BY <1>t, <1>u, <2>1
<1>8. CASE MarkBitmap
  <2>1. UNCHANGED <<total, blockSize, forks, userBlocks, alloc>> /\ Settled /\ Settled'
    BY <1>8 DEF MarkBitmap
  <2> QED
    BY <1>t, <1>u, <2>1
<1>9. CASE UNCHANGED planVars
  <2>1. UNCHANGED <<pc, total, blockSize, forks, userBlocks, alloc>>
    BY <1>9 DEF planVars
  <2> QED
    BY <1>t, <1>u, <2>1
<1> QED
  BY <1>1, <1>2, <1>3, <1>4, <1>5, <1>6, <1>7, <1>8, <1>9 DEF PlanStep, PlanOver

\* The cursor never wraps, so each file starts where the sums put it.
\* What is marked, and where, depends on the layout and on the placements alone.
LEMMA MarksKept ==
  ASSUME UNCHANGED <<alloc, forks, total, placements>>
  PROVE  MarksOutside' = MarksOutside
<1>1. Layout' = Layout
  BY DEF Layout, AllocStart, CatalogStart, ExtentsStart, AttributesStart, Extent, U32
<1>2. Marked' = Marked /\ BitmapLength' = BitmapLength /\ \A e : Blocks(e)' = Blocks(e)
  BY <1>1 DEF Marked, BitmapLength, Blocks, U32
<1> QED BY <1>2 DEF MarksOutside

LEMMA PlaceStep ==
    ASSUME PlanInv, [PlanStep \/ PlanOver]_planVars
    PROVE  PlaceInv'
<1> USE PlanAssumption DEF PlaceInv, Settled
<1>t. PlanTypeOK /\ FilesInv /\ SumsInv /\ TotalInv /\ PlaceInv
      /\ (pc # "blockSize" => blockSize > 0)
  BY DEF PlanInv, ForksInv
<1>u. ASSUME UNCHANGED <<alloc, forks, sums, fileBlocks>>
      PROVE  FirstUser' = FirstUser /\ \A k : At(k)' = At(k)
  BY <1>u DEF FirstUser, At
<1>1. CASE CheckBlockSize
  BY <1>t, <1>1 DEF CheckBlockSize
<1>2. CASE SizeTrees
  BY <1>t, <1>2 DEF SizeTrees
<1>3. CASE SizeFile
  BY <1>t, <1>3 DEF SizeFile
<1>4. CASE FilesSized
  BY <1>t, <1>4 DEF FilesSized
<1>5. CASE GrowBitmap
  BY <1>t, <1>5 DEF GrowBitmap
<1>6. CASE Settle
  <2>0. blockSize > 0 /\ alloc \in Nat /\ placements = <<>>
    BY <1>t, <1>6 DEF Settle, PlanTypeOK
  <2>1. TotalWith(alloc) \in Nat
    BY <1>t, <2>0, NeedType
  <2>2. CASE pc' = "error"
    BY <1>6, <2>0, <2>2 DEF Settle
  <2>3. CASE pc' # "error"
    <3>1. /\ TotalWith(alloc) < Word /\ cursor' = UserDataStart /\ pc' = "place"
          /\ UNCHANGED <<alloc, forks, sums, fileBlocks, placements, files>>
      BY <1>6, <2>1, <2>3 DEF Settle
    <3>2. UserDataStart = FirstUser /\ FirstUser \in Nat
      BY <1>t, <2>0, <2>1, <3>1, Starts
    <3>3. FirstUser' = FirstUser
      BY <1>u, <3>1
    <3>4. placements' = <<>> /\ Len(placements') = 0 /\ Len(files') \in Nat
      BY <1>t, <2>0, <3>1 DEF PlanTypeOK
    <3>5. At(0)' = 0
      BY DEF At
    <3> QED
      BY <3>1, <3>2, <3>3, <3>4, <3>5
  <2> QED
    BY <2>2, <2>3
<1>7. CASE PlaceFile
  <2> DEFINE p == Len(placements)
             n == fileBlocks[p + 1]
             e == Extent(IF n = 0 THEN 0 ELSE cursor, n)
  <2>1. /\ pc = "place" /\ pc' = "place" /\ p < Len(files)
        /\ placements' = Append(placements, e) /\ cursor' = Advance(n)
        /\ UNCHANGED <<alloc, forks, sums, fileBlocks, files>>
    BY <1>7 DEF PlaceFile
  <2>2. /\ p \in Nat /\ p + 1 \in 1 .. Len(fileBlocks) /\ p + 1 \in 1 .. Len(sums)
        /\ Len(files) \in Nat /\ Len(sums) = Len(files) /\ n \in Nat
    BY <1>t, <2>1 DEF PlanTypeOK, FilesInv, Counted
  <2>3. At(p + 1) = At(p) + n /\ At(p + 1) <= userBlocks
    <3>1. sums[p + 1] = At(p) + n
      BY <1>t, <2>2 DEF SumsInv
    <3>2. At(p + 1) = sums[p + 1]
      BY <2>2 DEF At
    <3>3. At(p + 1) <= At(Len(sums))
      BY <1>t, <2>2 DEF SumsInv
    <3> QED
      BY <1>t, <3>1, <3>2, <3>3 DEF SumsInv
  <2>4. At(p) \in Nat
    BY <1>t, <2>2, AtType
  <2>5. total = TotalWith(alloc) /\ total \in Nat /\ total < Word /\ blockSize > 0
    BY <1>t, <2>1 DEF TotalInv, PlanTypeOK
  <2>6. FirstUser \in Nat /\ FirstUser + userBlocks + 1 <= total
    BY <1>t, <2>5, Starts
  <2>7. cursor = FirstUser + At(p) /\ userBlocks \in Nat
    BY <1>t, <2>1 DEF PlanTypeOK
  <2>8. cursor' = FirstUser + At(p + 1)
    <3> HIDE DEF n, p
    <3>w. Word \in Nat
      OBVIOUS
    <3>c. cursor \in Nat /\ cursor + n = FirstUser + At(p + 1) /\ At(p + 1) \in Nat
      BY ONLY <2>2, <2>3, <2>4, <2>6, <2>7
    <3>d. cursor + n < total
      BY ONLY <2>3, <2>5, <2>6, <2>7, <3>c
    <3>1. cursor + n = FirstUser + At(p + 1) /\ cursor + n \in Nat /\ cursor + n < Word
      BY ONLY <2>2, <2>5, <3>w, <3>c, <3>d
    <3>2. \A m \in Nat : m < Word => m % Word = m
      BY <2>5
    <3>3. Advance(n) = cursor + n
      BY ONLY <3>1, <3>2 DEF Advance, U32
    <3> QED
      BY <2>1, <3>1, <3>3
  <2>9. FirstUser' = FirstUser /\ \A k : At(k)' = At(k)
    BY <1>u, <2>1
  <2>10. /\ e.blocks = n /\ e.start = IF n = 0 THEN 0 ELSE FirstUser + At(p)
         /\ e \in [start : Nat, blocks : Nat]
    BY <1>t, <2>2, <2>7 DEF Extent, PlanTypeOK
  <2> HIDE DEF e
  <2>11. /\ Len(placements') = p + 1 /\ placements'[p + 1] = e
         /\ \A k \in 1 .. p : placements'[k] = placements[k]
    BY <1>t, <2>1, <2>10 DEF PlanTypeOK
  <2>12. ASSUME NEW k \in 1 .. p + 1
         PROVE  /\ placements'[k].blocks = fileBlocks[k]
                /\ placements'[k].start =
                      IF fileBlocks[k] = 0 THEN 0 ELSE FirstUser + At(k - 1)
    <3>1. CASE k = p + 1
      <4>1. k - 1 = p /\ fileBlocks[k] = n
        BY <2>2, <3>1
      <4> QED
        BY <2>10, <2>11, <3>1, <4>1
    <3>2. CASE k # p + 1
      <4>1. k \in 1 .. p
        BY <2>2, <3>2
      <4> QED
        BY <1>t, <2>1, <2>11, <4>1
    <3> QED
      BY <3>1, <3>2
  <2> HIDE DEF n
  <2> QED
    BY <2>1, <2>2, <2>8, <2>9, <2>11, <2>12
<1>8. CASE MarkBitmap
  <2>1. /\ UNCHANGED <<alloc, forks, sums, fileBlocks, placements, cursor, files, total>>
        /\ pc = "place" /\ pc' \in {"planned", "panic"} /\ Len(placements) = Len(files)
        /\ bitmapBytes' = BitmapLength /\ nextAllocation' = NextFree
        /\ pc' = "planned" => ~MarksOutside
    BY <1>8 DEF MarkBitmap
  <2>2. FirstUser' = FirstUser /\ \A k : At(k)' = At(k)
    BY <1>u, <2>1
  <2>3. BitmapLength' = BitmapLength /\ NextFree' = NextFree
    BY <2>1 DEF BitmapLength, NextFree, U32
  <2>4. MarksOutside' = MarksOutside
    BY <2>1, MarksKept
  <2> QED
    BY <1>t, <2>1, <2>2, <2>3, <2>4
<1>9. CASE UNCHANGED planVars
  <2>1. UNCHANGED <<pc, alloc, forks, sums, fileBlocks, placements, cursor, files,
                    total, bitmapBytes, nextAllocation>>
    BY <1>9 DEF planVars
  <2>2. FirstUser' = FirstUser /\ \A k : At(k)' = At(k)
    BY <1>u, <2>1
  <2>3. BitmapLength' = BitmapLength /\ NextFree' = NextFree
    BY <2>1 DEF BitmapLength, NextFree, U32
  <2>4. MarksOutside' = MarksOutside
    BY <2>1, MarksKept
  <2> QED
    BY <1>t, <2>1, <2>2, <2>3, <2>4
<1> QED
  BY <1>1, <1>2, <1>3, <1>4, <1>5, <1>6, <1>7, <1>8, <1>9 DEF PlanStep, PlanOver

\* A step of BuildPlan keeps the invariant.
LEMMA PlanInvStep == PlanInv /\ [PlanStep \/ PlanOver]_planVars => PlanInv'
BY PlanTypeStep, ForksStep, FilesStep, SumsStep, TotalStep, PlaceStep DEF PlanInv

\* Every state of the specification satisfies the invariant.
THEOREM PlanInvCorrect == PlanSpec => []PlanInv
<1> QED
  BY PlanInvInit, PlanInvStep, PTL DEF PlanSpec

----------------------------------------------------------------------------
(* What the invariant gives.                                               *)

\* A plan whose bitmap holds every block has not had its length wrapped.
LEMMA BitmapWhole ==
  ASSUME PlanInv, pc = "planned"
  PROVE  bitmapBytes = DivRoundUp(total, 8)
<1>1. /\ PlanTypeOK /\ blockSize > 0 /\ total = TotalWith(alloc) /\ total < Word
      /\ Word \in Nat /\ total \in Nat /\ alloc \in Nat /\ blockSize \in Nat
  BY PlanAssumption DEF PlanInv, PlanTypeOK, ForksInv, TotalInv, Settled
<1>2. \A t \in Trees : forks[t] \in Nat /\ forks[t] >= 1
  <2>1. Counted
    BY DEF Counted, Settled
  <2> QED
    BY <1>1, <2>1 DEF PlanInv, ForksInv
<1>3. total >= 6
  <2>1. /\ FirstUser \in Nat /\ FirstUser + userBlocks + 1 <= total
        /\ userBlocks \in Nat
    BY <1>1, Starts DEF PlanTypeOK
  <2>2. /\ forks["catalog"] \in Nat /\ forks["catalog"] >= 1
        /\ forks["extents"] \in Nat /\ forks["extents"] >= 1
        /\ forks["attributes"] \in Nat /\ forks["attributes"] >= 1
    BY <1>2 DEF Trees
  <2>3. FirstUser >= 5
    <3>1. alloc >= 1
      BY <1>1 DEF PlanTypeOK
    <3> QED
      BY <1>1, <2>2, <3>1 DEF FirstUser
  <2> QED
    BY <1>1, <2>1, <2>3
<1>4. ~MarksOutside /\ bitmapBytes = BitmapLength
  BY DEF PlanInv, PlaceInv
<1>5. total + 7 < Word
  <2> SUFFICES ASSUME total + 7 >= Word PROVE FALSE
    BY <1>1
  <2>1. U32(total + 7) = total + 7 - Word
    <3>1. \A n, w \in Nat : w > 0 /\ w <= n /\ n < 2 * w => n % w = n - w
      OBVIOUS
    <3>2. total + 7 \in Nat /\ Word > 0 /\ Word <= total + 7 /\ total + 7 < 2 * Word
      BY <1>1, <1>3
    <3> QED
      BY <1>1, <3>1, <3>2 DEF U32
  <2>2. BitmapLength = 0
    <3>1. total + 7 - Word \in 0 .. 6
      BY <1>1
    <3> QED
      BY <2>1, <3>1 DEF BitmapLength
  <2>3. Layout[6] \in Marked /\ Layout[6] = Extent(total - 1, 1)
    <3>1. 6 \in DOMAIN Layout
      BY DEF Layout
    <3> QED
      BY <3>1 DEF Marked, Layout
  <2>4. total - 1 \in Blocks(Layout[6])
    BY <1>1, <1>3, <2>3 DEF Blocks, Extent
  <2>5. (total - 1) \div 8 >= 0
    BY <1>1, <1>3
  <2> QED
    BY <1>4, <2>2, <2>3, <2>4, <2>5 DEF MarksOutside
<1>6. U32(total + 7) = total + 7
  <2>1. \A n, w \in Nat : n < w => n % w = n
    OBVIOUS
  <2> QED
    BY <1>1, <1>5, <2>1 DEF U32
<1> QED
  BY <1>1, <1>4, <1>6 DEF BitmapLength, DivRoundUp
\* A bit for each block, in whole bytes, is what the fixed point has made room for.
LEMMA BitmapInFork == PlanInv => BitmapFits
<1>1. ASSUME PlanInv, pc = "planned" PROVE bitmapBytes <= alloc * blockSize
  <2>1. /\ PlanTypeOK /\ blockSize > 0 /\ alloc \in Nat /\ blockSize \in Nat
        /\ total \in Nat /\ Word \in Nat \ {0}
    BY <1>1, PlanAssumption DEF PlanInv, PlanTypeOK, ForksInv
  <2>2. bitmapBytes = U32(total + 7) \div 8 /\ total = TotalWith(alloc) /\ Need(alloc) <= alloc
    BY <1>1 DEF PlanInv, PlaceInv, TotalInv, Settled, BitmapLength
  <2> DEFINE b == blockSize * 8
             c == alloc * blockSize
             t == U32(total + 7)
  <2>3. b \in Nat /\ b > 0
    BY <2>1
  <2>4. Need(alloc) = DivRoundUp(total, b) /\ DivRoundUp(total, b) \in Nat
    BY <2>1, <2>2, <2>3, RoundUp DEF Need
  <2>5. total <= b * DivRoundUp(total, b)
    BY <2>1, <2>3, RoundUp
  <2>6. b * DivRoundUp(total, b) <= b * alloc
    BY ONLY <2>1, <2>2, <2>3, <2>4, Grows
  <2>7. c \in Nat
    BY <2>1
  <2>8. b * alloc = 8 * c
    BY <2>1
  <2>9. t \in Nat /\ t <= total + 7
    <3>1. total + 7 \in Nat
      BY <2>1
    <3>2. \A n \in Nat : n % Word \in Nat /\ n % Word <= n
      <4> SUFFICES ASSUME NEW n \in Nat PROVE n % Word \in Nat /\ n % Word <= n
        OBVIOUS
      <4>1. n \div Word \in Nat /\ n % Word \in Nat
            /\ n = Word * (n \div Word) + (n % Word)
        BY <2>1
      <4>2. Word * (n \div Word) \in Nat
        BY <2>1, <4>1
      <4> QED
        BY <4>1, <4>2
    <3> QED
      BY <3>1, <3>2 DEF U32
  <2>10. total <= 8 * c
    <3>1. b * DivRoundUp(total, b) \in Nat
      BY <2>3, <2>4
    <3> QED
      BY <2>1, <2>5, <2>6, <2>7, <2>8, <3>1
  <2> HIDE DEF t, c
  <2>11. t < 8 * c + 8
    BY <2>1, <2>7, <2>9, <2>10
  <2>12. t \div 8 <= c
    BY <2>7, <2>9, <2>11, QuotientUnder
  <2> QED
    BY <2>2, <2>12 DEF t, c
<1>2. ASSUME PlanInv, pc = "planned" PROVE total <= 8 * bitmapBytes
  <2>1. total \in Nat /\ bitmapBytes = DivRoundUp(total, 8)
    BY <1>2, BitmapWhole DEF PlanInv, PlanTypeOK
  <2> QED
    BY <2>1, RoundUp
<1> QED
  BY <1>1, <1>2 DEF BitmapFits

\* The bitmap has a bit for every block of the volume it lies in, and fits the blocks
\* laid out for it, whatever the fixed point of BuildPlan came to.
THEOREM BitmapFitsCorrect == PlanSpec => []BitmapFits
  BY BitmapInFork, PlanInvCorrect, PTL

\* Where a placed file is among the blocks of the files.
LEMMA FilePlaces ==
    ASSUME PlanInv, pc = "planned", NEW j \in DOMAIN placements
    PROVE  /\ Len(placements) = Len(sums) /\ j \in 1 .. Len(sums) /\ Len(sums) \in Nat
           /\ placements[j].blocks = fileBlocks[j]
           /\ fileBlocks[j] \in Nat
           /\ placements[j].start =
                 IF fileBlocks[j] = 0 THEN 0 ELSE FirstUser + At(j - 1)
           /\ At(j) = At(j - 1) + fileBlocks[j]
           /\ At(j - 1) \in Nat /\ At(j) \in Nat
           /\ At(j) <= userBlocks
<1>1. PlanTypeOK /\ Len(placements) = Len(files) /\ Len(sums) = Len(files)
  BY DEF PlanInv, PlaceInv, FilesInv, Counted, Settled
<1>2. j \in 1 .. Len(sums) /\ j - 1 \in 0 .. Len(sums) /\ j \in 0 .. Len(sums)
      /\ Len(sums) \in Nat
  BY <1>1 DEF PlanTypeOK
<1>3. /\ placements[j].blocks = fileBlocks[j]
      /\ placements[j].start =
            IF fileBlocks[j] = 0 THEN 0 ELSE FirstUser + At(j - 1)
  BY <1>1, <1>2 DEF PlanInv, PlaceInv, Settled
<1>4. fileBlocks[j] \in Nat
  <2>1. j \in 1 .. Len(fileBlocks) /\ fileBlocks \in Seq(Nat)
    BY <1>1, <1>2 DEF PlanInv, FilesInv, PlanTypeOK
  <2> QED
    BY <2>1
<1>5. sums[j] = At(j - 1) + fileBlocks[j] /\ At(j) = sums[j]
  BY <1>2 DEF PlanInv, SumsInv, At
<1>6. At(j) <= At(Len(sums)) /\ userBlocks = At(Len(sums))
  BY <1>2 DEF PlanInv, SumsInv
<1>7. At(j - 1) \in Nat /\ At(j) \in Nat
  BY <1>1, <1>2, AtType
<1> QED
  BY <1>1, <1>2, <1>3, <1>4, <1>5, <1>6, <1>7

\* No block of the volume belongs to two forks, and all of them lie between the
\* primary header and the alternate one.
LEMMA ForksApart == PlanInv => ForksDisjoint
<1>1. ASSUME PlanInv, pc = "planned"
      PROVE  /\ \A i \in 1 .. 5 : Layout[i].blocks > 0 /\ EndOf(Layout[i]) <= Layout[i + 1].start
             /\ EndOf(Layout[6]) = total
             /\ \A k \in DOMAIN placements :
                   placements[k].blocks > 0 =>
                      /\ EndOf(Layout[5]) <= placements[k].start
                      /\ EndOf(placements[k]) <= Layout[6].start
                      /\ \A j \in 1 .. k - 1 : EndOf(placements[j]) <= placements[k].start
  <2>1. /\ PlanTypeOK /\ blockSize > 0 /\ alloc \in Nat \ {0} /\ total \in Nat
        /\ userBlocks \in Nat
        /\ \A t \in Trees : forks[t] \in Nat \ {0}
    BY <1>1, PlanAssumption DEF PlanInv, PlanTypeOK, ForksInv, Counted, Settled
  <2>2. total = TotalWith(alloc) /\ total < Word
    BY <1>1 DEF PlanInv, TotalInv, Settled
  <2>3. /\ CatalogStart = 1 + alloc
        /\ ExtentsStart = CatalogStart + forks["catalog"]
        /\ AttributesStart = ExtentsStart + forks["extents"]
        /\ FirstUser = AttributesStart + forks["attributes"]
        /\ FirstUser \in Nat
        /\ FirstUser + userBlocks + 1 <= total
    BY <2>1, <2>2, Starts
  <2>4. /\ forks["catalog"] \in Nat \ {0} /\ forks["extents"] \in Nat \ {0}
        /\ forks["attributes"] \in Nat \ {0}
    BY <2>1 DEF Trees
  <2>5. /\ Layout[1] = Extent(0, 1) /\ Layout[2] = Extent(1, alloc)
        /\ Layout[3] = Extent(CatalogStart, forks["catalog"])
        /\ Layout[4] = Extent(ExtentsStart, forks["extents"])
        /\ Layout[5] = Extent(AttributesStart, forks["attributes"])
        /\ Layout[6] = Extent(total - 1, 1)
    BY DEF Layout, AllocStart
  <2>6. \A s, n : Extent(s, n).start = s /\ Extent(s, n).blocks = n
    BY DEF Extent
  <2>7. /\ EndOf(Layout[1]) = 1 /\ EndOf(Layout[2]) = 1 + alloc
        /\ EndOf(Layout[3]) = ExtentsStart /\ EndOf(Layout[4]) = AttributesStart
        /\ EndOf(Layout[5]) = FirstUser /\ EndOf(Layout[6]) = total
    BY <2>1, <2>3, <2>4, <2>5, <2>6 DEF EndOf
  <2>8. /\ Layout[2].start = 1 /\ Layout[3].start = 1 + alloc
        /\ Layout[4].start = ExtentsStart /\ Layout[5].start = AttributesStart
        /\ Layout[6].start = total - 1 /\ FirstUser <= total - 1
    BY <2>1, <2>3, <2>5, <2>6
  <2>9. /\ Layout[1].blocks > 0 /\ Layout[2].blocks > 0 /\ Layout[3].blocks > 0
        /\ Layout[4].blocks > 0 /\ Layout[5].blocks > 0
    BY <2>1, <2>4, <2>5, <2>6
  <2>10. ExtentsStart \in Nat /\ AttributesStart \in Nat
    BY <2>1, <2>3, <2>4
  <2>11. ASSUME NEW i \in 1 .. 5
         PROVE  Layout[i].blocks > 0 /\ EndOf(Layout[i]) <= Layout[i + 1].start
    <3>1. i = 1 \/ i = 2 \/ i = 3 \/ i = 4 \/ i = 5
      OBVIOUS
    <3> QED
      BY <2>1, <2>3, <2>7, <2>8, <2>9, <2>10, <3>1
  <2>12. ASSUME NEW k \in DOMAIN placements, placements[k].blocks > 0
         PROVE  /\ FirstUser <= placements[k].start
                /\ EndOf(placements[k]) <= total - 1
                /\ \A j \in 1 .. k - 1 : EndOf(placements[j]) <= placements[k].start
    <3>1. /\ Len(placements) = Len(sums) /\ k \in 1 .. Len(sums) /\ Len(sums) \in Nat
          /\ \A j \in 1 .. k : j \in 1 .. Len(sums)
      <4>1. Len(placements) = Len(files)
        BY <1>1 DEF PlanInv, PlaceInv
      <4>2. Len(sums) = Len(files)
        BY <1>1 DEF PlanInv, FilesInv, Counted, Settled
      <4>3. k \in 1 .. Len(placements) /\ Len(sums) \in Nat
        BY <2>1 DEF PlanTypeOK
      <4> QED
        BY <4>1, <4>2, <4>3
    <3>2. ASSUME NEW j \in 1 .. k
          PROVE  /\ placements[j].blocks = fileBlocks[j]
                 /\ fileBlocks[j] \in Nat
                 /\ placements[j].start =
                       IF fileBlocks[j] = 0 THEN 0 ELSE FirstUser + At(j - 1)
                 /\ At(j) = At(j - 1) + fileBlocks[j]
                 /\ At(j - 1) \in Nat /\ At(j) \in Nat
                 /\ At(j) <= userBlocks
      <4>1. j \in DOMAIN placements
        BY <2>1, <3>1 DEF PlanTypeOK
      <4> QED
        BY <1>1, <4>1, FilePlaces
    <3>3. k \in 1 .. k /\ k \in Nat
      BY <3>1
    <3>4. FirstUser <= placements[k].start /\ placements[k].start = FirstUser + At(k - 1)
      BY <2>3, <2>12, <3>2, <3>3
    <3>5. EndOf(placements[k]) <= total - 1
      BY <2>1, <2>3, <3>2, <3>3, <3>4 DEF EndOf
    <3>6. ASSUME NEW j \in 1 .. k - 1
          PROVE  EndOf(placements[j]) <= placements[k].start
      <4>1. j \in 1 .. k /\ j \in 0 .. Len(sums) /\ k - 1 \in 0 .. Len(sums) /\ j <= k - 1
        BY <3>1
      <4>2. At(j) <= At(k - 1)
        BY <1>1, <4>1 DEF PlanInv, SumsInv
      <4>3. /\ placements[j].blocks = fileBlocks[j] /\ fileBlocks[j] \in Nat
            /\ placements[j].start =
                  IF fileBlocks[j] = 0 THEN 0 ELSE FirstUser + At(j - 1)
            /\ At(j) = At(j - 1) + fileBlocks[j] /\ At(j - 1) \in Nat /\ At(j) \in Nat
        BY <3>2, <4>1
      <4>4. CASE fileBlocks[j] > 0
        BY <2>3, <3>2, <3>3, <3>4, <4>2, <4>3, <4>4 DEF EndOf
      <4>5. CASE fileBlocks[j] = 0
        <5>1. placements[j].start = 0
          BY <4>3, <4>5
        <5> QED
          BY <2>3, <3>2, <3>3, <3>4, <4>3, <4>5, <5>1 DEF EndOf
      <4> QED
        BY <4>3, <4>4, <4>5
    <3> QED
      BY <3>4, <3>5, <3>6
  <2> QED
    BY <2>7, <2>8, <2>11, <2>12
<1> QED
  BY <1>1 DEF ForksDisjoint

\* Whatever the sizes, BuildPlan lays the forks, the files and the headers apart.
THEOREM ForksDisjointCorrect == PlanSpec => []ForksDisjoint
  BY ForksApart, PlanInvCorrect, PTL

\* A file's extent holds the file, and wastes less than a block.
LEMMA ExtentsHold == PlanInv => ExtentsHoldFiles
<1>1. ASSUME PlanInv, pc = "planned", NEW k \in DOMAIN files
      PROVE  /\ files[k] <= placements[k].blocks * blockSize
             /\ placements[k].blocks * blockSize < files[k] + blockSize
  <2>1. blockSize \in Nat /\ blockSize > 0 /\ files[k] \in Nat
    BY <1>1 DEF PlanInv, PlanTypeOK, ForksInv
  <2>2. k \in 1 .. Len(fileBlocks) /\ k \in 1 .. Len(placements)
    BY <1>1 DEF PlanInv, PlanTypeOK, FilesInv, PlaceInv, Counted, Settled
  <2>3. placements[k].blocks = DivRoundUp(files[k], blockSize)
    BY <1>1, <2>2 DEF PlanInv, FilesInv, PlaceInv, Settled
  <2> DEFINE q == DivRoundUp(files[k], blockSize)
  <2>4. q \in Nat /\ files[k] <= blockSize * q /\ blockSize * q < files[k] + blockSize
    BY ONLY <2>1, RoundUp
  <2> HIDE DEF q
  <2>5. blockSize * q = q * blockSize
    BY <2>1, <2>4
  <2> QED
    BY <2>3, <2>4, <2>5 DEF q
<1> QED
  BY <1>1 DEF ExtentsHoldFiles

\* The blocks BuildPlan gives a file are enough for it, and no more than it needs.
THEOREM ExtentsHoldFilesCorrect == PlanSpec => []ExtentsHoldFiles
  BY ExtentsHold, PlanInvCorrect, PTL

\* A volume holds each of its trees four times, the cap of fsck_hfs.
THEOREM ClumpCapCorrect == PlanSpec => []ClumpCap
<1>1. ASSUME PlanInv, pc = "planned", NEW t \in Trees
      PROVE  4 * forks[t] <= total
  <2>1. PlanTypeOK /\ blockSize > 0 /\ alloc \in Nat /\ total = TotalWith(alloc)
        /\ total \in Nat /\ forks[t] \in Nat
    BY <1>1 DEF PlanInv, PlanTypeOK, ForksInv, TotalInv, Settled
  <2>2. MaxFork \in Nat /\ forks[t] <= MaxFork /\ 4 * MaxFork <= TotalWith(alloc)
    BY <2>1, NeedType
  <2> QED
    BY <2>1, <2>2
<1>2. PlanInv => ClumpCap
  BY <1>1 DEF ClumpCap
<1> QED
  BY <1>2, PlanInvCorrect, PTL

\* The loop of the code stops at the smallest bitmap that describes its volume.
THEOREM LeastBitmapCorrect == PlanSpec => []LeastBitmap
<1>1. PlanInv => LeastBitmap
  BY DEF PlanInv, TotalInv, LeastBitmap, Counted, Settled
<1> QED
  BY <1>1, PlanInvCorrect, PTL

----------------------------------------------------------------------------
(* The free blocks.                                                        *)

\* A set of natural numbers has a least element.
LEMMA LeastOf ==
    ASSUME NEW S \in SUBSET Nat, S # {}
    PROVE  \E i \in S : \A j \in S : i <= j
<1> DEFINE R == OpToRel(<, Nat)
<1>1. IsWellFoundedOn(R, Nat)
  BY NatLessThanWellFounded, Zenon
<1>2. ASSUME NEW i \in S, NEW j \in S, ~(<<j, i>> \in R) PROVE i <= j
  <2>1. i \in Nat /\ j \in Nat /\ ~(j < i)
    BY <1>2 DEF OpToRel
  <2> QED
    BY <2>1
<1> HIDE DEF R
<1>3. \E i \in S : \A j \in S : ~(<<j, i>> \in R)
  BY <1>1, WFMin
<1> QED
  BY <1>2, <1>3

\* Where the plan ends: the trees, the files after them, and the last block.
LEMMA Ends ==
    ASSUME PlanInv, pc = "planned"
    PROVE  /\ cursor = FirstUser + userBlocks /\ cursor \in Nat /\ FirstUser \in Nat
           /\ userBlocks \in Nat /\ total \in Nat /\ cursor <= total - 1
           /\ 1 <= CatalogStart /\ CatalogStart <= ExtentsStart
           /\ ExtentsStart <= AttributesStart /\ AttributesStart <= FirstUser
           /\ CatalogStart \in Nat /\ ExtentsStart \in Nat /\ AttributesStart \in Nat
           /\ forks["catalog"] \in Nat /\ forks["extents"] \in Nat
           /\ forks["attributes"] \in Nat /\ alloc \in Nat
           /\ CatalogStart = 1 + alloc
           /\ ExtentsStart = CatalogStart + forks["catalog"]
           /\ AttributesStart = ExtentsStart + forks["extents"]
           /\ FirstUser = AttributesStart + forks["attributes"]
<1>1. /\ PlanTypeOK /\ blockSize > 0 /\ alloc \in Nat \ {0} /\ total \in Nat
      /\ userBlocks \in Nat /\ forks["catalog"] \in Nat /\ forks["extents"] \in Nat
      /\ forks["attributes"] \in Nat
  BY DEF PlanInv, PlanTypeOK, ForksInv, Trees
<1>2. total = TotalWith(alloc) /\ total < Word
  BY DEF PlanInv, TotalInv, Settled
<1>3. /\ CatalogStart = 1 + alloc
      /\ ExtentsStart = CatalogStart + forks["catalog"]
      /\ AttributesStart = ExtentsStart + forks["extents"]
      /\ FirstUser = AttributesStart + forks["attributes"]
      /\ FirstUser \in Nat /\ FirstUser + userBlocks + 1 <= total
  BY <1>1, <1>2, Starts
<1>4. cursor = FirstUser + userBlocks
  <2>1. cursor = FirstUser + At(Len(placements)) /\ userBlocks = At(Len(sums))
    BY DEF PlanInv, PlaceInv, SumsInv, Settled
  <2>2. Len(placements) = Len(sums)
    BY DEF PlanInv, PlaceInv, FilesInv, Counted, Settled
  <2> QED
    BY <2>1, <2>2
<1> QED
  BY <1>1, <1>3, <1>4
\* The blocks of an extent inside the volume.
LEMMA BlocksOf ==
    ASSUME NEW s \in Nat, NEW n \in Nat, total \in Nat, s + n <= total, NEW e,
           e.start = s, e.blocks = n
    PROVE  \A b : b \in Blocks(e) <=> b \in Nat /\ s <= b /\ b < s + n
BY DEF Blocks

\* A block of the files is a block of one file: of the first that ends after it.
LEMMA FileOfBlock ==
    ASSUME PlanInv, pc = "planned", NEW b \in Nat, FirstUser <= b, b < cursor
    PROVE  \E k \in DOMAIN placements : b \in Blocks(placements[k])
<1>0. /\ cursor = FirstUser + userBlocks /\ cursor \in Nat /\ FirstUser \in Nat
      /\ userBlocks \in Nat /\ total \in Nat /\ cursor <= total - 1
  BY Ends
<1>1. /\ PlanTypeOK /\ Len(placements) = Len(sums) /\ Len(sums) \in Nat
      /\ DOMAIN placements = 1 .. Len(sums) /\ userBlocks = At(Len(sums))
  BY DEF PlanInv, PlanTypeOK, PlaceInv, FilesInv, SumsInv, Counted, Settled
<1> DEFINE S == {k \in 1 .. Len(sums) : b < FirstUser + At(k)}
<1>2. S # {} /\ S \subseteq Nat
  <2>1. Len(sums) # 0
    BY <1>0, <1>1 DEF At
  <2>2. Len(sums) \in S
    BY <1>0, <1>1, <2>1
  <2> QED
    BY <2>2
<1>3. PICK k \in S : \A j \in S : k <= j
  BY <1>2, LeastOf
<1>4. /\ k \in DOMAIN placements /\ k \in Nat /\ k >= 1
      /\ b < FirstUser + At(k)
  BY <1>1, <1>3
<1>5. /\ placements[k].blocks = fileBlocks[k] /\ fileBlocks[k] \in Nat
      /\ placements[k].start = IF fileBlocks[k] = 0 THEN 0 ELSE FirstUser + At(k - 1)
      /\ At(k) = At(k - 1) + fileBlocks[k]
      /\ At(k - 1) \in Nat /\ At(k) \in Nat /\ At(k) <= userBlocks
  BY <1>4, FilePlaces
<1>6. FirstUser + At(k - 1) <= b
  <2>1. CASE k = 1
    BY <1>0, <2>1 DEF At
  <2>2. CASE k # 1
    <3>1. k - 1 \in 1 .. Len(sums) /\ ~(k <= k - 1)
      BY <1>1, <1>4, <2>2
    <3>2. k - 1 \notin S
      BY <1>3, <3>1
    <3> QED
      BY <1>0, <1>5, <3>1, <3>2
  <2> QED
    BY <2>1, <2>2
<1> HIDE DEF S
<1>7. fileBlocks[k] # 0
  BY <1>0, <1>4, <1>5, <1>6
<1>8. placements[k].start = FirstUser + At(k - 1)
  BY <1>5, <1>7
<1>9. FirstUser + At(k - 1) \in Nat /\ FirstUser + At(k - 1) + fileBlocks[k] <= total
      /\ b < FirstUser + At(k - 1) + fileBlocks[k]
  BY <1>0, <1>4, <1>5
<1>10. b \in Blocks(placements[k])
  BY <1>0, <1>5, <1>6, <1>8, <1>9, BlocksOf
<1> QED
  BY <1>4, <1>10

\* What the bitmap marks is everything up to the last file, and the last block.
LEMMA UsedBlocks ==
    ASSUME PlanInv, pc = "planned"
    PROVE  Used = (0 .. cursor - 1) \cup {total - 1}
<1>0. /\ cursor = FirstUser + userBlocks /\ cursor \in Nat /\ FirstUser \in Nat
      /\ userBlocks \in Nat /\ total \in Nat /\ cursor <= total - 1
      /\ 1 <= CatalogStart /\ CatalogStart <= ExtentsStart
      /\ ExtentsStart <= AttributesStart /\ AttributesStart <= FirstUser
      /\ CatalogStart \in Nat /\ ExtentsStart \in Nat /\ AttributesStart \in Nat
      /\ forks["catalog"] \in Nat /\ forks["extents"] \in Nat
      /\ forks["attributes"] \in Nat /\ alloc \in Nat
      /\ CatalogStart = 1 + alloc
      /\ ExtentsStart = CatalogStart + forks["catalog"]
      /\ AttributesStart = ExtentsStart + forks["extents"]
      /\ FirstUser = AttributesStart + forks["attributes"]
  BY Ends
<1>1. /\ Layout[1] = Extent(0, 1) /\ Layout[2] = Extent(1, alloc)
      /\ Layout[3] = Extent(CatalogStart, forks["catalog"])
      /\ Layout[4] = Extent(ExtentsStart, forks["extents"])
      /\ Layout[5] = Extent(AttributesStart, forks["attributes"])
      /\ Layout[6] = Extent(total - 1, 1)
      /\ DOMAIN Layout = 1 .. 6
  BY DEF Layout, AllocStart
<1>2. \A s, n : Extent(s, n).start = s /\ Extent(s, n).blocks = n
  BY DEF Extent
<1>3. ASSUME NEW s \in Nat, NEW n \in Nat, s + n <= total
      PROVE  \A b : b \in Blocks(Extent(s, n)) <=> b \in Nat /\ s <= b /\ b < s + n
  BY <1>0, <1>2, <1>3, BlocksOf
<1>4. /\ \A b : b \in Blocks(Layout[1]) <=> b \in Nat /\ 0 <= b /\ b < 1
      /\ \A b : b \in Blocks(Layout[2]) <=> b \in Nat /\ 1 <= b /\ b < CatalogStart
      /\ \A b : b \in Blocks(Layout[3]) <=> b \in Nat /\ CatalogStart <= b /\ b < ExtentsStart
      /\ \A b : b \in Blocks(Layout[4]) <=> b \in Nat /\ ExtentsStart <= b /\ b < AttributesStart
      /\ \A b : b \in Blocks(Layout[5]) <=> b \in Nat /\ AttributesStart <= b /\ b < FirstUser
      /\ \A b : b \in Blocks(Layout[6]) <=> b = total - 1
  <2>1. \A b : b \in Blocks(Layout[1]) <=> b \in Nat /\ 0 <= b /\ b < 1
    BY <1>0, <1>1, <1>3
  <2>2. \A b : b \in Blocks(Layout[2]) <=> b \in Nat /\ 1 <= b /\ b < CatalogStart
    BY <1>0, <1>1, <1>3
  <2>3. \A b : b \in Blocks(Layout[3]) <=> b \in Nat /\ CatalogStart <= b /\ b < ExtentsStart
    BY <1>0, <1>1, <1>3
  <2>4. \A b : b \in Blocks(Layout[4]) <=> b \in Nat /\ ExtentsStart <= b /\ b < AttributesStart
    BY <1>0, <1>1, <1>3
  <2>5. \A b : b \in Blocks(Layout[5]) <=> b \in Nat /\ AttributesStart <= b /\ b < FirstUser
    BY <1>0, <1>1, <1>3
  <2>6. \A b : b \in Blocks(Layout[6]) <=> b = total - 1
    <3>1. total - 1 \in Nat /\ (total - 1) + 1 <= total
      BY <1>0
    <3>2. \A b : b \in Blocks(Extent(total - 1, 1)) <=>
                    b \in Nat /\ total - 1 <= b /\ b < (total - 1) + 1
      BY <1>3, <3>1
    <3> QED
      BY <1>0, <1>1, <3>1, <3>2
  <2> QED
    BY <2>1, <2>2, <2>3, <2>4, <2>5, <2>6
<1>5. ASSUME NEW b, NEW e \in Marked, b \in Blocks(e)
      PROVE  b \in (0 .. cursor - 1) \cup {total - 1}
  <2>1. CASE \E i \in 1 .. 6 : e = Layout[i]
    <3>1. PICK i \in 1 .. 6 : e = Layout[i]
      BY <2>1
    <3>2. i = 1 \/ i = 2 \/ i = 3 \/ i = 4 \/ i = 5 \/ i = 6
      OBVIOUS
    <3>3. b = total - 1 \/ (b \in Nat /\ b < FirstUser)
      BY <1>0, <1>4, <1>5, <3>1, <3>2
    <3> QED
      BY <1>0, <3>3
  <2>2. CASE \E k \in DOMAIN placements : e = placements[k]
    <3>1. PICK k \in DOMAIN placements : e = placements[k]
      BY <2>2
    <3>2. /\ placements[k].blocks = fileBlocks[k] /\ fileBlocks[k] \in Nat
          /\ placements[k].start = IF fileBlocks[k] = 0 THEN 0 ELSE FirstUser + At(k - 1)
          /\ At(k) = At(k - 1) + fileBlocks[k]
          /\ At(k - 1) \in Nat /\ At(k) \in Nat /\ At(k) <= userBlocks
      BY FilePlaces
    <3>3. /\ placements[k].start \in Nat /\ placements[k].start + fileBlocks[k] <= cursor
      BY <1>0, <3>2
    <3>4. b \in Nat /\ b < placements[k].start + fileBlocks[k]
      BY <1>0, <1>5, <3>1, <3>2, <3>3, BlocksOf
    <3> QED
      BY <1>0, <3>2, <3>3, <3>4
  <2> QED
    BY <1>1, <2>1, <2>2 DEF Marked
<1>6. ASSUME NEW b \in Nat, b < cursor
      PROVE  \E e \in Marked : b \in Blocks(e)
  <2>1. CASE b < FirstUser
    <3>1. \E i \in 1 .. 6 : b \in Blocks(Layout[i])
      <4>1. \/ b < 1
            \/ 1 <= b /\ b < CatalogStart
            \/ CatalogStart <= b /\ b < ExtentsStart
            \/ ExtentsStart <= b /\ b < AttributesStart
            \/ AttributesStart <= b /\ b < FirstUser
        BY <1>0, <2>1
      <4>2. 0 <= b
        OBVIOUS
      <4>3. \/ b \in Blocks(Layout[1]) \/ b \in Blocks(Layout[2]) \/ b \in Blocks(Layout[3])
            \/ b \in Blocks(Layout[4]) \/ b \in Blocks(Layout[5])
        BY <1>4, <4>1, <4>2
      <4>4. 1 \in 1 .. 6 /\ 2 \in 1 .. 6 /\ 3 \in 1 .. 6 /\ 4 \in 1 .. 6 /\ 5 \in 1 .. 6
        OBVIOUS
      <4> QED
        BY <4>3, <4>4, Zenon
    <3> QED
      BY <1>1, <3>1 DEF Marked
  <2>2. CASE ~(b < FirstUser)
    <3>1. FirstUser <= b
      BY <1>0, <2>2
    <3>2. PICK k \in DOMAIN placements : b \in Blocks(placements[k])
      BY <1>6, <3>1, FileOfBlock
    <3> QED
      BY <3>2 DEF Marked
  <2> QED
    BY <2>1, <2>2
<1>7. \E e \in Marked : total - 1 \in Blocks(e)
  <2>1. 6 \in DOMAIN Layout /\ total - 1 \in Blocks(Layout[6])
    BY <1>1, <1>4
  <2> QED
    BY <2>1 DEF Marked
<1>8. \A b : b \in Used <=> \E e \in Marked : b \in Blocks(e)
  BY DEF Used
<1>9. \A b : b \in 0 .. cursor - 1 <=> b \in Nat /\ b < cursor
  BY <1>0
<1> QED
  BY <1>5, <1>6, <1>7, <1>8, <1>9, Zenon

\* The free blocks of a planned volume are the ones between the last file and the
\* alternate header, and the header names the first of them.
THEOREM FreeIsTailCorrect == PlanSpec => []FreeIsTail
<1>1. ASSUME PlanInv, pc = "planned"
      PROVE  /\ 0 .. total - 1 = Used \cup (cursor .. total - 2)
             /\ Used \cap (cursor .. total - 2) = {}
             /\ FreeBlocks = total - 1 - cursor
             /\ FreeBlocks > 0 => nextAllocation = cursor
  <2>1. Used = (0 .. cursor - 1) \cup {total - 1}
    BY <1>1, UsedBlocks
  <2>2. cursor \in Nat /\ total \in Nat /\ cursor <= total - 1
    BY <1>1, Ends
  <2>3. 0 .. total - 1 = Used \cup (cursor .. total - 2)
    BY <2>1, <2>2
  <2>4. Used \cap (cursor .. total - 2) = {}
    BY <2>1, <2>2
  <2>5. Cardinality(Used) = cursor + 1
    <3>1. /\ IsFiniteSet(0 .. cursor - 1) /\ Cardinality(0 .. cursor - 1) = cursor
      BY <2>2, FS_Interval
    <3>2. /\ IsFiniteSet({total - 1}) /\ Cardinality({total - 1}) = 1
      BY FS_Singleton
    <3>3. (0 .. cursor - 1) \cap {total - 1} = {}
      BY <2>2
    <3>4. Cardinality((0 .. cursor - 1) \cap {total - 1}) = 0
      BY <3>3, FS_EmptySet
    <3>5. Cardinality((0 .. cursor - 1) \cup {total - 1})
            = cursor + 1 - Cardinality((0 .. cursor - 1) \cap {total - 1})
      BY <3>1, <3>2, FS_Union
    <3> QED
      BY <2>1, <2>2, <3>4, <3>5
  <2>6. FreeBlocks = total - 1 - cursor
    BY <2>2, <2>5 DEF FreeBlocks
  <2>7. nextAllocation = NextFree
    BY <1>1 DEF PlanInv, PlaceInv
  <2>8. FreeBlocks > 0 => nextAllocation = cursor
    BY <2>2, <2>6, <2>7 DEF NextFree
  <2> QED
    BY <2>3, <2>4, <2>6, <2>8
<1>2. PlanInv => FreeIsTail
  BY <1>1 DEF FreeIsTail
<1> QED
  BY <1>2, PlanInvCorrect, PTL

----------------------------------------------------------------------------
(* WriteVolume: the inductive invariant, in parts.                         *)

Early == {"tag", "pack"}
Planned == {"repack", "pad", "extend", "primary", "bitmap", "catalog", "extents",
            "attributes", "stream", "copy", "probe", "alternate", "done"}

\* How many of the parts that every volume has are in the output before a step.
Written == [primary |-> 0, bitmap |-> 1, catalog |-> 2, extents |-> 3,
            attributes |-> 4, stream |-> 5, copy |-> 5, probe |-> 5, alternate |-> 5,
            done |-> 6]

Contents == [of : {"header", "bitmap", "catalog", "extents", "attributes", "file", "zero"},
             k : Nat, at : Int]
FileEntries == [extent : [start : Nat, blocks : Nat], hasAttributes : BOOLEAN]

WriteTypes ==
    /\ wpc \in Early \cup {"plan", "failed"} \cup Planned
    /\ entries \in [DOMAIN files -> FileEntries]
    /\ disk \in Seq(Contents)
    /\ now \in [DOMAIN files -> Nat]
    /\ copied \in Nat
    /\ streamed \in Seq(SUBSET Nat) /\ Len(streamed) <= Len(files)

\* Where the plan is while the call is at its own steps.
StagesInv ==
    /\ wpc \in Early => pc = "blockSize"
    /\ wpc \in Planned \/ disk # <<>> => pc = "planned"
    /\ wpc \in Early \cup {"plan", "repack", "pad", "extend"} => disk = <<>>
    /\ pc = "blockSize" => blockSize \in BlockSizes \cup {DefaultBlockSize}
    /\ pc \notin {"blockSize", "error"} => blockSize % Sector = 0

\* The entries the catalog is packed from carry what the plan gave them.
EntriesInv ==
    /\ wpc = "tag" => \A k \in DOMAIN files : ~entries[k].hasAttributes
    /\ wpc \notin {"tag", "failed"} =>
          \A k \in DOMAIN files :
             /\ entries[k].hasAttributes <=> k \in withAttrs
             /\ k \in DOMAIN placements => entries[k].extent = placements[k]
    /\ wpc \in Planned \ {"repack"} => packed = entries
    /\ wpc \in {"extents", "attributes", "stream", "copy", "probe", "alternate", "done"} =>
          catalogOnDisk = entries

\* Files are written into their extents, whatever has become of them.
InsideInv ==
    \A s \in DOMAIN disk :
        disk[s].of = "file" =>
            /\ disk[s].k \in DOMAIN placements
            /\ s - 1 >= placements[disk[s].k].start * PerBlock
            /\ s - 1 < EndOf(placements[disk[s].k]) * PerBlock

\* A file that is open is the last that has had its turn, and its length is among those
\* it has had since.  The ones that ended were at some time as long as planned at least,
\* and at some time at most.
Open == wpc \in {"copy", "probe"}
Ended == IF Open THEN Len(streamed) - 1 ELSE Len(streamed)
LongEnough(k) == \E length \in streamed[k] : length >= files[k]
ShortEnough(k) == \E length \in streamed[k] : length <= files[k]
StreamedInv ==
    /\ wpc \notin {"stream", "copy", "probe", "alternate", "done", "failed"} =>
          streamed = <<>>
    /\ wpc \in {"alternate", "done"} => Len(streamed) = Len(files)
    /\ Open => Len(streamed) > 0 /\ now[Len(streamed)] \in streamed[Len(streamed)]
    /\ wpc = "probe" => copied = files[Len(streamed)] /\ LongEnough(Len(streamed))
    /\ wpc # "failed" =>
          \A k \in 1 .. Ended : files[k] > 0 => LongEnough(k) /\ ShortEnough(k)

\* The contents of a part, and the rest, of any output.
InPlace(d, p) == \A i \in 0 .. p.n - 1 : d[p.first + i + 1] = Content(p.of, p.k, i)
OnlyParts(d) ==
    \A s \in DOMAIN d :
        d[s] = Zero \/ \E p \in Parts : s - 1 \in p.first .. p.first + p.n - 1

\* What has been written, the first n fixed parts and the first m files, is there,
\* and nothing else is.
Shows(d, n, m) ==
    /\ d \in Seq(Contents) /\ Len(d) = total * PerBlock
    /\ \A i \in 1 .. 6 : i <= n => InPlace(d, Fixed[i])
    /\ \A k \in DOMAIN files : k <= m => InPlace(d, FilePart(k))
    /\ OnlyParts(d)
\* The files that are in the output whole.
Whole == IF wpc = "copy" THEN Len(streamed) - 1 ELSE Len(streamed)
DiskInv ==
    wpc \in DOMAIN Written /\ HeadersFit => Shows(disk, Written[wpc], Whole)

WriteInv ==
    PlanInv /\ WriteTypes /\ StagesInv /\ EntriesInv /\ InsideInv /\ StreamedInv /\ DiskInv

----------------------------------------------------------------------------
(* Sectors.                                                                *)

\* A multiple of the divisor is divided without a rest.
LEMMA Exact ==
  ASSUME NEW n \in Nat, NEW d \in Nat \ {0}
  PROVE  (n * d) \div d = n /\ DivRoundUp(n * d, d) = n
<1> DEFINE m == n * d
<1>1. m \in Nat /\ m = d * n
  OBVIOUS
<1>2. m \div d \in Nat /\ d * (m \div d) <= m /\ m < d * (m \div d) + d
  BY ONLY <1>1, Quotient
<1>3. (m + d - 1) \div d \in Nat
      /\ d * ((m + d - 1) \div d) <= m + d - 1
      /\ m + d - 1 < d * ((m + d - 1) \div d) + d
  <2>1. m + d - 1 \in Nat
    BY <1>1
  <2> QED
    BY ONLY <2>1, Quotient
<1>4. ASSUME NEW q \in Nat, d * q <= m, m < d * q + d PROVE q = n
  <2>1. ~(q < n)
    <3> SUFFICES ASSUME q < n PROVE FALSE
      OBVIOUS
    <3>1. q + 1 \in Nat /\ q + 1 <= n
      OBVIOUS
    <3>2. d * (q + 1) <= d * n
      BY <3>1, Grows
    <3>3. d * (q + 1) = d * q + d
      OBVIOUS
    <3> QED
      BY <1>1, <1>4, <3>2, <3>3
  <2>2. ~(n < q)
    <3> SUFFICES ASSUME n < q PROVE FALSE
      OBVIOUS
    <3>1. n + 1 \in Nat /\ n + 1 <= q
      OBVIOUS
    <3>2. d * (n + 1) <= d * q
      BY <3>1, Grows
    <3>3. d * (n + 1) = d * n + d
      OBVIOUS
    <3> QED
      BY <1>1, <1>4, <3>2, <3>3
  <2> QED
    BY <2>1, <2>2
<1> HIDE DEF m
<1>5. m \div d = n
  BY <1>2, <1>4
<1>6. (m + d - 1) \div d = n
  <2> DEFINE r == (m + d - 1) \div d
  <2>1. r \in Nat /\ d * r \in Nat /\ d * r <= m + d - 1 /\ m + d - 1 < d * r + d
    BY <1>3
  <2> HIDE DEF r
  <2>2. ~(n < r)
    <3> SUFFICES ASSUME n < r PROVE FALSE
      OBVIOUS
    <3>1. n + 1 \in Nat /\ n + 1 <= r
      BY <2>1
    <3>2. d * (n + 1) <= d * r
      BY <2>1, <3>1, Grows
    <3>3. d * (n + 1) = d * n + d
      OBVIOUS
    <3> QED
      BY <1>1, <2>1, <3>2, <3>3
  <2>3. ~(r < n)
    <3> SUFFICES ASSUME r < n PROVE FALSE
      OBVIOUS
    <3>1. r + 1 \in Nat /\ r + 1 <= n
      BY <2>1
    <3>2. d * (r + 1) <= d * n
      BY <2>1, <3>1, Grows
    <3>3. d * (r + 1) = d * r + d
      BY <2>1
    <3> QED
      BY <1>1, <2>1, <3>2, <3>3
  <2> QED
    BY <2>1, <2>2, <2>3 DEF r
<1> QED
  BY <1>5, <1>6 DEF m, DivRoundUp

\* What fits a number of sectors takes no more of them.
LEMMA SectorsFit ==
  ASSUME NEW n \in Nat, NEW m \in Nat, Sector \in Nat \ {0}, n <= m * Sector
  PROVE  Sectors(n) \in Nat /\ Sectors(n) <= m
<1>1. m * Sector \in Nat
  OBVIOUS
<1>2. DivRoundUp(n, Sector) <= DivRoundUp(m * Sector, Sector)
  BY <1>1, RoundUpGrows
<1>3. DivRoundUp(m * Sector, Sector) = m
  BY Exact
<1>4. DivRoundUp(n, Sector) \in Nat
  BY RoundUp
<1> QED
  BY <1>2, <1>3, <1>4 DEF Sectors

\* Blocks and the headers' place are whole sectors.
LEMMA WholeSectors ==
  ASSUME PlanInv, StagesInv, pc = "planned"
  PROVE  /\ Sector \in Nat \ {0} /\ PerBlock \in Nat \ {0}
         /\ blockSize = PerBlock * Sector
         /\ HeaderAt \div Sector \in Nat \ {0}
         /\ HeaderAt = (HeaderAt \div Sector) * Sector
<1>1. /\ Sector \in Nat \ {0} /\ HeaderAt \in Nat \ {0} /\ HeaderAt % Sector = 0
  BY WriteAssumption
<1>2. blockSize \in Nat \ {0} /\ blockSize % Sector = 0
  BY DEF PlanInv, PlanTypeOK, ForksInv, StagesInv
<1>3. ASSUME NEW n \in Nat \ {0}, NEW d \in Nat \ {0}, n % d = 0
      PROVE  n \div d \in Nat \ {0} /\ n = (n \div d) * d
  <2>1. n \div d \in Nat /\ n = d * (n \div d) + (n % d)
    OBVIOUS
  <2> DEFINE q == n \div d
  <2> HIDE DEF q
  <2>2. q \in Nat /\ n = d * q
    BY <1>3, <2>1 DEF q
  <2>3. q # 0 /\ d * q = q * d
    BY <2>2
  <2> QED
    BY <2>2, <2>3 DEF q
<1> QED
  BY <1>1, <1>2, <1>3 DEF PerBlock

\* The order of block numbers is the order of their sectors.
LEMMA SectorsOrdered ==
  ASSUME NEW a \in Nat, NEW b \in Nat, a <= b, PerBlock \in Nat
  PROVE  a * PerBlock \in Nat /\ b * PerBlock \in Nat /\ a * PerBlock <= b * PerBlock
<1> DEFINE P == PerBlock
<1> HIDE DEF P
<1>0. P \in Nat
  BY DEF P
<1>1. P * a <= P * b
  BY <1>0, Grows
<1>2. P * a = a * P /\ P * b = b * P /\ a * P \in Nat /\ b * P \in Nat
  BY <1>0
<1> QED
  BY <1>1, <1>2 DEF P

----------------------------------------------------------------------------
(* Where the parts are.                                                    *)

\* The slots of the plan, in their order.
LEMMA Slots ==
  ASSUME PlanInv, pc = "planned"
  PROVE  /\ \A i \in 1 .. 6 : Layout[i].start \in Nat /\ Layout[i].blocks \in Nat
                              /\ EndOf(Layout[i]) \in Nat
                              /\ Layout[i].start <= EndOf(Layout[i])
                              /\ EndOf(Layout[i]) <= total
         /\ \A i, j \in 1 .. 6 : i < j => EndOf(Layout[i]) <= Layout[j].start
         /\ Layout[1].start = 0 /\ EndOf(Layout[1]) = 1
         /\ Layout[6].start = total - 1 /\ EndOf(Layout[6]) = total
         /\ Layout[2].blocks = alloc
         /\ total \in Nat
<1>1. /\ alloc \in Nat \ {0} /\ total \in Nat /\ blockSize > 0 /\ PlanTypeOK
      /\ \A t \in Trees : forks[t] \in Nat
  BY PlanAssumption DEF PlanInv, PlanTypeOK, ForksInv
<1>2. total = TotalWith(alloc) /\ total < Word
  BY DEF PlanInv, TotalInv, Settled
<1>3. /\ CatalogStart = 1 + alloc /\ ExtentsStart = CatalogStart + forks["catalog"]
      /\ AttributesStart = ExtentsStart + forks["extents"]
      /\ FirstUser = AttributesStart + forks["attributes"]
      /\ FirstUser + userBlocks + 1 = Packed(alloc)
  BY <1>1, <1>2, Starts
<1>4. userBlocks \in Nat /\ Packed(alloc) <= TotalWith(alloc) /\ Packed(alloc) \in Nat
  BY <1>1, NeedType DEF PlanTypeOK
<1>5. forks["catalog"] \in Nat /\ forks["extents"] \in Nat /\ forks["attributes"] \in Nat
  BY <1>1 DEF Trees
<1>6. /\ Layout[1] = Extent(0, 1) /\ Layout[2] = Extent(1, alloc)
      /\ Layout[3] = Extent(CatalogStart, forks["catalog"])
      /\ Layout[4] = Extent(ExtentsStart, forks["extents"])
      /\ Layout[5] = Extent(AttributesStart, forks["attributes"])
      /\ Layout[6] = Extent(total - 1, 1)
  BY DEF Layout, AllocStart
<1>7. \A b, n : Extent(b, n).start = b /\ Extent(b, n).blocks = n
  BY DEF Extent
<1>8. /\ Layout[1].start = 0 /\ Layout[1].blocks = 1 /\ EndOf(Layout[1]) = 1
      /\ Layout[2].start = 1 /\ Layout[2].blocks = alloc /\ EndOf(Layout[2]) = CatalogStart
      /\ Layout[3].start = CatalogStart /\ Layout[3].blocks = forks["catalog"]
      /\ EndOf(Layout[3]) = ExtentsStart
      /\ Layout[4].start = ExtentsStart /\ Layout[4].blocks = forks["extents"]
      /\ EndOf(Layout[4]) = AttributesStart
      /\ Layout[5].start = AttributesStart /\ Layout[5].blocks = forks["attributes"]
      /\ EndOf(Layout[5]) = FirstUser
      /\ Layout[6].start = total - 1 /\ Layout[6].blocks = 1 /\ EndOf(Layout[6]) = total
  BY <1>1, <1>3, <1>5, <1>6, <1>7 DEF EndOf
<1>9. /\ CatalogStart \in Nat /\ 1 <= CatalogStart
      /\ ExtentsStart \in Nat /\ CatalogStart <= ExtentsStart
      /\ AttributesStart \in Nat /\ ExtentsStart <= AttributesStart
      /\ FirstUser \in Nat /\ AttributesStart <= FirstUser
      /\ FirstUser <= total - 1
  BY <1>1, <1>2, <1>3, <1>4, <1>5
<1>10. \A i \in 1 .. 6 : i = 1 \/ i = 2 \/ i = 3 \/ i = 4 \/ i = 5 \/ i = 6
  OBVIOUS
<1>11. ASSUME NEW i \in 1 .. 6
       PROVE  /\ Layout[i].start \in Nat /\ Layout[i].blocks \in Nat
              /\ EndOf(Layout[i]) \in Nat /\ Layout[i].start <= EndOf(Layout[i])
              /\ EndOf(Layout[i]) <= total
  BY <1>1, <1>5, <1>8, <1>9, <1>10
<1>12. ASSUME NEW i \in 1 .. 6, NEW j \in 1 .. 6, i < j
       PROVE  EndOf(Layout[i]) <= Layout[j].start
  BY <1>1, <1>8, <1>9, <1>10, <1>12
<1> QED
  BY <1>1, <1>8, <1>11, <1>12

\* The extents of the files come after the trees, one after the other.
LEMMA FileSlots ==
  ASSUME PlanInv, pc = "planned", NEW k \in DOMAIN files
  PROVE  /\ k \in DOMAIN placements /\ files[k] \in Nat
         /\ placements[k].start \in Nat /\ placements[k].blocks \in Nat
         /\ EndOf(placements[k]) \in Nat
         /\ EndOf(placements[k]) = placements[k].start + placements[k].blocks
         /\ files[k] <= placements[k].blocks * blockSize
         /\ placements[k].blocks > 0 =>
               /\ EndOf(Layout[5]) <= placements[k].start
               /\ EndOf(placements[k]) <= Layout[6].start
               /\ \A j \in DOMAIN files : j < k => EndOf(placements[j]) <= placements[k].start
         /\ placements[k].blocks = 0 => files[k] = 0 /\ placements[k].start = 0
<1>1. PlanTypeOK /\ Len(placements) = Len(files) /\ Len(fileBlocks) = Len(files)
  BY DEF PlanInv, PlaceInv, FilesInv, Counted, Settled
<1>2. /\ k \in 1 .. Len(placements) /\ DOMAIN placements = 1 .. Len(placements)
      /\ DOMAIN files = 1 .. Len(files) /\ Len(files) \in Nat /\ files[k] \in Nat
      /\ placements[k] \in [start : Nat, blocks : Nat]
  <2>1. files \in Seq(Nat) /\ placements \in Seq([start : Nat, blocks : Nat])
    BY <1>1 DEF PlanTypeOK
  <2>2. /\ DOMAIN placements = 1 .. Len(placements)
        /\ DOMAIN files = 1 .. Len(files) /\ Len(files) \in Nat /\ files[k] \in Nat
    BY <2>1
  <2>3. k \in 1 .. Len(placements)
    BY <1>1, <2>2
  <2>4. placements[k] \in [start : Nat, blocks : Nat]
    BY ONLY <2>1, <2>3, ElementOfSeq
  <2> QED
    BY <2>2, <2>3, <2>4
<1>3. placements[k].start \in Nat /\ placements[k].blocks \in Nat
  BY <1>2
<1>4. EndOf(placements[k]) = placements[k].start + placements[k].blocks
  BY DEF EndOf
<1>5. files[k] <= placements[k].blocks * blockSize
  BY ExtentsHold DEF ExtentsHoldFiles
<1>6. /\ placements[k].blocks > 0 =>
            /\ EndOf(Layout[5]) <= placements[k].start
            /\ EndOf(placements[k]) <= Layout[6].start
            /\ \A j \in 1 .. k - 1 : EndOf(placements[j]) <= placements[k].start
  BY <1>2, ForksApart DEF ForksDisjoint
<1>7. \A j \in DOMAIN files : j < k => j \in 1 .. k - 1
  BY <1>2
<1>8. placements[k].blocks = 0 => files[k] = 0
  <2>1. blockSize \in Nat
    BY <1>1 DEF PlanTypeOK
  <2>2. placements[k].blocks = 0 => placements[k].blocks * blockSize = 0
    BY <2>1
  <2> QED
    BY <1>2, <1>5, <2>2
<1>9. placements[k].blocks = 0 => placements[k].start = 0
  BY <1>2 DEF PlanInv, PlaceInv, Settled
<1> QED
  BY <1>2, <1>3, <1>4, <1>5, <1>6, <1>7, <1>8, <1>9

\* The sectors of a part lie in the blocks of its slot.
LEMMA FixedInSlot ==
  ASSUME PlanInv, StagesInv, pc = "planned", HeadersFit, NEW i \in 1 .. 6
  PROVE  /\ Fixed[i].first \in Nat /\ Fixed[i].n \in Nat
         /\ Layout[i].start * PerBlock <= Fixed[i].first
         /\ Fixed[i].first + Fixed[i].n <= EndOf(Layout[i]) * PerBlock
<1> DEFINE H == HeaderAt \div Sector
           P == PerBlock
<1>0. /\ Sector \in Nat \ {0} /\ P \in Nat \ {0} /\ blockSize = P * Sector
      /\ H \in Nat \ {0} /\ HeaderAt = H * Sector
  BY WholeSectors
<1>1. /\ \A j \in 1 .. 6 : Layout[j].start \in Nat /\ Layout[j].blocks \in Nat
                           /\ EndOf(Layout[j]) \in Nat
                           /\ EndOf(Layout[j]) = Layout[j].start + Layout[j].blocks
      /\ Layout[1].start = 0 /\ EndOf(Layout[1]) = 1
      /\ Layout[6].start = total - 1 /\ EndOf(Layout[6]) = total /\ total \in Nat
      /\ Layout[2].blocks = alloc
  BY Slots DEF EndOf
<1>2. \A of, k, f, n : Place(of, k, f, n).first = f /\ Place(of, k, f, n).n = n
  BY DEF Place
<1>3. /\ Fixed[1].first = H /\ Fixed[1].n = 1
      /\ Fixed[2].first = Layout[2].start * P /\ Fixed[2].n = Sectors(DivRoundUp(total, 8))
      /\ Fixed[3].first = Layout[3].start * P /\ Fixed[3].n = Layout[3].blocks * P
      /\ Fixed[4].first = Layout[4].start * P /\ Fixed[4].n = Layout[4].blocks * P
      /\ Fixed[5].first = Layout[5].start * P /\ Fixed[5].n = Layout[5].blocks * P
      /\ Fixed[6].first = total * P - H /\ Fixed[6].n = 1
  BY <1>2 DEF Fixed
<1>4. H + 1 <= P
  <2>1. (H + 1) * Sector <= P * Sector
    <3>1. (H + 1) * Sector = HeaderAt + Sector
      BY <1>0
    <3> QED
      BY <1>0, <3>1 DEF HeadersFit
  <2> HIDE DEF H, P
  <2>2. ~(P < H + 1)
    <3> SUFFICES ASSUME P < H + 1 PROVE FALSE
      OBVIOUS
    <3>1. P + 1 \in Nat /\ H + 1 \in Nat /\ P + 1 <= H + 1
      BY <1>0
    <3>2. Sector * (P + 1) <= Sector * (H + 1)
      BY <1>0, <3>1, Grows
    <3>3. Sector * (P + 1) = P * Sector + Sector /\ Sector * (H + 1) = (H + 1) * Sector
          /\ P * Sector \in Nat
      BY <1>0
    <3> QED
      BY <1>0, <2>1, <3>2, <3>3
  <2> QED
    BY <1>0, <2>2
<1> HIDE DEF H, P
<1>5. CASE i = 1
  BY <1>0, <1>1, <1>3, <1>4, <1>5 DEF P
<1>6. CASE i = 6
  <2>1. (total - 1) * P = total * P - P /\ total * P \in Nat
    BY <1>0, <1>1
  <2>2. total >= 1
    <3>1. Layout[6].start \in Nat
      BY <1>1
    <3> QED
      BY <1>1, <3>1
  <2>3. total * P >= P
    <3>1. P * 1 <= P * total
      BY <1>0, <1>1, <2>2, Grows
    <3> QED
      BY <1>0, <1>1, <3>1
  <2>4. Fixed[6].first = total * P - H /\ Fixed[6].n = 1
    BY <1>3
  <2>5. /\ Layout[6].start * P = total * P - P
        /\ EndOf(Layout[6]) * P = total * P
    BY <1>1, <2>1
  <2>6. total * P - H \in Nat /\ total * P - P <= total * P - H /\ total * P - H + 1 <= total * P
    BY <1>0, <1>4, <2>1, <2>3
  <2> QED
    BY <1>6, <2>4, <2>5, <2>6 DEF P
<1>7. CASE i \in {3, 4, 5}
  <2>1. Fixed[i].first = Layout[i].start * P /\ Fixed[i].n = Layout[i].blocks * P
    BY <1>3, <1>7
  <2>2. /\ Layout[i].start * P \in Nat /\ Layout[i].blocks * P \in Nat
        /\ Layout[i].start * P + Layout[i].blocks * P = (Layout[i].start + Layout[i].blocks) * P
    <3>1. \A b, m \in Nat : b * P \in Nat /\ m * P \in Nat /\ b * P + m * P = (b + m) * P
      BY <1>0
    <3>2. Layout[i].start \in Nat /\ Layout[i].blocks \in Nat
      BY <1>1
    <3> QED
      BY <3>1, <3>2
  <2> QED
    BY <1>1, <2>1, <2>2 DEF P
<1>8. CASE i = 2
  <2>1. /\ bitmapBytes = DivRoundUp(total, 8) /\ bitmapBytes <= alloc * blockSize
        /\ bitmapBytes \in Nat /\ alloc \in Nat
    BY BitmapInFork, BitmapWhole DEF BitmapFits, PlanInv, PlanTypeOK
  <2>2. alloc * blockSize = (alloc * P) * Sector /\ alloc * P \in Nat
    BY <1>0, <2>1
  <2>3. Sectors(bitmapBytes) \in Nat /\ Sectors(bitmapBytes) <= alloc * P
    BY <1>0, <2>1, <2>2, SectorsFit
  <2>4. Fixed[2].first = Layout[2].start * P /\ Fixed[2].n = Sectors(bitmapBytes)
    BY <1>3, <2>1
  <2>5. /\ Layout[2].start * P \in Nat
        /\ EndOf(Layout[2]) * P = Layout[2].start * P + alloc * P
    <3>1. EndOf(Layout[2]) = Layout[2].start + alloc /\ Layout[2].start \in Nat
      BY <1>1
    <3> QED
      BY <1>0, <2>1, <3>1
  <2> QED
    BY <1>8, <2>2, <2>3, <2>4, <2>5 DEF P
<1> QED
  BY <1>5, <1>6, <1>7, <1>8

LEMMA FileInSlot ==
  ASSUME PlanInv, StagesInv, pc = "planned", NEW k \in DOMAIN files
  PROVE  /\ FilePart(k).first \in Nat /\ FilePart(k).n \in Nat
         /\ FilePart(k).first = placements[k].start * PerBlock
         /\ FilePart(k).n = Sectors(files[k])
         /\ FilePart(k).first + FilePart(k).n <= EndOf(placements[k]) * PerBlock
         /\ placements[k].blocks = 0 => FilePart(k).n = 0
<1> DEFINE P == PerBlock
<1>0. Sector \in Nat \ {0} /\ P \in Nat \ {0} /\ blockSize = P * Sector
  BY WholeSectors
<1>1. /\ placements[k].start \in Nat /\ placements[k].blocks \in Nat /\ files[k] \in Nat
      /\ EndOf(placements[k]) = placements[k].start + placements[k].blocks
      /\ files[k] <= placements[k].blocks * blockSize
  BY FileSlots
<1> DEFINE b == placements[k].start
           m == placements[k].blocks
<1>2. FilePart(k).first = b * P /\ FilePart(k).n = Sectors(files[k])
  BY DEF FilePart, Place
<1> HIDE DEF P, b, m
<1>3. b \in Nat /\ m \in Nat /\ EndOf(placements[k]) = b + m /\ files[k] <= m * blockSize
  BY <1>1 DEF b, m
<1>4. m * blockSize = (m * P) * Sector /\ m * P \in Nat /\ b * P \in Nat
      /\ (b + m) * P = b * P + m * P
  BY <1>0, <1>3
<1>5. Sectors(files[k]) \in Nat /\ Sectors(files[k]) <= m * P
  BY <1>0, <1>1, <1>3, <1>4, SectorsFit
<1>6. m = 0 => m * P = 0
  BY <1>0
<1>7. m = 0 => Sectors(files[k]) = 0
  BY <1>4, <1>5, <1>6
<1>8. b * P + Sectors(files[k]) <= EndOf(placements[k]) * P
  BY <1>3, <1>4, <1>5
<1> QED
  BY <1>2, <1>4, <1>5, <1>7, <1>8 DEF P, b, m

\* A part lies in the volume.
LEMMA PartsInside ==
  ASSUME PlanInv, StagesInv, pc = "planned", HeadersFit, NEW p \in Parts
  PROVE  p.first \in Nat /\ p.n \in Nat /\ p.first + p.n <= total * PerBlock
<1>0. PerBlock \in Nat /\ total \in Nat /\ total * PerBlock \in Nat
  <2>1. PerBlock \in Nat /\ total \in Nat
    BY WholeSectors, Slots
  <2> QED
    BY <2>1
<1>1. CASE \E i \in 1 .. 6 : p = Fixed[i]
  <2>1. PICK i \in 1 .. 6 : p = Fixed[i]
    BY <1>1
  <2>2. EndOf(Layout[i]) \in Nat /\ EndOf(Layout[i]) <= total
    BY Slots
  <2>3. EndOf(Layout[i]) * PerBlock <= total * PerBlock /\ EndOf(Layout[i]) * PerBlock \in Nat
    BY <1>0, <2>2, SectorsOrdered
  <2>4. /\ p.first \in Nat /\ p.n \in Nat
        /\ p.first + p.n <= EndOf(Layout[i]) * PerBlock
    BY <2>1, FixedInSlot
  <2> QED
    BY <1>0, <2>3, <2>4
<1>2. CASE \E k \in DOMAIN files : p = FilePart(k)
  <2>1. PICK k \in DOMAIN files : p = FilePart(k)
    BY <1>2
  <2>2. /\ p.first \in Nat /\ p.n \in Nat
        /\ p.first + p.n <= EndOf(placements[k]) * PerBlock
    BY <2>1, FileInSlot
  <2>3. EndOf(placements[k]) \in Nat /\ EndOf(placements[k]) <= total
    <3>1. CASE placements[k].blocks > 0
      <4>1. EndOf(placements[k]) <= Layout[6].start /\ EndOf(placements[k]) \in Nat
        BY <3>1, FileSlots
      <4>2. Layout[6].start = total - 1
        BY Slots
      <4> QED
        BY <1>0, <4>1, <4>2
    <3>2. CASE placements[k].blocks = 0
      BY <1>0, <3>2, FileSlots
    <3>3. placements[k].blocks \in Nat
      BY FileSlots
    <3> QED
      BY <3>1, <3>2, <3>3
  <2>4. EndOf(placements[k]) * PerBlock <= total * PerBlock
        /\ EndOf(placements[k]) * PerBlock \in Nat
    BY <1>0, <2>3, SectorsOrdered
  <2> QED
    BY <1>0, <2>2, <2>4
<1> QED
  BY <1>1, <1>2 DEF Parts

\* What lies in one slot is before what lies in a later one.
LEMMA SlotsApart ==
  ASSUME NEW a \in Nat, NEW b \in Nat, a <= b, PerBlock \in Nat,
         NEW m \in Nat, NEW n \in Nat, m <= a * PerBlock, b * PerBlock <= n
  PROVE  m <= n
<1>1. a * PerBlock \in Nat /\ b * PerBlock \in Nat /\ a * PerBlock <= b * PerBlock
  BY SectorsOrdered
<1> QED
  BY <1>1

Before(p, q) == p.n = 0 \/ q.n = 0 \/ p.first + p.n <= q.first

\* Two parts share no sector: one of them comes first.
LEMMA PartsApart ==
  ASSUME PlanInv, StagesInv, pc = "planned", HeadersFit,
         NEW p \in Parts, NEW q \in Parts, p # q
  PROVE  Before(p, q) \/ Before(q, p)
<1>0. PerBlock \in Nat
  BY WholeSectors
<1>1. ASSUME NEW i \in 1 .. 6, NEW j \in 1 .. 6, i < j
      PROVE  Before(Fixed[i], Fixed[j])
  <2>1. /\ EndOf(Layout[i]) \in Nat /\ Layout[j].start \in Nat
        /\ EndOf(Layout[i]) <= Layout[j].start
    BY <1>1, Slots
  <2>2. /\ Fixed[i].first + Fixed[i].n \in Nat
        /\ Fixed[i].first + Fixed[i].n <= EndOf(Layout[i]) * PerBlock
        /\ Layout[j].start * PerBlock <= Fixed[j].first /\ Fixed[j].first \in Nat
    BY FixedInSlot
  <2>3. Fixed[i].first + Fixed[i].n <= Fixed[j].first
    BY <1>0, <2>1, <2>2, SlotsApart
  <2> QED
    BY <2>3 DEF Before
<1>2. ASSUME NEW k \in DOMAIN files, placements[k].blocks = 0, NEW r
      PROVE  Before(FilePart(k), r) /\ Before(r, FilePart(k))
  BY <1>2, FileInSlot DEF Before
<1>3. ASSUME NEW k \in DOMAIN files, placements[k].blocks > 0, NEW i \in 1 .. 6
      PROVE  Before(Fixed[i], FilePart(k)) \/ Before(FilePart(k), Fixed[i])
  <2>1. /\ FilePart(k).first \in Nat /\ FilePart(k).n \in Nat
        /\ FilePart(k).first = placements[k].start * PerBlock
        /\ FilePart(k).first + FilePart(k).n <= EndOf(placements[k]) * PerBlock
    BY FileInSlot
  <2>2. /\ Fixed[i].first \in Nat /\ Fixed[i].n \in Nat
        /\ Fixed[i].first + Fixed[i].n <= EndOf(Layout[i]) * PerBlock
        /\ Layout[i].start * PerBlock <= Fixed[i].first
    BY FixedInSlot
  <2>3. /\ placements[k].start \in Nat /\ EndOf(placements[k]) \in Nat
        /\ EndOf(Layout[5]) <= placements[k].start
        /\ EndOf(placements[k]) <= Layout[6].start
    BY <1>3, FileSlots
  <2>4. /\ Layout[i].start \in Nat /\ EndOf(Layout[i]) \in Nat
        /\ EndOf(Layout[5]) \in Nat /\ Layout[5].start \in Nat /\ Layout[6].start \in Nat
        /\ i < 5 => EndOf(Layout[i]) <= Layout[5].start
        /\ Layout[5].start <= EndOf(Layout[5])
    BY Slots
  <2>5. CASE i = 6
    <3>1. FilePart(k).first + FilePart(k).n \in Nat
      BY <2>1
    <3>2. FilePart(k).first + FilePart(k).n <= Fixed[i].first
      BY <1>0, <2>1, <2>2, <2>3, <2>4, <2>5, <3>1, SlotsApart
    <3> QED
      BY <3>2 DEF Before
  <2>6. CASE i # 6
    <3>1. EndOf(Layout[i]) <= placements[k].start
      <4>1. i < 5 \/ i = 5
        BY <2>6
      <4> QED
        BY <2>3, <2>4, <4>1
    <3>2. Fixed[i].first + Fixed[i].n \in Nat
      BY <2>2
    <3>3. placements[k].start * PerBlock <= FilePart(k).first
      BY <2>1
    <3>4. Fixed[i].first + Fixed[i].n <= FilePart(k).first
      BY <1>0, <2>1, <2>2, <2>3, <2>4, <3>1, <3>2, <3>3, SlotsApart
    <3> QED
      BY <3>4 DEF Before
  <2> QED
    BY <2>5, <2>6
<1>4. ASSUME NEW j \in DOMAIN files, NEW k \in DOMAIN files, j < k
      PROVE  Before(FilePart(j), FilePart(k))
  <2>1. CASE placements[k].blocks > 0
    <3>1. /\ EndOf(placements[j]) <= placements[k].start
          /\ EndOf(placements[j]) \in Nat /\ placements[k].start \in Nat
      BY <1>4, <2>1, FileSlots
    <3>2. /\ FilePart(j).first + FilePart(j).n \in Nat
          /\ FilePart(j).first + FilePart(j).n <= EndOf(placements[j]) * PerBlock
      BY FileInSlot
    <3>3. FilePart(k).first \in Nat /\ placements[k].start * PerBlock <= FilePart(k).first
      BY FileInSlot
    <3>4. FilePart(j).first + FilePart(j).n <= FilePart(k).first
      BY <1>0, <3>1, <3>2, <3>3, SlotsApart
    <3> QED
      BY <3>4 DEF Before
  <2>2. CASE placements[k].blocks = 0
    BY <1>2, <2>2
  <2>3. placements[k].blocks \in Nat
    BY FileSlots
  <2> QED
    BY <2>1, <2>2, <2>3
<1>5. \A k \in DOMAIN files : placements[k].blocks > 0 \/ placements[k].blocks = 0
  BY FileSlots
<1>6. \A k \in DOMAIN files, i \in 1 .. 6 :
         Before(Fixed[i], FilePart(k)) \/ Before(FilePart(k), Fixed[i])
  BY <1>2, <1>3, <1>5
<1>7. (\E i \in 1 .. 6 : p = Fixed[i]) \/ (\E k \in DOMAIN files : p = FilePart(k))
  BY DEF Parts
<1>8. (\E i \in 1 .. 6 : q = Fixed[i]) \/ (\E k \in DOMAIN files : q = FilePart(k))
  BY DEF Parts
<1>9. CASE (\E i \in 1 .. 6 : p = Fixed[i]) /\ (\E i \in 1 .. 6 : q = Fixed[i])
  <2>1. PICK i \in 1 .. 6, j \in 1 .. 6 : p = Fixed[i] /\ q = Fixed[j]
    BY <1>9
  <2>2. i < j \/ j < i
    BY <2>1
  <2> QED
    BY <1>1, <2>1, <2>2
<1>10. CASE (\E j \in DOMAIN files : p = FilePart(j)) /\ (\E k \in DOMAIN files : q = FilePart(k))
  <2>1. PICK j \in DOMAIN files, k \in DOMAIN files : p = FilePart(j) /\ q = FilePart(k)
    BY <1>10
  <2>2. j \in Nat /\ k \in Nat /\ j # k
    BY <2>1 DEF PlanInv, PlanTypeOK
  <2>3. j < k \/ k < j
    BY <2>2
  <2> QED
    BY <1>4, <2>1, <2>3
<1> QED
  BY <1>6, <1>7, <1>8, <1>9, <1>10

----------------------------------------------------------------------------
(* A write.                                                                *)

Kinds == {"header", "bitmap", "catalog", "extents", "attributes", "file", "zero"}

LEMMA SameInterval ==
  ASSUME NEW m \in Nat, NEW n \in Nat, 1 .. m = 1 .. n
  PROVE  m = n
<1>1. m <= n
  <2>1. m = 0 \/ m \in 1 .. m
    OBVIOUS
  <2> QED
    BY <2>1
<1>2. n <= m
  <2>1. n = 0 \/ n \in 1 .. n
    OBVIOUS
  <2> QED
    BY <2>1
<1> QED
  BY <1>1, <1>2

LEMMA ContentType ==
  ASSUME NEW of \in Kinds, NEW k \in Nat, NEW i \in Int
  PROVE  /\ Content(of, k, i) \in Contents
         /\ Content(of, k, i).of = of /\ Content(of, k, i).k = k
         /\ Zero \in Contents /\ Zero.of = "zero"
BY DEF Content, Contents, Zero, Kinds

\* The output after a write: what was written where it was written, and the rest
\* as it was, or zero where the output has grown.
Wrote(d, of, k, first, n) ==
    /\ d \in Seq(Contents)
    /\ Len(d) = IF first + n > Len(disk) THEN first + n ELSE Len(disk)
    /\ DOMAIN d = 1 .. Len(d)
    /\ \A s \in DOMAIN d :
          d[s] = IF s - 1 \in first .. first + n - 1 THEN Content(of, k, s - 1 - first)
                 ELSE IF s <= Len(disk) THEN disk[s] ELSE Zero

LEMMA AfterWrite ==
  ASSUME Sector \in Nat \ {0}, disk \in Seq(Contents),
         NEW of \in Kinds, NEW k \in Nat, NEW byte \in Int, NEW bytes \in Nat,
         NEW first \in Int, NEW n \in Nat, byte \div Sector = first, Sectors(bytes) = n,
         NEW d, d = After(of, k, byte, bytes)
  PROVE  Wrote(d, of, k, first, n)
<1> DEFINE old == Len(disk)
           size == IF first + n > old THEN first + n ELSE old
           e(s) == IF s - 1 \in first .. first + n - 1 THEN Content(of, k, s - 1 - first)
                   ELSE IF s <= old THEN disk[s] ELSE Zero
<1>1. old \in Nat /\ DOMAIN disk = 1 .. old /\ \A s \in 1 .. old : disk[s] \in Contents
  <2>1. old \in Nat /\ DOMAIN disk = 1 .. old
    BY LenProperties
  <2>2. \A s \in 1 .. old : disk[s] \in Contents
    BY ElementOfSeq
  <2> QED
    BY <2>1, <2>2
<1>2. size \in Nat
  BY <1>1
<1>3. d = [s \in 1 .. size |-> e(s)]
  BY DEF After
<1>4. ASSUME NEW s \in 1 .. size PROVE e(s) \in Contents
  <2>1. s - 1 - first \in Int
    BY <1>2
  <2>2. CASE s - 1 \in first .. first + n - 1
    <3>1. Content(of, k, s - 1 - first) \in Contents
      BY <2>1, ContentType
    <3> QED
      BY <2>2, <3>1
  <2>3. CASE s - 1 \notin first .. first + n - 1 /\ s <= old
    <3>1. s \in 1 .. old
      BY <1>1, <1>2, <2>3
    <3> QED
      BY <1>1, <2>3, <3>1
  <2>4. CASE s - 1 \notin first .. first + n - 1 /\ ~(s <= old)
    BY <2>4, ContentType
  <2> QED
    BY <2>2, <2>3, <2>4
<1> HIDE DEF e, size
<1>5. d \in [1 .. size -> Contents]
  BY <1>3, <1>4
<1>6. d \in Seq(Contents)
  BY <1>2, <1>5, SeqDef
<1>7. Len(d) = size /\ DOMAIN d = 1 .. size
  <2>1. DOMAIN d = 1 .. Len(d) /\ Len(d) \in Nat
    BY <1>6, LenProperties
  <2>2. DOMAIN d = 1 .. size
    BY <1>5
  <2>3. 1 .. Len(d) = 1 .. size
    BY <2>1, <2>2, Zenon
  <2>4. Len(d) = size
    BY ONLY <1>2, <2>1, <2>3, SameInterval
  <2> QED
    BY <2>2, <2>4, Zenon
<1>8. \A s \in DOMAIN d : d[s] = e(s)
  BY <1>3, <1>7
<1> QED
  BY <1>6, <1>7, <1>8 DEF e, size, Wrote

\* A sector of a part that does not meet another one.
LEMMA Elsewhere ==
  ASSUME NEW f \in Nat, NEW n \in Nat, NEW g \in Nat, NEW m \in Nat, NEW i \in 0 .. m - 1,
         NEW size \in Nat, g + m <= size, n = 0 \/ g + m <= f \/ f + n <= g
  PROVE  /\ g + i + 1 \in 1 .. size /\ g + i + 1 <= size
         /\ (g + i + 1) - 1 \notin f .. f + n - 1
<1>1. i \in Nat /\ i + 1 <= m
  OBVIOUS
<1>2. g + i + 1 \in 1 .. size /\ g + i + 1 <= size
  BY <1>1
<1>3. ~(f <= g + i /\ g + i <= f + n - 1)
  BY ONLY <1>1, f \in Nat, n \in Nat, g \in Nat, m \in Nat,
          n = 0 \/ g + m <= f \/ f + n <= g
<1>4. (g + i + 1) - 1 = g + i /\ g + i \in Int
  BY <1>1
<1>5. g + i \notin f .. f + n - 1
  BY <1>3, <1>4
<1> QED
  BY <1>2, <1>4, <1>5

\* A sector of the part itself.
LEMMA Within ==
  ASSUME NEW f \in Nat, NEW n \in Nat, NEW i \in 0 .. n - 1,
         NEW size \in Nat, f + n <= size
  PROVE  /\ f + i + 1 \in 1 .. size
         /\ (f + i + 1) - 1 \in f .. f + n - 1
         /\ (f + i + 1) - 1 - f = i
<1>1. i \in Nat /\ i + 1 <= n
  OBVIOUS
<1>2. (f + i + 1) - 1 = f + i /\ f + i - f = i /\ f + i <= f + n - 1 /\ f + i \in Int
  BY <1>1
<1> QED
  BY <1>1, <1>2

\* Writing a part, or the beginning of it, puts it in its place and leaves all others in
\* theirs.
LEMMA PartWritten ==
  ASSUME PlanInv, StagesInv, pc = "planned", HeadersFit,
         disk \in Seq(Contents), Len(disk) = total * PerBlock, OnlyParts(disk),
         NEW q \in Parts, q.of \in Kinds, q.k \in Nat,
         NEW byte \in Nat, NEW bytes \in Nat,
         byte \div Sector = q.first, NEW w \in Nat, Sectors(bytes) = w, w <= q.n,
         NEW d, d = After(q.of, q.k, byte, bytes)
  PROVE  /\ d \in Seq(Contents) /\ Len(d) = total * PerBlock
         /\ w = q.n => InPlace(d, q)
         /\ \A p \in Parts : InPlace(disk, p) => InPlace(d, p)
         /\ OnlyParts(d)
<1>0. /\ Sector \in Nat \ {0} /\ PerBlock \in Nat /\ total \in Nat
      /\ Len(disk) \in Nat
  BY WholeSectors, Slots
<1>1. q.first \in Nat /\ q.n \in Nat /\ q.first + q.n <= Len(disk)
  BY PartsInside
<1>2. Wrote(d, q.of, q.k, q.first, w)
  <2>1. q.first \in Int /\ byte \in Int
    BY <1>1
  <2> QED
    BY <1>0, <1>1, <2>1, AfterWrite, Zenon
<1>3. Len(d) = Len(disk) /\ DOMAIN d = 1 .. Len(disk) /\ DOMAIN disk = 1 .. Len(disk)
  <2>1. Len(d) = Len(disk)
    BY <1>0, <1>1, <1>2, w \in Nat, w <= q.n DEF Wrote
  <2>2. DOMAIN d = 1 .. Len(d)
    BY <1>2 DEF Wrote
  <2>3. DOMAIN disk = 1 .. Len(disk)
    BY LenProperties
  <2> QED
    BY <2>1, <2>2, <2>3
<1>4. ASSUME NEW i \in 0 .. q.n - 1
      PROVE  /\ i \in 0 .. w - 1 => d[q.first + i + 1] = Content(q.of, q.k, i)
             /\ i \notin 0 .. w - 1 => d[q.first + i + 1] = disk[q.first + i + 1]
  <2>1. /\ q.first + i + 1 \in 1 .. Len(disk)
        /\ (q.first + i + 1) - 1 = q.first + i
        /\ (q.first + i + 1) - 1 - q.first = i
        /\ q.first + i + 1 <= Len(disk)
    <3>1. i \in Nat /\ i + 1 <= q.n
      BY <1>1
    <3>2. \A a, b, c, e \in Nat : b + 1 <= c /\ a + c <= e =>
             /\ a + b + 1 \in 1 .. e
             /\ (a + b + 1) - 1 = a + b
             /\ (a + b + 1) - 1 - a = b
             /\ a + b + 1 <= e
      OBVIOUS
    <3> QED
      BY ONLY <1>0, <1>1, <3>1, <3>2, Zenon
  <2>2. i \in 0 .. w - 1 <=> (q.first + i + 1) - 1 \in q.first .. q.first + w - 1
    <3>1. i \in Nat
      BY <1>1
    <3>2. \A a, b, c \in Nat : b \in 0 .. c - 1 <=> a + b \in a .. a + c - 1
      OBVIOUS
    <3>3. i \in 0 .. w - 1 <=> q.first + i \in q.first .. q.first + w - 1
      BY <1>1, <3>1, <3>2, Zenon
    <3> QED
      BY <2>1, <3>3, Zenon
  <2> QED
    BY <1>2, <1>3, <2>1, <2>2 DEF Wrote
<1>5. ASSUME NEW p \in Parts, InPlace(disk, p) \/ (p = q /\ w = q.n) PROVE InPlace(d, p)
  <2>1. CASE p = q
    <3>1. CASE w = q.n
      BY <1>4, <2>1, <3>1 DEF InPlace
    <3>2. CASE w # q.n
      <4>1. InPlace(disk, q)
        BY <1>5, <2>1, <3>2
      <4> QED
        BY <1>4, <2>1, <4>1 DEF InPlace
    <3> QED
      BY <3>1, <3>2
  <2>2. CASE p # q
    <3> SUFFICES ASSUME NEW i \in 0 .. p.n - 1
                 PROVE  d[p.first + i + 1] = Content(p.of, p.k, i)
      BY DEF InPlace
    <3>1. p.first \in Nat /\ p.n \in Nat /\ p.first + p.n <= Len(disk)
      BY PartsInside
    <3>2. Before(p, q) \/ Before(q, p)
      BY <2>2, PartsApart
    <3>3. w = 0 \/ p.first + p.n <= q.first \/ q.first + w <= p.first
      BY <1>1, <3>1, <3>2 DEF Before
    <3>4. /\ p.first + i + 1 \in 1 .. Len(disk) /\ p.first + i + 1 <= Len(disk)
          /\ (p.first + i + 1) - 1 \notin q.first .. q.first + w - 1
      <4>1. \A f, n, g, m, size \in Nat : \A j \in 0 .. m - 1 :
               g + m <= size /\ (n = 0 \/ g + m <= f \/ f + n <= g) =>
                  /\ g + j + 1 \in 1 .. size /\ g + j + 1 <= size
                  /\ (g + j + 1) - 1 \notin f .. f + n - 1
        BY Elsewhere
      <4> QED
        BY ONLY <1>0, <1>1, <3>1, <3>3, <4>1, w \in Nat, i \in 0 .. p.n - 1, Zenon
    <3>5. d[p.first + i + 1] = disk[p.first + i + 1]
      BY <1>2, <1>3, <3>4 DEF Wrote
    <3>6. InPlace(disk, p)
      BY <1>5, <2>2
    <3> QED
      BY <3>5, <3>6 DEF InPlace
  <2> QED
    BY <2>1, <2>2
<1>6. OnlyParts(d)
  <2> SUFFICES ASSUME NEW s \in DOMAIN d
               PROVE  d[s] = Zero \/ \E p \in Parts : s - 1 \in p.first .. p.first + p.n - 1
    BY DEF OnlyParts
  <2>1. s \in DOMAIN disk /\ s <= Len(disk)
    BY <1>0, <1>3
  <2>2. CASE s - 1 \in q.first .. q.first + w - 1
    <3>1. s - 1 \in q.first .. q.first + q.n - 1
      BY <1>1, <2>2
    <3> QED
      BY <3>1
  <2>3. CASE s - 1 \notin q.first .. q.first + w - 1
    <3>1. d[s] = disk[s]
      BY <1>2, <2>1, <2>3 DEF Wrote
    <3> QED
      BY <2>1, <3>1 DEF OnlyParts
  <2> QED
    BY <2>2, <2>3
<1>7. d \in Seq(Contents)
  BY <1>2 DEF Wrote
<1> QED
  BY <1>3, <1>5, <1>6, <1>7

----------------------------------------------------------------------------
(* A step of the call.                                                     *)

\* Once the plan is made, the parts stay where they are.
LEMMA GeometryStays ==
  ASSUME planVars' = planVars
  PROVE  /\ pc' = pc /\ blockSize' = blockSize /\ files' = files /\ total' = total
         /\ placements' = placements /\ bitmapBytes' = bitmapBytes
         /\ PerBlock' = PerBlock /\ Fixed' = Fixed /\ Parts' = Parts
         /\ (HeadersFit' <=> HeadersFit)
         /\ \A k : FilePart(k)' = FilePart(k)
<1>1. /\ pc' = pc /\ blockSize' = blockSize /\ files' = files /\ total' = total
      /\ placements' = placements /\ bitmapBytes' = bitmapBytes
      /\ forks' = forks /\ alloc' = alloc
  BY DEF planVars
<1>2. PerBlock' = PerBlock /\ (HeadersFit' <=> HeadersFit)
  BY <1>1 DEF PerBlock, HeadersFit
<1>3. CatalogStart' = CatalogStart
  BY <1>1 DEF CatalogStart, AllocStart
<1>4. ExtentsStart' = ExtentsStart
  BY <1>1, <1>3 DEF ExtentsStart
<1>5. AttributesStart' = AttributesStart
  BY <1>1, <1>4 DEF AttributesStart
<1>6. Layout' = Layout
  BY <1>1, <1>3, <1>4, <1>5 DEF Layout, AllocStart
<1>7. Fixed' = Fixed
  BY <1>1, <1>2, <1>6 DEF Fixed
<1>8. \A k : FilePart(k)' = FilePart(k)
  BY <1>1, <1>2 DEF FilePart
<1>9. Parts' = Parts
  BY <1>1, <1>7, <1>8 DEF Parts
<1> QED
  BY <1>1, <1>2, <1>7, <1>8, <1>9

\* What the steps outside the plan keep of it.
LEMMA PlanStays == PlanInv /\ planVars' = planVars => PlanInv'
BY PlanInvStep

\* A write of a step: a file's lies in its extent.
Puts(of, k, byte, bytes) ==
    /\ disk' = After(of, k, byte, bytes)
    /\ of = "file" => /\ k \in DOMAIN placements
                      /\ byte = placements[k].start * blockSize
                      /\ bytes <= placements[k].blocks * blockSize

\* A read ends inside the file and inside the planned bytes.
LEMMA ReachedType ==
  ASSUME NEW planned \in Nat, NEW length \in Nat, copied \in Nat
  PROVE  LET end == Reached(planned, length)
         IN  end \in Nat /\ end <= planned /\ end <= length
<1>1. ReadMax \in Nat
  BY WriteAssumption
<1> QED
  BY <1>1 DEF Reached

\* A file the plan has placed.
LEMMA PlacedFile ==
  ASSUME WriteInv, wpc \in Planned, NEW k \in DOMAIN files
  PROVE  /\ k \in Nat /\ now[k] \in Nat /\ files[k] \in Nat
         /\ pc = "planned"
         /\ k \in DOMAIN placements
         /\ placements[k].start \in Nat /\ placements[k].blocks \in Nat
         /\ files[k] <= placements[k].blocks * blockSize
<1>1. PlanInv /\ pc = "planned"
  BY DEF WriteInv, StagesInv
<1>2. files \in Seq(Nat) /\ now \in [DOMAIN files -> Nat]
  BY <1>1 DEF WriteInv, WriteTypes, PlanInv, PlanTypeOK
<1>3. k \in Nat /\ now[k] \in Nat
  BY <1>2
<1> QED
  BY <1>1, <1>3, FileSlots

\* The file whose turn it is, and the one that is open.
LEMMA TheFile ==
  ASSUME WriteInv
  PROVE  /\ Len(streamed) \in Nat
         /\ wpc = "stream" => wpc \in Planned
         /\ Open => wpc \in Planned /\ Len(streamed) \in DOMAIN files
         /\ Len(streamed) + 1 <= Len(files) => Len(streamed) + 1 \in DOMAIN files
<1>1. /\ files \in Seq(Nat) /\ Len(streamed) \in Nat /\ Len(streamed) <= Len(files)
  BY DEF WriteInv, WriteTypes, PlanInv, PlanTypeOK
<1>2. DOMAIN files = 1 .. Len(files) /\ Len(files) \in Nat
  BY <1>1
<1> QED
  BY <1>1, <1>2 DEF WriteInv, StreamedInv, Open, Planned

LEMMA OutputStep ==
  ASSUME WriteInv, [WriteStep \/ FileChanges \/ WriteOver]_volumeVars
  PROVE  \/ disk' = disk /\ (planVars' = planVars \/ disk = <<>>)
         \/ /\ pc = "planned" /\ planVars' = planVars
            /\ \E of \in Kinds, k \in Nat, byte \in Int, bytes \in Nat :
                  Puts(of, k, byte, bytes)
<1>0. PlanInv /\ StagesInv /\ WriteTypes
  BY DEF WriteInv
<1>1. TagEntries => disk' = disk /\ disk = <<>>
  BY <1>0 DEF TagEntries, StagesInv, Early
<1>2. PlanVolume => disk' = disk /\ disk = <<>>
  BY <1>0 DEF PlanVolume, StagesInv
<1>3. Pack \/ Repack \/ PadTrees \/ SkipFile \/ OpenFile \/ ProbeFile \/ FilesStreamed =>
         disk' = disk /\ planVars' = planVars
  BY DEF Pack, Repack, PadTrees, SkipFile, OpenFile, ProbeFile, FilesStreamed, inputs
<1>4. FileChanges \/ UNCHANGED volumeVars => disk' = disk /\ planVars' = planVars
  BY DEF FileChanges, volumeVars, writeVars
<1>5. ASSUME NEW at \in Planned, NEW next, NEW of \in Kinds \ {"file"},
             NEW byte \in Int, NEW bytes \in Nat, WritePart(at, next, of, byte, bytes)
      PROVE  \/ disk' = disk /\ planVars' = planVars
             \/ /\ pc = "planned" /\ planVars' = planVars
                /\ Puts(of, 0, byte, bytes)
  BY <1>0, <1>5 DEF WritePart, inputs, Puts, StagesInv
<1>6. pc = "planned" =>
         /\ VolumeSize \in Nat /\ bitmapBytes \in Nat /\ blockSize \in Nat
         /\ HeaderAt \in Nat /\ Sector \in Nat
         /\ \A t \in Trees : forks[t] * blockSize \in Nat
         /\ ByteOffset(AllocStart) \in Nat /\ ByteOffset(CatalogStart) \in Nat
         /\ ByteOffset(ExtentsStart) \in Nat /\ ByteOffset(AttributesStart) \in Nat
  <2> SUFFICES ASSUME pc = "planned"
               PROVE  /\ VolumeSize \in Nat /\ bitmapBytes \in Nat /\ blockSize \in Nat
                      /\ HeaderAt \in Nat /\ Sector \in Nat
                      /\ \A t \in Trees : forks[t] * blockSize \in Nat
                      /\ ByteOffset(AllocStart) \in Nat /\ ByteOffset(CatalogStart) \in Nat
                      /\ ByteOffset(ExtentsStart) \in Nat /\ ByteOffset(AttributesStart) \in Nat
    OBVIOUS
  <2>1. /\ total \in Nat /\ blockSize \in Nat /\ bitmapBytes \in Nat
        /\ forks \in [Trees -> Nat]
        /\ HeaderAt \in Nat /\ Sector \in Nat
    BY <1>0, WriteAssumption DEF PlanInv, PlanTypeOK
  <2>2. \A n \in Nat : n * blockSize \in Nat
    BY <2>1
  <2>3. Layout[3].start \in Nat /\ Layout[4].start \in Nat /\ Layout[5].start \in Nat
    BY <1>0, Slots
  <2>4. CatalogStart \in Nat /\ ExtentsStart \in Nat /\ AttributesStart \in Nat
    BY <2>3 DEF Layout, Extent
  <2>5. \A t \in Trees : forks[t] \in Nat
    BY <2>1
  <2>6. VolumeSize \in Nat
    BY <2>1, <2>2 DEF VolumeSize
  <2>7. AllocStart \in Nat
    BY DEF AllocStart
  <2> QED
    BY <2>1, <2>2, <2>4, <2>5, <2>6, <2>7 DEF ByteOffset
<1>7. Extend \/ WritePrimary \/ WriteBitmap \/ WriteCatalog \/ WriteExtents
      \/ WriteAttributes \/ WriteAlternate =>
         \/ disk' = disk /\ planVars' = planVars
         \/ /\ pc = "planned" /\ planVars' = planVars
            /\ \E of \in Kinds, k \in Nat, byte \in Int, bytes \in Nat :
                  Puts(of, k, byte, bytes)
  <2>0. wpc \in Planned => pc = "planned"
    BY <1>0 DEF StagesInv
  <2>1. CASE Extend
    <3>1. "extend" \in Planned /\ wpc = "extend" /\ "zero" \in Kinds \ {"file"}
      BY <2>1 DEF Planned, Extend, WritePart, Kinds
    <3>2. VolumeSize - 1 \in Int /\ 1 \in Nat
      BY <1>6, <2>0, <3>1
    <3> QED
      BY <1>5, <2>1, <3>1, <3>2 DEF Extend
  <2>2. CASE WritePrimary
    <3>1. "primary" \in Planned /\ wpc = "primary" /\ "header" \in Kinds \ {"file"}
      BY <2>2 DEF Planned, WritePrimary, WritePart, Kinds
    <3>2. HeaderAt \in Int /\ Sector \in Nat
      BY <1>6, <2>0, <3>1
    <3> QED
      BY <1>5, <2>2, <3>1, <3>2 DEF WritePrimary
  <2>3. CASE WriteBitmap
    <3>1. "bitmap" \in Planned /\ wpc = "bitmap" /\ "bitmap" \in Kinds \ {"file"}
      BY <2>3 DEF Planned, WriteBitmap, WritePart, Kinds
    <3>2. ByteOffset(AllocStart) \in Int /\ bitmapBytes \in Nat
      BY <1>6, <2>0, <3>1
    <3>3. CASE WritePart("bitmap", "catalog", "bitmap", ByteOffset(AllocStart), bitmapBytes)
      BY <1>5, <3>1, <3>2, <3>3
    <3>4. CASE ~WritePart("bitmap", "catalog", "bitmap", ByteOffset(AllocStart), bitmapBytes)
      <4>1. UNCHANGED inputs /\ UNCHANGED disk
        BY <2>3, <3>4 DEF WriteBitmap
      <4> QED
        BY <4>1 DEF inputs
    <3> QED
      BY <3>3, <3>4
  <2>4. CASE WriteCatalog
    <3>1. "catalog" \in Planned /\ wpc = "catalog" /\ "catalog" \in Kinds \ {"file"}
          /\ "catalog" \in Trees
      BY <2>4 DEF Planned, WriteCatalog, WritePart, Kinds, Trees
    <3>2. ByteOffset(CatalogStart) \in Int /\ forks["catalog"] * blockSize \in Nat
      BY <1>6, <2>0, <3>1
    <3> QED
      BY <1>5, <2>4, <3>1, <3>2 DEF WriteCatalog
  <2>5. CASE WriteExtents
    <3>1. "extents" \in Planned /\ wpc = "extents" /\ "extents" \in Kinds \ {"file"}
          /\ "extents" \in Trees
      BY <2>5 DEF Planned, WriteExtents, WritePart, Kinds, Trees
    <3>2. ByteOffset(ExtentsStart) \in Int /\ forks["extents"] * blockSize \in Nat
      BY <1>6, <2>0, <3>1
    <3> QED
      BY <1>5, <2>5, <3>1, <3>2 DEF WriteExtents
  <2>6. CASE WriteAttributes
    <3>1. "attributes" \in Planned /\ wpc = "attributes" /\ "attributes" \in Kinds \ {"file"}
          /\ "attributes" \in Trees
      BY <2>6 DEF Planned, WriteAttributes, WritePart, Kinds, Trees
    <3>2. ByteOffset(AttributesStart) \in Int /\ forks["attributes"] * blockSize \in Nat
      BY <1>6, <2>0, <3>1
    <3> QED
      BY <1>5, <2>6, <3>1, <3>2 DEF WriteAttributes
  <2>7. CASE WriteAlternate
    <3>1. "alternate" \in Planned /\ wpc = "alternate" /\ "header" \in Kinds \ {"file"}
      BY <2>7 DEF Planned, WriteAlternate, WritePart, Kinds
    <3>2. VolumeSize - HeaderAt \in Int /\ Sector \in Nat
      BY <1>6, <2>0, <3>1
    <3> QED
      BY <1>5, <2>7, <3>1, <3>2 DEF WriteAlternate
  <2> QED
    BY <2>1, <2>2, <2>3, <2>4, <2>5, <2>6, <2>7
<1>8. CopyFile =>
         \/ disk' = disk /\ planVars' = planVars
         \/ /\ pc = "planned" /\ planVars' = planVars
            /\ \E of \in Kinds, k \in Nat, byte \in Int, bytes \in Nat :
                  Puts(of, k, byte, bytes)
  <2> SUFFICES ASSUME CopyFile, disk' # disk
               PROVE  /\ pc = "planned" /\ planVars' = planVars
                      /\ \E of \in Kinds, k \in Nat, byte \in Int, bytes \in Nat :
                            Puts(of, k, byte, bytes)
    BY DEF CopyFile, inputs
  <2> DEFINE k == Len(streamed)
             end == Reached(files[k], now[k])
  <2>1. /\ wpc = "copy" /\ planVars' = planVars
        /\ disk' = After("file", k, ByteOffset(placements[k].start), end)
    BY DEF CopyFile, inputs
  <2>2. /\ k \in Nat /\ now[k] \in Nat /\ files[k] \in Nat
        /\ pc = "planned" /\ k \in DOMAIN placements
        /\ placements[k].start \in Nat /\ placements[k].blocks \in Nat
        /\ files[k] <= placements[k].blocks * blockSize
    BY <2>1, TheFile, PlacedFile DEF Open
  <2>3. blockSize \in Nat /\ copied \in Nat
    BY <1>0 DEF PlanInv, PlanTypeOK, WriteTypes
  <2>4. end \in Nat /\ end <= files[k]
    BY <2>2, <2>3, ReachedType
  <2> HIDE DEF k, end
  <2>5. /\ ByteOffset(placements[k].start) \in Int
        /\ ByteOffset(placements[k].start) = placements[k].start * blockSize
        /\ placements[k].blocks * blockSize \in Nat
    BY <2>2, <2>3 DEF ByteOffset
  <2>6. end <= placements[k].blocks * blockSize
    BY <2>2, <2>4, <2>5
  <2>7. Puts("file", k, ByteOffset(placements[k].start), end)
    BY <2>1, <2>2, <2>5, <2>6 DEF Puts
  <2>8. "file" \in Kinds
    BY DEF Kinds
  <2> QED
    BY <2>1, <2>2, <2>4, <2>5, <2>7, <2>8
<1> QED
  BY <1>1, <1>2, <1>3, <1>4, <1>7, <1>8 DEF WriteStep, WriteOver

\* Only two of the steps touch the plan.
LEMMA PlanKept ==
  ASSUME WriteStep \/ FileChanges \/ WriteOver \/ UNCHANGED volumeVars
  PROVE  TagEntries \/ PlanVolume \/ planVars' = planVars
BY DEF WriteStep, FileChanges, WriteOver, volumeVars, Pack, Repack, PadTrees, Extend,
       WritePrimary, WriteBitmap, WriteCatalog, WriteExtents, WriteAttributes, WritePart,
       SkipFile, OpenFile, CopyFile,
         ProbeFile, FilesStreamed, WriteAlternate, inputs

\* The plan's own invariant is kept: only BuildPlan's steps and the default of the
\* block size touch its variables.
LEMMA WritePlanStep ==
  WriteInv /\ [WriteStep \/ FileChanges \/ WriteOver]_volumeVars => PlanInv'
<1> SUFFICES ASSUME WriteInv, [WriteStep \/ FileChanges \/ WriteOver]_volumeVars
             PROVE  PlanInv'
  OBVIOUS
<1>0. PlanInv /\ StagesInv
  BY DEF WriteInv
<1>1. CASE TagEntries
  <2>1. /\ pc = "blockSize" /\ pc' = pc /\ blockSize' \in Nat
        /\ UNCHANGED <<treeSize, files, forks, fileBlocks, userBlocks, alloc, total,
                       placements, cursor, bitmapBytes, nextAllocation, sums>>
    BY <1>0, <1>1, PlanAssumption DEF TagEntries, StagesInv, Early, PlanInv, PlanTypeOK
  <2>2. PlanTypeOK'
    BY <1>0, <2>1 DEF PlanInv, PlanTypeOK
  <2>3. ForksInv'
    BY <2>1 DEF ForksInv, Counted, Settled
  <2>4. FilesInv'
    BY <1>0, <2>1 DEF PlanInv, FilesInv, Counted, Settled
  <2>5. SumsInv'
    BY <1>0, <2>1 DEF PlanInv, SumsInv, At
  <2>6. TotalInv'
    BY <1>0, <2>1 DEF PlanInv, TotalInv, Counted, Settled
  <2>7. PlaceInv'
    BY <1>0, <2>1 DEF PlanInv, PlaceInv, Settled
  <2> QED
    BY <2>2, <2>3, <2>4, <2>5, <2>6, <2>7 DEF PlanInv
<1>2. CASE PlanVolume
  BY <1>0, <1>2, PlanInvStep DEF PlanVolume
<1>3. CASE planVars' = planVars
  BY <1>0, <1>3, PlanStays
<1> QED
  BY <1>1, <1>2, <1>3, PlanKept

\* The files are inputs.
LEMMA FilesKept ==
  ASSUME WriteStep \/ FileChanges \/ WriteOver \/ UNCHANGED volumeVars
  PROVE  files' = files
<1>1. TagEntries => files' = files
  BY DEF TagEntries
<1>2. PlanVolume => files' = files
  BY DEF PlanVolume, PlanStep, CheckBlockSize, SizeTrees, SizeFile, FilesSized, GrowBitmap,
         Settle, PlaceFile, MarkBitmap
<1>3. planVars' = planVars => files' = files
  BY DEF planVars
<1> QED
  BY <1>1, <1>2, <1>3, PlanKept

\* What the plan gives an entry is an extent.
LEMMA EntryExtents ==
  ASSUME PlanInv, WriteTypes, PlanInv', PlanVolume
  PROVE  /\ entries' \in [DOMAIN files -> FileEntries]
         /\ \A k \in DOMAIN files :
               /\ entries'[k].hasAttributes = entries[k].hasAttributes
               /\ k \in DOMAIN placements' => entries'[k].extent = placements'[k]
<1>1. placements' \in Seq([start : Nat, blocks : Nat])
  BY DEF PlanInv, PlanTypeOK
<1>2. \A k \in DOMAIN placements' : placements'[k] \in [start : Nat, blocks : Nat]
  BY ONLY <1>1, ElementOfSeq, LenProperties
<1>3. entries \in [DOMAIN files -> FileEntries]
  BY DEF WriteTypes
<1>4. entries' = [k \in DOMAIN files |->
                    IF k \in DOMAIN placements'
                    THEN [entries[k] EXCEPT !.extent = placements'[k]]
                    ELSE entries[k]]
  BY DEF PlanVolume
<1>5. ASSUME NEW k \in DOMAIN files
      PROVE  /\ entries'[k] \in FileEntries
             /\ entries'[k].hasAttributes = entries[k].hasAttributes
             /\ k \in DOMAIN placements' => entries'[k].extent = placements'[k]
  <2>1. entries[k] \in FileEntries
    BY <1>3
  <2>2. CASE k \in DOMAIN placements'
    <3>1. placements'[k] \in [start : Nat, blocks : Nat]
      BY <1>2, <2>2
    <3>2. entries'[k] = [entries[k] EXCEPT !.extent = placements'[k]]
      BY <1>4, <2>2
    <3> QED
      BY <2>1, <3>1, <3>2 DEF FileEntries
  <2>3. CASE k \notin DOMAIN placements'
    <3>1. entries'[k] = entries[k]
      BY <1>4, <2>3
    <3> QED
      BY <2>1, <2>3, <3>1
  <2> QED
    BY <2>2, <2>3
<1>6. entries' \in [DOMAIN files -> FileEntries]
  BY <1>4, <1>5
<1> QED
  BY <1>5, <1>6

LEMMA TagExtents ==
  ASSUME WriteTypes, TagEntries, TimeGiven
  PROVE  /\ entries' \in [DOMAIN files -> FileEntries]
         /\ \A k \in DOMAIN files :
               entries'[k].hasAttributes <=> entries[k].hasAttributes \/ k \in withAttrs
<1>1. entries \in [DOMAIN files -> FileEntries]
  BY DEF WriteTypes
<1>2. entries' = [k \in DOMAIN files |->
                    [entries[k] EXCEPT !.hasAttributes = @ \/ k \in withAttrs]]
  BY DEF TagEntries
<1>3. ASSUME NEW k \in DOMAIN files
      PROVE  /\ entries'[k] \in FileEntries
             /\ entries'[k].hasAttributes <=> entries[k].hasAttributes \/ k \in withAttrs
  <2>1. entries[k] \in FileEntries
    BY <1>1
  <2>2. entries'[k] = [entries[k] EXCEPT !.hasAttributes =
                          entries[k].hasAttributes \/ k \in withAttrs]
    BY <1>2
  <2>3. (entries[k].hasAttributes \/ k \in withAttrs) \in BOOLEAN
    OBVIOUS
  <2> QED
    BY <2>1, <2>2, <2>3 DEF FileEntries
<1> QED
  BY <1>2, <1>3
\* The output of a step is an output, and holds bytes of files only in their extents.
LEMMA OutputKept ==
  ASSUME WriteInv, [WriteStep \/ FileChanges \/ WriteOver]_volumeVars
  PROVE  disk' \in Seq(Contents) /\ InsideInv'
<1>0. PlanInv /\ StagesInv /\ WriteTypes /\ InsideInv
  BY DEF WriteInv
<1>1. disk \in Seq(Contents)
  BY <1>0 DEF WriteTypes
<1>2. CASE disk' = disk /\ disk = <<>>
  BY <1>1, <1>2 DEF InsideInv
<1>3. CASE disk' = disk /\ planVars' = planVars
  <2>1. placements' = placements /\ PerBlock' = PerBlock
    BY <1>3, GeometryStays
  <2> QED
    BY <1>0, <1>1, <1>3, <2>1 DEF InsideInv, EndOf
<1>4. CASE /\ pc = "planned" /\ planVars' = planVars
           /\ \E of \in Kinds, k \in Nat, byte \in Int, bytes \in Nat :
                 Puts(of, k, byte, bytes)
  <2>1. PICK of \in Kinds, k \in Nat, byte \in Int, bytes \in Nat : Puts(of, k, byte, bytes)
    BY <1>4
  <2> DEFINE first == byte \div Sector
             n == Sectors(bytes)
  <2>2. placements' = placements /\ PerBlock' = PerBlock
    BY <1>4, GeometryStays
  <2>3. /\ Sector \in Nat \ {0} /\ PerBlock \in Nat \ {0} /\ blockSize = PerBlock * Sector
    BY <1>0, <1>4, WholeSectors
  <2>4. first \in Int /\ n \in Nat
    <3>1. n \in Nat
      BY <2>3, RoundUp DEF Sectors
    <3> QED
      BY <2>3, <3>1
  <2> HIDE DEF first, n
  <2>5. Wrote(disk', of, k, first, n)
    BY <1>1, <2>1, <2>3, <2>4, AfterWrite DEF first, n, Puts
  <2>6. ASSUME of = "file"
        PROVE  /\ k \in DOMAIN placements
               /\ placements[k].start \in Nat /\ placements[k].blocks \in Nat
               /\ EndOf(placements[k]) = placements[k].start + placements[k].blocks
               /\ first = placements[k].start * PerBlock
               /\ n <= placements[k].blocks * PerBlock
    <3>1. /\ k \in DOMAIN placements
          /\ byte = placements[k].start * blockSize
          /\ bytes <= placements[k].blocks * blockSize
      BY <2>1, <2>6 DEF Puts
    <3>2. k \in DOMAIN files
      <4>1. PlanTypeOK /\ Len(placements) = Len(files)
        BY <1>0, <1>4 DEF PlanInv, PlaceInv
      <4>2. DOMAIN placements = 1 .. Len(placements) /\ DOMAIN files = 1 .. Len(files)
        BY <4>1 DEF PlanTypeOK
      <4> QED
        BY <3>1, <4>1, <4>2
    <3>3. /\ placements[k].start \in Nat /\ placements[k].blocks \in Nat
          /\ EndOf(placements[k]) = placements[k].start + placements[k].blocks
      BY <1>0, <1>4, <3>2, FileSlots
    <3> DEFINE b == placements[k].start
               m == placements[k].blocks
               P == PerBlock
    <3> HIDE DEF b, m, P
    <3>4. b \in Nat /\ m \in Nat /\ P \in Nat /\ blockSize = P * Sector
      BY <2>3, <3>3 DEF b, m, P
    <3>5. /\ b * P \in Nat /\ m * P \in Nat
          /\ b * blockSize = (b * P) * Sector /\ m * blockSize = (m * P) * Sector
      BY <2>3, <3>4
    <3>6. byte = (b * P) * Sector /\ bytes <= (m * P) * Sector
      BY <3>1, <3>5 DEF b, m
    <3>7. first = b * P
      BY <2>3, <3>5, <3>6, Exact DEF first
    <3>8. n <= m * P
      BY <2>3, <3>5, <3>6, SectorsFit DEF n
    <3> QED
      BY <3>1, <3>3, <3>7, <3>8 DEF b, m, P
  <2>7. ASSUME NEW s \in DOMAIN disk', disk'[s].of = "file"
        PROVE  /\ disk'[s].k \in DOMAIN placements
               /\ s - 1 >= placements[disk'[s].k].start * PerBlock
               /\ s - 1 < EndOf(placements[disk'[s].k]) * PerBlock
    <3>1. s \in Nat /\ Len(disk) \in Nat /\ s \in 1 .. Len(disk')
      BY <1>1, <2>5 DEF Wrote
    <3>2. CASE s - 1 \in first .. first + n - 1
      <4>1. disk'[s] = Content(of, k, s - 1 - first)
        BY <2>5, <3>2 DEF Wrote
      <4>2. s - 1 - first \in Int
        BY <2>4, <3>1
      <4>3. disk'[s].k = k /\ of = "file"
        BY <2>7, <4>1, <4>2, ContentType
      <4>4. /\ k \in DOMAIN placements
            /\ placements[k].start \in Nat /\ placements[k].blocks \in Nat
            /\ EndOf(placements[k]) = placements[k].start + placements[k].blocks
            /\ first = placements[k].start * PerBlock
            /\ n <= placements[k].blocks * PerBlock
        BY <2>6, <4>3
      <4>5. EndOf(placements[k]) * PerBlock
              = placements[k].start * PerBlock + placements[k].blocks * PerBlock
        BY ONLY <2>3, <4>4
      <4>6. /\ placements[k].start * PerBlock \in Nat
            /\ placements[k].blocks * PerBlock \in Nat
        BY ONLY <2>3, <4>4
      <4>7. s - 1 >= first /\ s - 1 <= first + n - 1
        BY <2>4, <3>1, <3>2
      <4>8. s - 1 < EndOf(placements[k]) * PerBlock
        BY ONLY <2>4, <3>1, <4>4, <4>5, <4>6, <4>7
      <4> QED
        BY <4>3, <4>4, <4>7, <4>8
    <3>3. CASE s - 1 \notin first .. first + n - 1 /\ s <= Len(disk)
      <4>1. disk'[s] = disk[s]
        BY <2>5, <3>3 DEF Wrote
      <4>2. s \in DOMAIN disk
        BY <1>1, <3>1, <3>3
      <4> QED
        BY <1>0, <2>7, <4>1, <4>2 DEF InsideInv
    <3>4. CASE s - 1 \notin first .. first + n - 1 /\ ~(s <= Len(disk))
      <4>1. disk'[s] = Zero
        BY <2>5, <3>4 DEF Wrote
      <4>2. Zero.of = "zero"
        BY DEF Zero, Content
      <4> QED
        BY <2>7, <4>1, <4>2
    <3> QED
      BY <3>2, <3>3, <3>4
  <2>8. disk' \in Seq(Contents)
    BY <2>5 DEF Wrote
  <2>9. InsideInv'
    BY <2>2, <2>7 DEF InsideInv, EndOf
  <2> QED
    BY <2>8, <2>9
<1> QED
  BY <1>2, <1>3, <1>4, OutputStep
LEMMA WriteTypesStep ==
  WriteInv /\ [WriteStep \/ FileChanges \/ WriteOver]_volumeVars => WriteTypes'
<1> SUFFICES ASSUME WriteInv, [WriteStep \/ FileChanges \/ WriteOver]_volumeVars
             PROVE  WriteTypes'
  OBVIOUS
<1>0. PlanInv /\ StagesInv /\ WriteTypes /\ PlanInv'
  BY WritePlanStep DEF WriteInv
<1>1. disk' \in Seq(Contents)
  BY OutputKept
<1>2. files' = files /\ files \in Seq(Nat) /\ Len(files) \in Nat
  BY <1>0, FilesKept DEF PlanInv, PlanTypeOK
<1>3. wpc' \in Early \cup {"plan", "failed"} \cup Planned
  BY <1>0 DEF WriteTypes, WriteStep, FileChanges, WriteOver, volumeVars, writeVars, TagEntries,
       Pack, PlanVolume, Repack, PadTrees, Extend, WritePrimary, WriteBitmap, WriteCatalog,
       WriteExtents, WriteAttributes, WritePart, SkipFile, OpenFile, CopyFile,
       ProbeFile, FilesStreamed, WriteAlternate, inputs, Planned, Early
<1>4. entries' \in [DOMAIN files -> FileEntries]
  <2>1. CASE TagEntries /\ TimeGiven
    BY <1>0, <2>1, TagExtents
  <2>2. CASE TagEntries /\ ~TimeGiven
    BY <1>0, <2>2 DEF TagEntries, WriteTypes
  <2>3. CASE PlanVolume
    BY <1>0, <2>3, EntryExtents
  <2>4. CASE ~TagEntries /\ ~PlanVolume
    <3>1. entries' = entries
      BY <2>4 DEF WriteStep, FileChanges, WriteOver, volumeVars, writeVars, Pack, Repack,
           PadTrees, Extend, WritePrimary, WriteBitmap, WriteCatalog, WriteExtents,
           WriteAttributes, WritePart, SkipFile, OpenFile, CopyFile,
         ProbeFile, FilesStreamed, WriteAlternate,
           inputs
    <3> QED
      BY <1>0, <3>1 DEF WriteTypes
  <2> QED
    BY <2>1, <2>2, <2>3, <2>4
<1>5. now' \in [DOMAIN files -> Nat]
  <2>1. CASE FileChanges
    BY <1>0, <2>1, PlanAssumption DEF FileChanges, WriteTypes
  <2>2. CASE ~FileChanges
    <3>1. now' = now
      BY <2>2 DEF WriteStep, WriteOver, volumeVars, writeVars, TagEntries, Pack, PlanVolume,
           Repack, PadTrees, Extend, WritePrimary, WriteBitmap, WriteCatalog, WriteExtents,
           WriteAttributes, WritePart, SkipFile, OpenFile, CopyFile,
         ProbeFile, FilesStreamed, WriteAlternate,
           inputs
    <3> QED
      BY <1>0, <3>1 DEF WriteTypes
  <2> QED
    BY <2>1, <2>2
<1>6. streamed' \in Seq(SUBSET Nat) /\ Len(streamed') <= Len(files)
  <2>0. /\ streamed \in Seq(SUBSET Nat) /\ Len(streamed) <= Len(files)
        /\ Len(streamed) \in Nat /\ now \in [DOMAIN files -> Nat]
    BY <1>0 DEF WriteTypes
  <2>1. CASE streamed' = streamed
    BY <2>0, <2>1
  <2>2. CASE SkipFile \/ OpenFile
    <3>1. SUFFICES ASSUME streamed' # streamed PROVE streamed' \in Seq(SUBSET Nat)
                                                    /\ Len(streamed') <= Len(files)
      BY <2>1
    <3>2. /\ Len(streamed) + 1 <= Len(files)
          /\ streamed' = Append(streamed, {now[Len(streamed) + 1]})
      BY <2>2, <3>1 DEF SkipFile, OpenFile
    <3>3. {now[Len(streamed) + 1]} \in SUBSET Nat
      BY <2>0, <3>2, TheFile
    <3> QED
      BY <2>0, <3>2, <3>3
  <2>3. CASE FileChanges
    <3>1. SUFFICES ASSUME streamed' # streamed PROVE streamed' \in Seq(SUBSET Nat)
                                                    /\ Len(streamed') <= Len(files)
      BY <2>1
    <3>2. PICK k \in DOMAIN files, size \in FileSizes :
             streamed' = IF wpc \in {"copy", "probe"} /\ k = Len(streamed)
                         THEN [streamed EXCEPT ![k] = @ \cup {size}] ELSE streamed
      BY <2>3 DEF FileChanges
    <3>3. streamed' = [streamed EXCEPT ![k] = streamed[k] \cup {size}] /\ k = Len(streamed)
      BY <3>1, <3>2
    <3>4. size \in Nat
      BY PlanAssumption
    <3>5. k \in DOMAIN streamed /\ streamed[k] \in SUBSET Nat
      BY <1>2, <2>0, <3>3
    <3>6. streamed[k] \cup {size} \in SUBSET Nat
      BY <3>4, <3>5
    <3> QED
      BY <2>0, <3>3, <3>5, <3>6
  <2>4. streamed' = streamed \/ SkipFile \/ OpenFile \/ FileChanges
    BY DEF WriteStep, FileChanges, WriteOver, volumeVars, writeVars, TagEntries, Pack,
         PlanVolume, Repack, PadTrees, Extend, WritePrimary, WriteBitmap, WriteCatalog,
         WriteExtents, WriteAttributes, WritePart, CopyFile, ProbeFile, FilesStreamed,
         WriteAlternate, inputs
  <2> QED
    BY <2>1, <2>2, <2>3, <2>4
<1>7. copied' \in Nat
  <2>1. CASE copied' = copied
    BY <1>0, <2>1 DEF WriteTypes
  <2>2. CASE OpenFile
    BY <1>0, <2>2 DEF OpenFile, WriteTypes
  <2>3. CASE CopyFile
    <3>1. /\ now[Len(streamed)] \in Nat /\ files[Len(streamed)] \in Nat
          /\ copied \in Nat
      BY <1>0, <2>3, TheFile, PlacedFile DEF CopyFile, Open, WriteTypes
    <3>2. Reached(files[Len(streamed)], now[Len(streamed)]) \in Nat
      BY <3>1, ReachedType
    <3> QED
      BY <2>3, <3>1, <3>2 DEF CopyFile
  <2>4. copied' = copied \/ OpenFile \/ CopyFile
    BY DEF WriteStep, FileChanges, WriteOver, volumeVars, writeVars, TagEntries, Pack,
         PlanVolume, Repack, PadTrees, Extend, WritePrimary, WriteBitmap, WriteCatalog,
         WriteExtents, WriteAttributes, WritePart, SkipFile, ProbeFile, FilesStreamed,
         WriteAlternate, inputs
  <2> QED
    BY <2>1, <2>2, <2>3, <2>4
<1> QED
  BY <1>1, <1>2, <1>3, <1>4, <1>5, <1>6, <1>7 DEF WriteTypes

LEMMA StagesStep ==
  WriteInv /\ [WriteStep \/ FileChanges \/ WriteOver]_volumeVars => StagesInv'
<1> SUFFICES ASSUME WriteInv, [WriteStep \/ FileChanges \/ WriteOver]_volumeVars
             PROVE  StagesInv'
  OBVIOUS
<1>0. PlanInv /\ StagesInv /\ WriteTypes /\ PlanInv'
  BY WritePlanStep DEF WriteInv
<1>1. CASE TagEntries
  <2>1. pc' = pc /\ pc = "blockSize" /\ wpc' \in {"pack", "failed"} /\ disk' = <<>>
    BY <1>0, <1>1 DEF TagEntries, StagesInv, Early
  <2>2. blockSize' \in BlockSizes \cup {DefaultBlockSize}
    BY <1>0, <1>1, <2>1 DEF TagEntries, StagesInv
  <2> QED
    BY <2>1, <2>2 DEF StagesInv, Planned
<1>2. CASE PlanVolume
  <2>1. wpc = "plan" /\ disk' = <<>> /\ PlanStep
    BY <1>0, <1>2 DEF PlanVolume, StagesInv
  <2>2. /\ wpc' \in {"failed", "repack", "plan"}
        /\ wpc' = "repack" => pc' = "planned"
    BY <1>2, <2>1 DEF PlanVolume
  <2>3. pc' # "blockSize"
    BY <2>1 DEF PlanStep, CheckBlockSize, SizeTrees, SizeFile, FilesSized, GrowBitmap, Settle,
         PlaceFile, MarkBitmap
  <2>4. pc' \notin {"blockSize", "error"} => blockSize' % Sector = 0
    <3>1. CASE CheckBlockSize
      <4>1. SUFFICES ASSUME pc' # "error" PROVE blockSize' % Sector = 0
        OBVIOUS
      <4>2. /\ blockSize' >= MinBlockSize /\ IsPowerOfTwo(blockSize') /\ blockSize' \in Nat
            /\ blockSize' \in BlockSizes \cup {DefaultBlockSize}
        <5>1. blockSize \in Nat /\ DefaultBlockSize \in Nat /\ MinBlockSize \in Nat
          BY <1>0, PlanAssumption DEF PlanInv, PlanTypeOK
        <5> QED
          BY <1>0, <3>1, <4>1, <5>1 DEF CheckBlockSize, StagesInv
      <4> QED
        BY <4>2, WriteAssumption
    <3>2. CASE ~CheckBlockSize
      <4>1. blockSize' = blockSize /\ pc \notin {"blockSize", "error"}
        BY <2>1, <3>2 DEF PlanStep, SizeTrees, SizeFile, FilesSized, GrowBitmap, Settle,
             PlaceFile, MarkBitmap
      <4> QED
        BY <1>0, <4>1 DEF StagesInv
    <3> QED
      BY <3>1, <3>2
  <2> QED
    BY <2>1, <2>2, <2>3, <2>4 DEF StagesInv, Early, Planned
<1>3. CASE planVars' = planVars /\ ~TagEntries /\ ~PlanVolume
  <2>1. pc' = pc /\ blockSize' = blockSize
    BY <1>3, GeometryStays
  <2>2. /\ wpc' \in Early => wpc \in Early
        /\ wpc' \in Planned => wpc \in Planned
        /\ wpc' \in Early \cup {"plan", "repack", "pad", "extend"} =>
              wpc \in Early \cup {"plan", "repack", "pad", "extend"} /\ disk' = disk
    BY <1>3 DEF WriteStep, FileChanges, WriteOver, volumeVars, writeVars, Pack, Repack,
         PadTrees, Extend, WritePrimary, WriteBitmap, WriteCatalog, WriteExtents,
         WriteAttributes, WritePart, SkipFile, OpenFile, CopyFile,
         ProbeFile, FilesStreamed, WriteAlternate,
         inputs, Planned, Early
  <2>3. disk' # <<>> => pc = "planned"
    <3>1. disk' = disk \/ pc = "planned"
      BY OutputStep
    <3> QED
      BY <1>0, <3>1 DEF StagesInv
  <2> QED
    BY <1>0, <2>1, <2>2, <2>3 DEF StagesInv
<1> QED
  BY <1>1, <1>2, <1>3, PlanKept

LEMMA EntriesStep ==
  WriteInv /\ [WriteStep \/ FileChanges \/ WriteOver]_volumeVars => EntriesInv'
<1> SUFFICES ASSUME WriteInv, [WriteStep \/ FileChanges \/ WriteOver]_volumeVars
             PROVE  EntriesInv'
  OBVIOUS
<1>0. PlanInv /\ StagesInv /\ WriteTypes /\ EntriesInv /\ PlanInv'
  BY WritePlanStep DEF WriteInv
<1>1. files' = files
  BY FilesKept
<1>2. CASE TagEntries
  <2>1. pc = "blockSize" /\ placements' = placements /\ wpc = "tag"
        /\ wpc' \in {"pack", "failed"} /\ withAttrs' = withAttrs
        /\ (wpc' = "pack" => TimeGiven)
    BY <1>0, <1>2 DEF TagEntries, StagesInv, Early
  <2>2. placements = <<>>
    BY <1>0, <2>1 DEF PlanInv, PlaceInv, Settled
  <2>3. wpc' = "pack" =>
           \A k \in DOMAIN files : entries'[k].hasAttributes <=> k \in withAttrs
    BY <1>0, <1>2, <2>1, TagExtents DEF EntriesInv
  <2> QED
    BY <1>1, <2>1, <2>2, <2>3 DEF EntriesInv, Planned
<1>3. CASE PlanVolume
  <2>1. wpc = "plan" /\ wpc' \in {"failed", "repack", "plan"} /\ withAttrs' = withAttrs
    BY <1>3 DEF PlanVolume
  <2>2. \A k \in DOMAIN files :
           /\ entries'[k].hasAttributes = entries[k].hasAttributes
           /\ k \in DOMAIN placements' => entries'[k].extent = placements'[k]
    BY <1>0, <1>3, EntryExtents
  <2> QED
    BY <1>0, <1>1, <2>1, <2>2 DEF EntriesInv, Planned
<1>4. CASE planVars' = planVars /\ ~TagEntries /\ ~PlanVolume
  <2>1. placements' = placements
    BY <1>4, GeometryStays
  <2>2. entries' = entries /\ withAttrs' = withAttrs
    BY <1>4 DEF WriteStep, FileChanges, WriteOver, volumeVars, writeVars, Pack, Repack,
         PadTrees, Extend, WritePrimary, WriteBitmap, WriteCatalog, WriteExtents,
         WriteAttributes, WritePart, SkipFile, OpenFile, CopyFile,
         ProbeFile, FilesStreamed, WriteAlternate,
         inputs
  <2>3. /\ wpc' = "tag" => wpc = "tag"
        /\ wpc' \notin {"tag", "failed"} => wpc \notin {"tag", "failed"}
    BY <1>4 DEF WriteStep, FileChanges, WriteOver, volumeVars, writeVars, Pack, Repack,
         PadTrees, Extend, WritePrimary, WriteBitmap, WriteCatalog, WriteExtents,
         WriteAttributes, WritePart, SkipFile, OpenFile, CopyFile,
         ProbeFile, FilesStreamed, WriteAlternate,
         inputs
  <2>4. wpc' \in Planned \ {"repack"} =>
           packed' = entries \/ (packed' = packed /\ wpc \in Planned \ {"repack"})
    BY <1>4 DEF WriteStep, FileChanges, WriteOver, volumeVars, writeVars, Pack, Repack,
         Repacked, PadTrees, Extend, WritePrimary, WriteBitmap, WriteCatalog, WriteExtents,
         WriteAttributes, WritePart, SkipFile, OpenFile, CopyFile,
         ProbeFile, FilesStreamed, WriteAlternate,
         inputs, Planned
  <2>5. wpc' \in {"extents", "attributes", "stream", "copy", "probe", "alternate", "done"} =>
           \/ wpc = "catalog" /\ catalogOnDisk' = packed
           \/ /\ catalogOnDisk' = catalogOnDisk
              /\ wpc \in {"extents", "attributes", "stream", "copy", "probe", "alternate", "done"}
    BY <1>4 DEF WriteStep, FileChanges, WriteOver, volumeVars, writeVars, Pack, Repack,
         PadTrees, Extend, WritePrimary, WriteBitmap, WriteCatalog, WriteExtents,
         WriteAttributes, WritePart, SkipFile, OpenFile, CopyFile,
         ProbeFile, FilesStreamed, WriteAlternate,
         inputs
  <2>6. wpc = "catalog" => packed = entries
    BY <1>0 DEF EntriesInv, Planned
  <2> QED
    BY <1>0, <1>1, <2>1, <2>2, <2>3, <2>4, <2>5, <2>6 DEF EntriesInv
<1> QED
  BY <1>2, <1>3, <1>4, PlanKept

LEMMA StreamedStep ==
  WriteInv /\ [WriteStep \/ FileChanges \/ WriteOver]_volumeVars => StreamedInv'
<1> SUFFICES ASSUME WriteInv, [WriteStep \/ FileChanges \/ WriteOver]_volumeVars
             PROVE  StreamedInv'
  OBVIOUS
<1>0. PlanInv /\ StagesInv /\ WriteTypes /\ StreamedInv
  BY DEF WriteInv
<1>1. /\ files' = files /\ Len(streamed) \in Nat /\ streamed \in Seq(SUBSET Nat)
      /\ now \in [DOMAIN files -> Nat] /\ files \in Seq(Nat)
  BY <1>0, FilesKept DEF WriteTypes, PlanInv, PlanTypeOK
<1> DEFINE k == Len(streamed)
           n == Len(streamed) + 1
<1>2. CASE SkipFile \/ OpenFile
  <2>1. CASE streamed' = streamed
    <3>1. wpc = "stream" /\ wpc' = "failed"
      <4>1. Append(streamed, {now[n]}) # streamed
        BY <1>1
      <4> QED
        BY <1>2, <2>1, <4>1 DEF SkipFile, OpenFile
    <3> QED
      BY <3>1 DEF StreamedInv, Open
  <2>2. CASE streamed' # streamed
    <3>1. /\ wpc = "stream" /\ n <= Len(files) /\ now' = now
          /\ streamed' = Append(streamed, {now[n]})
          /\ (wpc' = "stream" /\ placements[n].blocks = 0) \/ wpc' = "copy"
      BY <1>2, <2>2 DEF SkipFile, OpenFile, inputs
    <3>2. n \in DOMAIN files /\ pc = "planned"
      BY <3>1, TheFile, PlacedFile
    <3>3. /\ Len(streamed') = n /\ streamed'[n] = {now[n]} /\ n > 0
          /\ \A j \in 1 .. k : streamed'[j] = streamed[j]
      BY <1>1, <3>1
    <3>4. \A j \in 1 .. k : files[j] > 0 => LongEnough(j) /\ ShortEnough(j)
      BY <1>0, <3>1 DEF StreamedInv, Ended, Open
    <3>5. \A j \in 1 .. k : files'[j] > 0 => LongEnough(j)' /\ ShortEnough(j)'
      BY <1>1, <3>3, <3>4 DEF LongEnough, ShortEnough
    <3>6. CASE wpc' = "copy"
      <4>1. Ended' = k
        BY <1>1, <3>3, <3>6 DEF Ended, Open
      <4> QED
        BY <3>1, <3>3, <3>5, <3>6, <4>1 DEF StreamedInv, Open
    <3>7. CASE wpc' = "stream" /\ placements[n].blocks = 0
      <4>1. files[n] = 0
        BY <1>0, <3>2, <3>7, FileSlots
      <4>2. Ended' = n
        BY <3>3, <3>7 DEF Ended, Open
      <4>3. \A j \in 1 .. n : j = n \/ j \in 1 .. k
        BY <1>1
      <4> QED
        BY <1>1, <3>5, <3>7, <4>1, <4>2, <4>3 DEF StreamedInv, Open
    <3> QED
      BY <3>1, <3>6, <3>7
  <2> QED
    BY <2>1, <2>2
<1>3. CASE CopyFile
  <2>1. /\ wpc = "copy" /\ streamed' = streamed /\ now' = now
        /\ wpc' \in {"copy", "probe", "failed"}
        /\ wpc' = "probe" => copied' = files[k] /\ Reached(files[k], now[k]) = files[k]
    BY <1>3 DEF CopyFile, inputs
  <2>2. /\ k \in DOMAIN files /\ now[k] \in Nat /\ files[k] \in Nat /\ copied \in Nat
    BY <1>0, <2>1, TheFile, PlacedFile DEF Open, WriteTypes
  <2>3. k > 0 /\ now[k] \in streamed[k]
    BY <1>0, <2>1 DEF StreamedInv, Open
  <2>4. wpc' = "probe" => LongEnough(k)'
    <3>1. SUFFICES ASSUME wpc' = "probe" PROVE LongEnough(k)'
      OBVIOUS
    <3>2. files[k] <= now[k]
      BY <2>1, <2>2, <3>1, ReachedType
    <3> QED
      BY <1>1, <2>1, <2>2, <2>3, <3>2 DEF LongEnough
  <2>5. CASE wpc' = "failed"
    BY <2>5 DEF StreamedInv, Open
  <2>6. CASE wpc' # "failed"
    <3>1. wpc' \in {"copy", "probe"} /\ Ended' = Ended /\ Ended = k - 1
      BY <2>1, <2>6 DEF Ended, Open
    <3>2. \A j \in 1 .. Ended' : files'[j] > 0 => LongEnough(j)' /\ ShortEnough(j)'
      BY <1>0, <1>1, <2>1, <3>1 DEF StreamedInv, LongEnough, ShortEnough
    <3> QED
      BY <1>1, <2>1, <2>3, <2>4, <3>1, <3>2 DEF StreamedInv, Open
  <2> QED
    BY <2>5, <2>6
<1>4. CASE ProbeFile
  <2>1. /\ wpc = "probe" /\ streamed' = streamed
        /\ (wpc' = "stream" /\ ~More(now[k])) \/ wpc' = "failed"
    BY <1>4 DEF ProbeFile
  <2>2. CASE wpc' = "failed"
    BY <2>2 DEF StreamedInv, Open
  <2>3. CASE wpc' = "stream" /\ ~More(now[k])
    <3>1. /\ k \in DOMAIN files /\ now[k] \in Nat /\ files[k] \in Nat
      BY <2>1, TheFile, PlacedFile DEF Open
    <3>2. /\ k > 0 /\ now[k] \in streamed[k] /\ copied = files[k] /\ LongEnough(k)
      BY <1>0, <2>1 DEF StreamedInv, Open
    <3>3. ShortEnough(k)
      BY <2>3, <3>1, <3>2 DEF ShortEnough, More
    <3>4. Ended = k - 1 /\ Ended' = k
      BY <2>1, <2>3 DEF Ended, Open
    <3>5. \A j \in 1 .. k : j = k \/ j \in 1 .. k - 1
      BY <1>1
    <3>6. \A j \in 1 .. k : files[j] > 0 => LongEnough(j) /\ ShortEnough(j)
      BY <1>0, <2>1, <3>2, <3>3, <3>4, <3>5 DEF StreamedInv
    <3>7. \A j \in 1 .. Ended' : files'[j] > 0 => LongEnough(j)' /\ ShortEnough(j)'
      BY <1>1, <2>1, <3>4, <3>6 DEF LongEnough, ShortEnough
    <3> QED
      BY <2>3, <3>7 DEF StreamedInv, Open
  <2> QED
    BY <2>1, <2>2, <2>3
<1>5. CASE FileChanges
  <2>1. PICK f \in DOMAIN files, size \in FileSizes :
           /\ now' = [now EXCEPT ![f] = size]
           /\ streamed' = IF wpc \in {"copy", "probe"} /\ f = Len(streamed)
                          THEN [streamed EXCEPT ![f] = @ \cup {size}] ELSE streamed
    BY <1>5 DEF FileChanges
  <2>2. wpc' = wpc /\ copied' = copied /\ size \in Nat
    BY <1>5, PlanAssumption DEF FileChanges
  <2>3. PICK c \in Nat : c = Len(streamed)
    BY <1>1
  <2>4. /\ Len(streamed') = c
        /\ \A j \in 1 .. c : streamed[j] \subseteq streamed'[j]
        /\ streamed = <<>> => streamed' = <<>>
    <3>1. CASE ~(Open /\ f = c)
      <4>1. streamed' = streamed
        BY <2>1, <2>3, <3>1 DEF Open
      <4> QED
        BY <2>3, <4>1
    <3>2. CASE Open /\ f = c
      <4>1. streamed' = [streamed EXCEPT ![c] = streamed[c] \cup {size}] /\ c \in 1 .. c
        BY <1>0, <1>1, <2>1, <2>3, <3>2 DEF Open, StreamedInv
      <4> QED
        BY <1>1, <2>3, <4>1
    <3> QED
      BY <3>1, <3>2
  <2>5. ASSUME NEW j \in 1 .. c
        PROVE  (LongEnough(j) => LongEnough(j)') /\ (ShortEnough(j) => ShortEnough(j)')
    BY <1>1, <2>4 DEF LongEnough, ShortEnough
  <2>6. Open => c > 0 /\ now'[c] \in streamed'[c]
    <3> SUFFICES ASSUME Open PROVE c > 0 /\ now'[c] \in streamed'[c]
      OBVIOUS
    <3>1. /\ c > 0 /\ now[c] \in streamed[c] /\ c \in DOMAIN files /\ c \in 1 .. c
          /\ DOMAIN streamed = 1 .. c
      BY <1>0, <1>1, <2>3, TheFile DEF StreamedInv
    <3>2. CASE f = c
      <4>1. /\ streamed' = [streamed EXCEPT ![c] = streamed[c] \cup {size}]
            /\ now'[c] = size
        BY <1>1, <2>1, <2>3, <3>1, <3>2 DEF Open
      <4> QED
        BY <1>1, <3>1, <4>1
    <3>3. CASE f # c
      <4>1. now'[c] = now[c] /\ streamed' = streamed
        BY <1>1, <2>1, <2>3, <3>1, <3>3
      <4> QED
        BY <3>1, <4>1
    <3> QED
      BY <3>2, <3>3
  <2>7. /\ (Open' <=> Open) /\ Ended' = Ended
        /\ (Open => Ended = c - 1) /\ (~Open => Ended = c)
    BY <2>2, <2>3, <2>4 DEF Open, Ended
  <2>8. wpc' # "failed" =>
           \A j \in 1 .. Ended' : files'[j] > 0 => LongEnough(j)' /\ ShortEnough(j)'
    <3> SUFFICES ASSUME wpc' # "failed", NEW j \in 1 .. Ended', files'[j] > 0
                 PROVE  LongEnough(j)' /\ ShortEnough(j)'
      OBVIOUS
    <3>1. j \in 1 .. Ended /\ j \in 1 .. c
      BY <2>7
    <3>2. LongEnough(j) /\ ShortEnough(j)
      BY <1>0, <1>1, <2>2, <3>1 DEF StreamedInv
    <3> QED
      BY <2>5, <3>1, <3>2
  <2>9. wpc' = "probe" => copied' = files'[c] /\ LongEnough(c)'
    <3> SUFFICES ASSUME wpc' = "probe" PROVE copied' = files'[c] /\ LongEnough(c)'
      OBVIOUS
    <3>1. c \in 1 .. c /\ copied = files[c] /\ LongEnough(c)
      BY <1>0, <2>2, <2>3 DEF StreamedInv, Open
    <3> QED
      BY <1>1, <2>2, <2>5, <3>1
  <2>10. wpc' = "probe" => (copied = files[Len(streamed)] /\ LongEnough(Len(streamed)))'
    BY <2>4, <2>9 DEF LongEnough
  <2>11. wpc' \in {"alternate", "done"} => Len(streamed') = Len(files')
    BY <1>0, <1>1, <2>2, <2>3, <2>4 DEF StreamedInv
  <2>12. wpc' \notin {"stream", "copy", "probe", "alternate", "done", "failed"} =>
            streamed' = <<>>
    BY <1>0, <2>2, <2>4 DEF StreamedInv
  <2>13. Open' => Len(streamed') > 0 /\ now'[Len(streamed')] \in streamed'[Len(streamed')]
    BY <2>4, <2>6, <2>7
  <2> QED
    BY <2>8, <2>10, <2>11, <2>12, <2>13 DEF StreamedInv
<1>6. CASE streamed' = streamed /\ ~CopyFile /\ ~ProbeFile /\ ~FileChanges /\ ~OpenFile
  <2>1. /\ wpc' \notin {"stream", "copy", "probe", "alternate", "done", "failed"} =>
              wpc \notin {"stream", "copy", "probe", "alternate", "done", "failed"}
        /\ wpc' # "failed" => wpc # "failed"
        /\ wpc' \in {"copy", "probe"} \/ wpc \in {"copy", "probe"} =>
              wpc' = wpc /\ now' = now /\ copied' = copied
        /\ wpc' \in {"alternate", "done"} =>
              wpc \in {"alternate", "done"} \/ Len(streamed) = Len(files)
    BY <1>6 DEF WriteStep, WriteOver, volumeVars, writeVars, TagEntries, Pack,
         PlanVolume, Repack, PadTrees, Extend, WritePrimary, WriteBitmap, WriteCatalog,
         WriteExtents, WriteAttributes, WritePart, SkipFile, FilesStreamed,
         WriteAlternate, inputs
  <2>2. Ended' = Ended /\ (Open' <=> Open)
    BY <1>6, <2>1 DEF Ended, Open
  <2>3. \A j : (LongEnough(j)' <=> LongEnough(j)) /\ (ShortEnough(j)' <=> ShortEnough(j))
    BY <1>1, <1>6 DEF LongEnough, ShortEnough
  <2> QED
    BY <1>0, <1>1, <1>6, <2>1, <2>2, <2>3 DEF StreamedInv, Open
<1>7. \/ SkipFile \/ OpenFile \/ CopyFile \/ ProbeFile \/ FileChanges
      \/ streamed' = streamed
  BY DEF WriteStep, WriteOver, volumeVars, writeVars, TagEntries, Pack,
       PlanVolume, Repack, PadTrees, Extend, WritePrimary, WriteBitmap, WriteCatalog,
       WriteExtents, WriteAttributes, WritePart, FilesStreamed, WriteAlternate, inputs
<1> QED
  BY <1>2, <1>3, <1>4, <1>5, <1>6, <1>7

\* The write of a part, as the code computes it.
PutAt(p, of, k, byte, bytes) ==
    /\ byte \in Nat /\ bytes \in Nat
    /\ p.of = of /\ p.k = k /\ of \in Kinds /\ k \in Nat
    /\ byte \div Sector = p.first /\ Sectors(bytes) = p.n

\* A run of blocks is a run of sectors.
LEMMA BlocksAsSectors ==
  ASSUME PlanInv, StagesInv, pc = "planned", NEW b \in Nat, NEW n \in Nat
  PROVE  /\ b * blockSize \in Nat /\ n * blockSize \in Nat
         /\ (b * blockSize) \div Sector = b * PerBlock
         /\ Sectors(n * blockSize) = n * PerBlock
<1> DEFINE P == PerBlock
<1>0. Sector \in Nat \ {0} /\ P \in Nat \ {0} /\ blockSize = P * Sector
  BY WholeSectors
<1> HIDE DEF P
<1>1. b * blockSize = (b * P) * Sector /\ n * blockSize = (n * P) * Sector
      /\ b * P \in Nat /\ n * P \in Nat /\ blockSize \in Nat
  BY <1>0
<1>2. (b * blockSize) \div Sector = b * P
  BY <1>0, <1>1, Exact
<1>3. DivRoundUp(n * blockSize, Sector) = n * P
  BY <1>0, <1>1, Exact
<1>4. b * blockSize \in Nat /\ n * blockSize \in Nat
  BY <1>1
<1> QED
  BY <1>2, <1>3, <1>4 DEF P, Sectors

\* The offsets and lengths of the writes are those of the parts.
LEMMA FixedWrites ==
  ASSUME PlanInv, StagesInv, pc = "planned", HeadersFit
  PROVE  /\ PutAt(Fixed[1], "header", 0, HeaderAt, Sector)
         /\ PutAt(Fixed[2], "bitmap", 0, ByteOffset(AllocStart), bitmapBytes)
         /\ PutAt(Fixed[3], "catalog", 0, ByteOffset(CatalogStart), forks["catalog"] * blockSize)
         /\ PutAt(Fixed[4], "extents", 0, ByteOffset(ExtentsStart), forks["extents"] * blockSize)
         /\ PutAt(Fixed[5], "attributes", 0, ByteOffset(AttributesStart),
                  forks["attributes"] * blockSize)
         /\ PutAt(Fixed[6], "header", 0, VolumeSize - HeaderAt, Sector)
<1> DEFINE H == HeaderAt \div Sector
           P == PerBlock
<1>0. /\ Sector \in Nat \ {0} /\ P \in Nat \ {0} /\ blockSize = P * Sector
      /\ H \in Nat \ {0} /\ HeaderAt = H * Sector /\ HeaderAt \in Nat
  BY WholeSectors, WriteAssumption
<1>1. /\ \A i \in 1 .. 6 : Layout[i].start \in Nat /\ Layout[i].blocks \in Nat
      /\ total \in Nat
  BY Slots
<1>2. /\ Layout[2].start = AllocStart
      /\ Layout[3].start = CatalogStart /\ Layout[3].blocks = forks["catalog"]
      /\ Layout[4].start = ExtentsStart /\ Layout[4].blocks = forks["extents"]
      /\ Layout[5].start = AttributesStart /\ Layout[5].blocks = forks["attributes"]
  BY DEF Layout, Extent
<1>3. {"header", "bitmap", "catalog", "extents", "attributes"} \subseteq Kinds /\ 0 \in Nat
  BY DEF Kinds
<1>4. Sectors(Sector) = 1
  <2>1. 1 * Sector = Sector
    BY <1>0
  <2>2. DivRoundUp(1 * Sector, Sector) = 1
    BY <1>0, Exact
  <2> QED
    BY <2>1, <2>2 DEF Sectors
<1>5. PutAt(Fixed[1], "header", 0, HeaderAt, Sector)
  <2>1. Fixed[1] = Place("header", 0, H, 1)
    BY DEF Fixed
  <2> QED
    BY <1>0, <1>3, <1>4, <2>1 DEF PutAt, Place
<1>6. PutAt(Fixed[2], "bitmap", 0, ByteOffset(AllocStart), bitmapBytes)
  <2>1. Fixed[2] = Place("bitmap", 0, AllocStart * P, Sectors(DivRoundUp(total, 8)))
    BY <1>2 DEF Fixed
  <2>2. AllocStart \in Nat
    BY DEF AllocStart
  <2>3. ByteOffset(AllocStart) \in Nat /\ ByteOffset(AllocStart) \div Sector = AllocStart * P
    BY <2>2, BlocksAsSectors DEF ByteOffset
  <2>4. bitmapBytes = DivRoundUp(total, 8) /\ bitmapBytes \in Nat
    BY BitmapWhole DEF PlanInv, PlanTypeOK
  <2> QED
    BY <1>3, <2>1, <2>3, <2>4 DEF PutAt, Place
<1>7. PutAt(Fixed[3], "catalog", 0, ByteOffset(CatalogStart), forks["catalog"] * blockSize)
  <2>1. Fixed[3] = Place("catalog", 0, CatalogStart * P, forks["catalog"] * P)
    BY <1>2 DEF Fixed
  <2>2. CatalogStart \in Nat /\ forks["catalog"] \in Nat
    BY <1>1, <1>2
  <2>3. /\ ByteOffset(CatalogStart) \in Nat
        /\ ByteOffset(CatalogStart) \div Sector = CatalogStart * P
        /\ forks["catalog"] * blockSize \in Nat
        /\ Sectors(forks["catalog"] * blockSize) = forks["catalog"] * P
    BY <2>2, BlocksAsSectors DEF ByteOffset
  <2> QED
    BY <1>3, <2>1, <2>3 DEF PutAt, Place
<1>8. PutAt(Fixed[4], "extents", 0, ByteOffset(ExtentsStart), forks["extents"] * blockSize)
  <2>1. Fixed[4] = Place("extents", 0, ExtentsStart * P, forks["extents"] * P)
    BY <1>2 DEF Fixed
  <2>2. ExtentsStart \in Nat /\ forks["extents"] \in Nat
    BY <1>1, <1>2
  <2>3. /\ ByteOffset(ExtentsStart) \in Nat
        /\ ByteOffset(ExtentsStart) \div Sector = ExtentsStart * P
        /\ forks["extents"] * blockSize \in Nat
        /\ Sectors(forks["extents"] * blockSize) = forks["extents"] * P
    BY <2>2, BlocksAsSectors DEF ByteOffset
  <2> QED
    BY <1>3, <2>1, <2>3 DEF PutAt, Place
<1>9. PutAt(Fixed[5], "attributes", 0, ByteOffset(AttributesStart),
            forks["attributes"] * blockSize)
  <2>1. Fixed[5] = Place("attributes", 0, AttributesStart * P, forks["attributes"] * P)
    BY <1>2 DEF Fixed
  <2>2. AttributesStart \in Nat /\ forks["attributes"] \in Nat
    BY <1>1, <1>2
  <2>3. /\ ByteOffset(AttributesStart) \in Nat
        /\ ByteOffset(AttributesStart) \div Sector = AttributesStart * P
        /\ forks["attributes"] * blockSize \in Nat
        /\ Sectors(forks["attributes"] * blockSize) = forks["attributes"] * P
    BY <2>2, BlocksAsSectors DEF ByteOffset
  <2> QED
    BY <1>3, <2>1, <2>3 DEF PutAt, Place
<1>10. PutAt(Fixed[6], "header", 0, VolumeSize - HeaderAt, Sector)
  <2>1. Fixed[6] = Place("header", 0, total * P - H, 1)
    BY DEF Fixed
  <2>2. Fixed[6].first = total * P - H /\ Fixed[6].first \in Nat
    BY <2>1, FixedInSlot DEF Place
  <2> DEFINE f == total * P - H
  <2>3. VolumeSize - HeaderAt = f * Sector
    <3>1. VolumeSize = (total * P) * Sector
      BY <1>0, <1>1 DEF VolumeSize
    <3>2. total * P \in Nat
      BY <1>0, <1>1
    <3>3. \A a, b, c \in Nat : a * c - b * c = (a - b) * c
      OBVIOUS
    <3> QED
      BY <1>0, <3>1, <3>2, <3>3
  <2> HIDE DEF f
  <2>4. f \in Nat /\ f * Sector \in Nat
    BY <1>0, <2>2 DEF f
  <2>5. (f * Sector) \div Sector = f
    BY <1>0, <2>4, Exact
  <2>6. Fixed[6] = Place("header", 0, f, 1)
    BY <2>1 DEF f
  <2> QED
    BY <1>0, <1>3, <1>4, <2>3, <2>4, <2>5, <2>6 DEF PutAt, Place
<1> QED
  BY <1>5, <1>6, <1>7, <1>8, <1>9, <1>10
\* The next fixed part is written.
LEMMA ShowsFixed ==
  ASSUME PlanInv, StagesInv, pc = "planned", HeadersFit, NEW i \in 1 .. 6, NEW m,
         Shows(disk, i - 1, m), NEW of, NEW byte, NEW bytes,
         PutAt(Fixed[i], of, 0, byte, bytes),
         NEW d, d = After(of, 0, byte, bytes)
  PROVE  Shows(d, i, m)
<1>1. /\ disk \in Seq(Contents) /\ Len(disk) = total * PerBlock /\ OnlyParts(disk)
      /\ \A j \in 1 .. 6 : j <= i - 1 => InPlace(disk, Fixed[j])
      /\ \A k \in DOMAIN files : k <= m => InPlace(disk, FilePart(k))
  BY DEF Shows
<1>2. /\ \A j \in 1 .. 6 : Fixed[j] \in Parts
      /\ \A k \in DOMAIN files : FilePart(k) \in Parts
  BY DEF Parts
<1>3. /\ d \in Seq(Contents) /\ Len(d) = total * PerBlock
      /\ InPlace(d, Fixed[i])
      /\ \A p \in Parts : InPlace(disk, p) => InPlace(d, p)
      /\ OnlyParts(d)
  <2> DEFINE q == Fixed[i]
  <2> HIDE DEF q
  <2>1. /\ q \in Parts /\ q.of = of /\ q.k = 0 /\ q.of \in Kinds /\ q.k \in Nat
        /\ byte \in Nat /\ bytes \in Nat
        /\ byte \div Sector = q.first /\ Sectors(bytes) = q.n /\ q.n \in Nat /\ q.n <= q.n
        /\ d = After(q.of, q.k, byte, bytes)
    BY <1>2, PartsInside DEF PutAt, q
  <2> QED
    BY <1>1, <2>1, PartWritten, Zenon DEF q
<1>4. \A j \in 1 .. 6 : j <= i => InPlace(d, Fixed[j])
  <2>1. \A j \in 1 .. 6 : j <= i => j = i \/ j <= i - 1
    OBVIOUS
  <2> QED
    BY <1>1, <1>2, <1>3, <2>1
<1> QED
  BY <1>1, <1>2, <1>3, <1>4 DEF Shows

\* The next file is written, or the beginning of it.
LEMMA ShowsFile ==
  ASSUME PlanInv, StagesInv, pc = "planned", HeadersFit, NEW n, NEW m \in Nat,
         m + 1 \in DOMAIN files, Shows(disk, n, m),
         NEW bytes \in Nat, bytes <= files[m + 1], NEW d,
         d = After("file", m + 1, ByteOffset(placements[m + 1].start), bytes)
  PROVE  Shows(d, n, m) /\ (bytes = files[m + 1] => Shows(d, n, m + 1))
<1> DEFINE k == m + 1
           q == FilePart(k)
           byte == ByteOffset(placements[k].start)
           w == Sectors(bytes)
<1>1. /\ disk \in Seq(Contents) /\ Len(disk) = total * PerBlock /\ OnlyParts(disk)
      /\ \A j \in 1 .. 6 : j <= n => InPlace(disk, Fixed[j])
      /\ \A j \in DOMAIN files : j <= m => InPlace(disk, FilePart(j))
  BY DEF Shows
<1>2. /\ \A j \in 1 .. 6 : Fixed[j] \in Parts
      /\ \A j \in DOMAIN files : FilePart(j) \in Parts
  BY DEF Parts
<1>3. /\ q.of = "file" /\ q.k = k /\ q.of \in Kinds /\ q.k \in Nat
      /\ q.first = placements[k].start * PerBlock /\ q.n = Sectors(files[k])
  BY DEF FilePart, Place, Kinds
<1>4. /\ placements[k].start \in Nat /\ files[k] \in Nat /\ Sector \in Nat \ {0}
  BY FileSlots, WholeSectors
<1>5. byte \in Nat /\ byte \div Sector = q.first
  BY <1>3, <1>4, BlocksAsSectors DEF ByteOffset
<1>6. w \in Nat /\ w <= q.n /\ (bytes = files[k] => w = q.n)
  <2>1. w = DivRoundUp(bytes, Sector) /\ q.n = DivRoundUp(files[k], Sector)
    BY <1>3 DEF Sectors
  <2>2. DivRoundUp(bytes, Sector) \in Nat
    <3>1. Sector \in Nat /\ Sector > 0
      BY <1>4
    <3> QED
      BY <3>1, RoundUp, Zenon
  <2>3. DivRoundUp(bytes, Sector) <= DivRoundUp(files[k], Sector)
    BY <1>4, RoundUpGrows
  <2> QED
    BY <2>1, <2>2, <2>3, Zenon
<1>7. q \in Parts
  BY <1>2
<1>8. d = After(q.of, q.k, byte, bytes)
  BY <1>3
<1> HIDE DEF q, k, byte, w
<1>9. /\ d \in Seq(Contents) /\ Len(d) = total * PerBlock
      /\ w = q.n => InPlace(d, q)
      /\ \A p \in Parts : InPlace(disk, p) => InPlace(d, p)
      /\ OnlyParts(d)
  <2>1. Sectors(bytes) = w /\ bytes \in Nat
    BY DEF w
  <2>2. q.of \in Kinds /\ q.k \in Nat /\ byte \in Nat /\ byte \div Sector = q.first
        /\ w \in Nat /\ w <= q.n
    BY <1>3, <1>5, <1>6, Zenon
  <2> QED
    BY <1>1, <1>7, <1>8, <2>1, <2>2, PartWritten, Zenon
<1>10. \A j \in DOMAIN files : j <= m => InPlace(d, FilePart(j))
  BY <1>1, <1>2, <1>9
<1>11. \A j \in DOMAIN files : j <= k => j = k \/ j <= m
  <2>1. files \in Seq(Nat)
    BY DEF PlanInv, PlanTypeOK
  <2>2. \A j \in DOMAIN files : j \in Nat
    BY <2>1
  <2> QED
    BY <2>2 DEF k
<1>12. Shows(d, n, m)
  BY <1>1, <1>2, <1>9, <1>10 DEF Shows
<1>13. bytes = files[k] => Shows(d, n, k)
  BY <1>1, <1>2, <1>6, <1>9, <1>10, <1>11 DEF Shows, q
<1> QED
  BY <1>12, <1>13 DEF k

\* A file without bytes has no part to write.
LEMMA ShowsEmpty ==
  ASSUME PlanInv, StagesInv, pc = "planned", HeadersFit, NEW n, NEW m \in Nat,
         m + 1 \in DOMAIN files, placements[m + 1].blocks = 0, Shows(disk, n, m)
  PROVE  Shows(disk, n, m + 1)
<1>1. FilePart(m + 1).n = 0
  BY FileInSlot
<1>2. InPlace(disk, FilePart(m + 1))
  BY <1>1 DEF InPlace
<1>3. \A j \in DOMAIN files : j <= m + 1 => j = m + 1 \/ j <= m
  <2>1. \A j \in DOMAIN files : j \in Nat
    BY DEF PlanInv, PlanTypeOK
  <2> QED
    BY <2>1
<1> QED
  BY <1>2, <1>3 DEF Shows

\* One zero byte at the end makes a volume of zeros.
LEMMA ShowsZeros ==
  ASSUME PlanInv, StagesInv, pc = "planned", HeadersFit, disk = <<>>,
         NEW d, d = After("zero", 0, VolumeSize - 1, 1)
  PROVE  Shows(d, 0, 0)
<1> DEFINE P == PerBlock
           n == total * P
<1>0. /\ Sector \in Nat \ {0} /\ P \in Nat \ {0} /\ blockSize = P * Sector
      /\ total \in Nat /\ n \in Nat
  <2>1. /\ Sector \in Nat \ {0} /\ P \in Nat \ {0} /\ blockSize = P * Sector /\ total \in Nat
    BY WholeSectors, Slots
  <2> QED
    BY <2>1
<1>1. total >= 1 /\ n >= 1
  <2>1. total - 1 \in Nat
    BY Slots
  <2>2. total >= 1
    BY <1>0, <2>1
  <2>3. 1 * P <= total * P
    BY <1>0, <2>2, SectorsOrdered
  <2> QED
    BY <1>0, <2>2, <2>3
<1>2. VolumeSize = n * Sector
  BY <1>0 DEF VolumeSize
<1> HIDE DEF n
<1>3. VolumeSize - 1 \in Nat /\ (VolumeSize - 1) \div Sector = n - 1 /\ Sectors(1) = 1
  <2>1. n * Sector = (n - 1) * Sector + Sector /\ (n - 1) * Sector \in Nat
    BY <1>0, <1>1
  <2>2. VolumeSize - 1 = (n - 1) * Sector + (Sector - 1) /\ VolumeSize - 1 \in Nat
    BY <1>0, <1>2, <2>1
  <2> DEFINE v == VolumeSize - 1
             q == v \div Sector
  <2>3. q \in Nat /\ Sector * q <= v /\ v < Sector * q + Sector
    BY <1>0, <2>2, Quotient
  <2>4. q <= n - 1
    <3>1. n - 1 \in Nat /\ v < Sector * (n - 1) + Sector
      BY <1>0, <1>1, <2>2
    <3> QED
      BY <1>0, <2>2, <3>1, QuotientUnder
  <2> HIDE DEF v, q
  <2>5. n - 1 <= q
    <3>1. SUFFICES ASSUME q < n - 1 PROVE FALSE
      BY <1>0, <2>3
    <3>2. q + 1 \in Nat /\ n - 1 \in Nat /\ q + 1 <= n - 1
      BY <1>0, <1>1, <2>3, <3>1
    <3>3. Sector * (q + 1) <= Sector * (n - 1)
      BY <1>0, <3>2, Grows
    <3>4. Sector * (q + 1) = Sector * q + Sector
      BY <1>0, <2>3
    <3>5. v \in Nat /\ Sector * (n - 1) <= v /\ Sector * (n - 1) \in Nat /\ Sector * q \in Nat
      BY <1>0, <2>1, <2>2, <2>3, <3>2 DEF v
    <3> QED
      BY <1>0, <2>3, <3>3, <3>4, <3>5
  <2>6. Sectors(1) = 1
    <3>1. Sectors(1) \in Nat /\ Sectors(1) <= 1
      <4>1. 1 <= 1 * Sector
        BY <1>0
      <4> QED
        BY <1>0, <4>1, SectorsFit
    <3>2. 1 <= Sector * Sectors(1)
      BY <1>0, RoundUp DEF Sectors
    <3>3. Sectors(1) # 0
      BY <1>0, <3>2
    <3> QED
      BY <3>1, <3>3
  <2> QED
    BY <1>0, <2>2, <2>3, <2>4, <2>5, <2>6 DEF v, q
<1>4. Wrote(d, "zero", 0, n - 1, 1)
  <2>1. disk \in Seq(Contents) /\ "zero" \in Kinds /\ 0 \in Nat /\ 1 \in Nat
        /\ VolumeSize - 1 \in Int /\ n - 1 \in Int
    BY <1>0, <1>3 DEF Kinds
  <2> QED
    BY <1>0, <1>3, <2>1, AfterWrite
<1>5. d \in Seq(Contents) /\ Len(d) = n /\ Len(disk) = 0
  <2>1. Len(disk) = 0
    OBVIOUS
  <2>2. d \in Seq(Contents) /\ Len(d) = IF (n - 1) + 1 > Len(disk) THEN (n - 1) + 1 ELSE Len(disk)
    BY <1>4 DEF Wrote
  <2> QED
    BY <1>0, <1>1, <2>1, <2>2
<1>6. ASSUME NEW s \in DOMAIN d PROVE d[s] = Zero
  <2>1. s \in Nat /\ s >= 1
    BY <1>5
  <2>2. d[s] = IF s - 1 \in (n - 1) .. (n - 1) + 1 - 1 THEN Content("zero", 0, s - 1 - (n - 1))
               ELSE IF s <= Len(disk) THEN disk[s] ELSE Zero
    BY <1>4 DEF Wrote
  <2>3. CASE s - 1 \in (n - 1) .. (n - 1) + 1 - 1
    <3>1. s - 1 - (n - 1) = 0
      BY <1>0, <2>1, <2>3
    <3> QED
      BY <2>2, <2>3, <3>1 DEF Zero
  <2>4. CASE s - 1 \notin (n - 1) .. (n - 1) + 1 - 1
    BY <1>5, <2>1, <2>2, <2>4
  <2> QED
    BY <2>3, <2>4
<1>7. OnlyParts(d)
  BY <1>6 DEF OnlyParts
<1>8. \A j \in 1 .. 6 : ~(j <= 0)
  OBVIOUS
<1>9. \A k \in DOMAIN files : ~(k <= 0)
  BY DEF PlanInv, PlanTypeOK
<1> QED
  BY <1>5, <1>7, <1>8, <1>9 DEF Shows, n
LEMMA DiskStep ==
  WriteInv /\ [WriteStep \/ FileChanges \/ WriteOver]_volumeVars => DiskInv'
<1> SUFFICES ASSUME WriteInv, [WriteStep \/ FileChanges \/ WriteOver]_volumeVars,
                    wpc' \in DOMAIN Written, HeadersFit'
             PROVE  Shows(disk, Written[wpc], Whole)'
  BY DEF DiskInv
<1>0. PlanInv /\ StagesInv /\ WriteTypes /\ StreamedInv /\ DiskInv
  BY DEF WriteInv
<1>1. planVars' = planVars
  <2>1. "pack" \notin DOMAIN Written /\ "failed" \notin DOMAIN Written
        /\ "repack" \notin DOMAIN Written /\ "plan" \notin DOMAIN Written
    BY DEF Written
  <2>2. ~TagEntries /\ ~PlanVolume
    BY <2>1 DEF TagEntries, PlanVolume
  <2> QED
    BY <2>2, PlanKept
<1>2. /\ files' = files /\ total' = total /\ PerBlock' = PerBlock /\ Fixed' = Fixed
      /\ Parts' = Parts /\ HeadersFit /\ \A k : FilePart(k)' = FilePart(k)
  BY <1>1, GeometryStays
<1>3. wpc' # "failed" /\ pc = "planned"
  <2>1. wpc' # "failed" /\ wpc' \in Planned
    BY DEF Written, Planned
  <2>2. pc' = "planned"
    BY <2>1, StagesStep DEF StagesInv
  <2> QED
    BY <1>1, <2>1, <2>2, GeometryStays
<1>4. SUFFICES Shows(disk', Written[wpc'], Whole')
  BY <1>2 DEF Shows, OnlyParts, InPlace, Content, Zero
<1>5. wpc \in DOMAIN Written => Shows(disk, Written[wpc], Whole)
  BY <1>0, <1>2 DEF DiskInv
<1>6. CASE UNCHANGED <<wpc, disk>> /\ Len(streamed') = Len(streamed)
  BY <1>5, <1>6 DEF Whole
<1>7. CASE Extend
  <2>1. wpc' = "primary" /\ disk' = After("zero", 0, VolumeSize - 1, 1)
        /\ streamed' = streamed /\ wpc = "extend"
    BY <1>3, <1>7 DEF Extend, WritePart
  <2>2. disk = <<>> /\ Whole' = 0
    BY <1>0, <2>1 DEF StagesInv, StreamedInv, Whole
  <2>3. Written[wpc'] = 0
    BY <2>1 DEF Written
  <2> QED
    BY <1>0, <1>2, <1>3, <2>1, <2>2, <2>3, ShowsZeros
<1>8. ASSUME NEW at, NEW next, NEW of, NEW byte, NEW bytes, NEW i \in 1 .. 6,
             at \in DOMAIN Written, Written[at] = i - 1, Written[next] = i,
             WritePart(at, next, of, byte, bytes), PutAt(Fixed[i], of, 0, byte, bytes),
             at # "copy", next # "copy"
      PROVE  Shows(disk', Written[wpc'], Whole')
  <2>1. /\ wpc = at /\ wpc' = next /\ disk' = After(of, 0, byte, bytes)
        /\ streamed' = streamed
    BY <1>3, <1>8 DEF WritePart
  <2>2. Shows(disk, i - 1, Whole) /\ Whole' = Whole
    BY <1>5, <1>8, <2>1 DEF Whole
  <2> QED
    BY <1>0, <1>2, <1>3, <1>8, <2>1, <2>2, ShowsFixed
<1>9. /\ \A w \in {"primary", "bitmap", "catalog", "extents", "attributes", "stream",
                   "copy", "probe", "alternate", "done"} : w \in DOMAIN Written
      /\ Written["primary"] = 0 /\ Written["bitmap"] = 1 /\ Written["catalog"] = 2
      /\ Written["extents"] = 3 /\ Written["attributes"] = 4 /\ Written["stream"] = 5
      /\ Written["copy"] = 5 /\ Written["probe"] = 5
      /\ Written["alternate"] = 5 /\ Written["done"] = 6
  BY DEF Written
<1>10. /\ PutAt(Fixed[1], "header", 0, HeaderAt, Sector)
       /\ PutAt(Fixed[2], "bitmap", 0, ByteOffset(AllocStart), bitmapBytes)
       /\ PutAt(Fixed[3], "catalog", 0, ByteOffset(CatalogStart), forks["catalog"] * blockSize)
       /\ PutAt(Fixed[4], "extents", 0, ByteOffset(ExtentsStart), forks["extents"] * blockSize)
       /\ PutAt(Fixed[5], "attributes", 0, ByteOffset(AttributesStart),
                forks["attributes"] * blockSize)
       /\ PutAt(Fixed[6], "header", 0, VolumeSize - HeaderAt, Sector)
  BY <1>0, <1>2, <1>3, FixedWrites
<1>11. /\ 1 - 1 = 0 /\ 2 - 1 = 1 /\ 3 - 1 = 2 /\ 4 - 1 = 3 /\ 5 - 1 = 4 /\ 6 - 1 = 5
       /\ \A i \in {1, 2, 3, 4, 5, 6} : i \in 1 .. 6
  OBVIOUS
<1>12. CASE WritePrimary
  <2>1. WritePart("primary", "bitmap", "header", HeaderAt, Sector)
    BY <1>12 DEF WritePrimary
  <2> QED
    BY <1>8, <1>9, <1>10, <1>11, <2>1
<1>13. CASE WriteBitmap
  <2>1. WritePart("bitmap", "catalog", "bitmap", ByteOffset(AllocStart), bitmapBytes)
    BY <1>3, <1>13 DEF WriteBitmap
  <2> QED
    BY <1>8, <1>9, <1>10, <1>11, <2>1
<1>14. CASE WriteCatalog
  <2>1. WritePart("catalog", "extents", "catalog", ByteOffset(CatalogStart),
                  forks["catalog"] * blockSize)
    BY <1>14 DEF WriteCatalog
  <2> QED
    BY <1>8, <1>9, <1>10, <1>11, <2>1
<1>15. CASE WriteExtents
  <2>1. WritePart("extents", "attributes", "extents", ByteOffset(ExtentsStart),
                  forks["extents"] * blockSize)
    BY <1>15 DEF WriteExtents
  <2> QED
    BY <1>8, <1>9, <1>10, <1>11, <2>1
<1>16. CASE WriteAttributes
  <2>1. WritePart("attributes", "stream", "attributes", ByteOffset(AttributesStart),
                  forks["attributes"] * blockSize)
    BY <1>16 DEF WriteAttributes
  <2> QED
    BY <1>8, <1>9, <1>10, <1>11, <2>1
<1>17. CASE WriteAlternate
  <2>1. WritePart("alternate", "done", "header", VolumeSize - HeaderAt, Sector)
    BY <1>17 DEF WriteAlternate
  <2> QED
    BY <1>8, <1>9, <1>10, <1>11, <2>1
<1>18. CASE FilesStreamed
  <2>1. /\ wpc = "stream" /\ wpc' = "alternate" /\ disk' = disk /\ streamed' = streamed
    BY <1>18 DEF FilesStreamed
  <2> QED
    BY <1>5, <1>9, <2>1 DEF Whole
<1>19. streamed \in Seq(SUBSET Nat) /\ Len(streamed) \in Nat
  BY <1>0 DEF WriteTypes
<1>20. CASE SkipFile \/ OpenFile
  <2> DEFINE m == Len(streamed)
  <2>1. /\ wpc = "stream" /\ disk' = disk /\ m + 1 <= Len(files)
        /\ streamed' = Append(streamed, {now[m + 1]})
        /\ \/ wpc' = "stream" /\ placements[m + 1].blocks = 0
           \/ wpc' = "copy"
    BY <1>3, <1>20 DEF SkipFile, OpenFile
  <2>2. m + 1 \in DOMAIN files /\ Len(streamed') = m + 1
    BY <1>19, <2>1, TheFile
  <2>3. Written[wpc'] = 5 /\ Shows(disk, 5, m)
    BY <1>5, <1>9, <2>1 DEF Whole
  <2>4. CASE wpc' = "copy"
    BY <1>19, <2>1, <2>2, <2>3, <2>4 DEF Whole
  <2>5. CASE wpc' = "stream" /\ placements[m + 1].blocks = 0
    <3>1. Whole' = m + 1
      BY <2>2, <2>5 DEF Whole
    <3> HIDE DEF m
    <3>2. m \in Nat
      BY <1>19 DEF m
    <3>3. Shows(disk, 5, m + 1)
      BY <1>0, <1>2, <1>3, <2>2, <2>3, <2>5, <3>2, ShowsEmpty
    <3> QED
      BY <2>1, <2>3, <3>1, <3>3
  <2> QED
    BY <2>1, <2>4, <2>5
<1>21. CASE CopyFile
  <2> DEFINE k == Len(streamed)
             m == k - 1
             end == Reached(files[k], now[k])
  <2>1. /\ wpc = "copy" /\ streamed' = streamed
        /\ disk' = After("file", k, ByteOffset(placements[k].start), end)
        /\ wpc' = IF end = files[k] THEN "probe" ELSE "copy"
    BY <1>3, <1>21 DEF CopyFile
  <2>2. /\ k \in DOMAIN files /\ now[k] \in Nat /\ files[k] \in Nat /\ copied \in Nat
        /\ k > 0
    BY <1>0, <2>1, TheFile, PlacedFile DEF Open, WriteTypes, StreamedInv
  <2>3. end \in Nat /\ end <= files[k]
    BY <2>2, ReachedType
  <2>4. Written[wpc'] = 5 /\ Shows(disk, 5, m) /\ m \in Nat /\ m + 1 = k
    BY <1>5, <1>9, <1>19, <2>1, <2>2 DEF Whole
  <2>5. Whole' = IF end = files[k] THEN k ELSE m
    BY <2>1 DEF Whole
  <2> HIDE DEF end, k, m
  <2>6. m + 1 \in DOMAIN files
    BY <2>2, <2>4
  <2>7. Shows(disk', 5, m) /\ (end = files[m + 1] => Shows(disk', 5, m + 1))
    BY <1>0, <1>2, <1>3, <2>1, <2>3, <2>4, <2>6, ShowsFile
  <2> QED
    BY <2>4, <2>5, <2>7
<1>25. CASE ProbeFile
  <2>1. wpc = "probe" /\ wpc' = "stream" /\ disk' = disk /\ streamed' = streamed
    BY <1>3, <1>25 DEF ProbeFile
  <2> QED
    BY <1>5, <1>9, <2>1 DEF Whole
<1>22. CASE Pack \/ Repack \/ PadTrees
  <2>1. wpc' \in {"plan", "failed", "pad", "extend"}
    BY <1>22 DEF Pack, Repack, PadTrees
  <2> QED
    BY <2>1 DEF Written
<1>23. CASE FileChanges \/ WriteOver \/ UNCHANGED volumeVars
  <2>1. UNCHANGED <<wpc, disk>> /\ Len(streamed') = Len(streamed)
    BY <1>19, <1>23 DEF FileChanges, WriteOver, volumeVars, writeVars
  <2> QED
    BY <1>6, <2>1
<1>24. ~TagEntries /\ ~PlanVolume
  BY DEF TagEntries, PlanVolume, Written
<1> QED
  BY <1>7, <1>12, <1>13, <1>14, <1>15, <1>16, <1>17, <1>18, <1>20, <1>21, <1>22, <1>23,
     <1>24, <1>25 DEF WriteStep
----------------------------------------------------------------------------
(* The theorems.                                                           *)

LEMMA WriteInvInit == WriteInit => WriteInv
<1> SUFFICES ASSUME WriteInit PROVE WriteInv
  OBVIOUS
<1>1. PlanInv /\ pc = "blockSize" /\ wpc = "tag" /\ disk = <<>> /\ streamed = <<>>
      /\ copied = 0 /\ blockSize \in BlockSizes
      /\ placements = <<>> /\ now = files
      /\ entries = [k \in DOMAIN files |-> [extent |-> NoExtent, hasAttributes |-> FALSE]]
  BY PlanInvInit DEF WriteInit, PlanInit
<1>2. files \in Seq(Nat)
  BY <1>1 DEF PlanInv, PlanTypeOK
<1>3. WriteTypes
  <2>1. NoExtent \in [start : Nat, blocks : Nat]
    BY DEF NoExtent, Extent
  <2>2. entries \in [DOMAIN files -> FileEntries]
    BY <1>1, <2>1 DEF FileEntries
  <2>3. now \in [DOMAIN files -> Nat]
    BY <1>1, <1>2
  <2>4. disk \in Seq(Contents) /\ streamed \in Seq(SUBSET Nat) /\ Len(streamed) = 0
    BY <1>1
  <2>5. Len(streamed) <= Len(files)
    BY <1>2, <2>4
  <2>6. wpc \in Early
    BY <1>1 DEF Early
  <2> QED
    BY <1>1, <2>2, <2>3, <2>4, <2>5, <2>6 DEF WriteTypes
<1>4. StagesInv
  BY <1>1 DEF StagesInv, Early, Planned
<1>5. EntriesInv
  BY <1>1 DEF EntriesInv, Planned
<1>6. InsideInv
  BY <1>1 DEF InsideInv
<1>7. StreamedInv
  BY <1>1 DEF StreamedInv, Open, Ended
<1>8. DiskInv
  BY <1>1 DEF DiskInv, Written
<1> QED
  BY <1>1, <1>3, <1>4, <1>5, <1>6, <1>7, <1>8 DEF WriteInv

LEMMA WriteInvStep ==
  WriteInv /\ [WriteStep \/ FileChanges \/ WriteOver]_volumeVars => WriteInv'
<1> SUFFICES ASSUME WriteInv, [WriteStep \/ FileChanges \/ WriteOver]_volumeVars
             PROVE  WriteInv'
  OBVIOUS
<1>1. InsideInv'
  BY OutputKept
<1> QED
  BY <1>1, WritePlanStep, WriteTypesStep, StagesStep, EntriesStep, StreamedStep, DiskStep
     DEF WriteInv

\* Every state of a call satisfies the invariant, whatever the files do meanwhile.
THEOREM WriteInvCorrect == WriteSpec => []WriteInv
<1> QED
  BY WriteInvInit, WriteInvStep, PTL DEF WriteSpec

\* A finished image has every part of the plan at its place, nothing over it and
\* nothing else beside it.
THEOREM DiskHoldsPlanCorrect == WriteSpec => []DiskHoldsPlan
<1>1. WriteInv => DiskHoldsPlan
  <2> SUFFICES ASSUME WriteInv, wpc = "done", HeadersFit
               PROVE  /\ Len(disk) * Sector = VolumeSize
                      /\ \A p \in Parts : Holds(p)
                      /\ \A s \in DOMAIN disk :
                            disk[s] = Zero
                            \/ \E p \in Parts : s - 1 \in p.first .. p.first + p.n - 1
    BY DEF DiskHoldsPlan
  <2>1. /\ PlanInv /\ StagesInv /\ pc = "planned" /\ files \in Seq(Nat)
        /\ Len(streamed) = Len(files)
    BY DEF WriteInv, StagesInv, StreamedInv, Planned, PlanInv, PlanTypeOK
  <2>2. Shows(disk, 6, Len(files))
    <3>1. "done" \in DOMAIN Written /\ Written["done"] = 6
      BY DEF Written
    <3> QED
      BY <2>1, <3>1 DEF WriteInv, DiskInv, Whole
  <2>3. Len(disk) * Sector = VolumeSize
    <3>1. /\ Sector \in Nat /\ PerBlock \in Nat /\ blockSize = PerBlock * Sector
          /\ total \in Nat
      BY <2>1, WholeSectors, Slots
    <3>2. Len(disk) = total * PerBlock
      BY <2>2 DEF Shows
    <3> QED
      BY <3>1, <3>2 DEF VolumeSize
  <2>4. ASSUME NEW p \in Parts PROVE Holds(p)
    <3>1. CASE \E i \in 1 .. 6 : p = Fixed[i]
      BY <2>2, <3>1 DEF Shows, InPlace, Holds
    <3>2. CASE \E k \in DOMAIN files : p = FilePart(k)
      <4>1. \A k \in DOMAIN files : k <= Len(files)
        BY <2>1
      <4> QED
        BY <2>2, <3>2, <4>1 DEF Shows, InPlace, Holds
    <3> QED
      BY <3>1, <3>2 DEF Parts
  <2> QED
    BY <2>2, <2>3, <2>4 DEF Shows, OnlyParts
<1> QED
  BY <1>1, WriteInvCorrect, PTL

\* The catalog of a finished image lists each file where its bytes are.
THEOREM CatalogAgreesCorrect == WriteSpec => []CatalogAgrees
<1>1. WriteInv => CatalogAgrees
  <2> SUFFICES ASSUME WriteInv, wpc = "done", HeadersFit, NEW k \in DOMAIN files
               PROVE  /\ catalogOnDisk[k].hasAttributes <=> k \in withAttrs
                      /\ files[k] > 0 =>
                            disk[catalogOnDisk[k].extent.start * PerBlock + 1]
                               = Content("file", k, 0)
    BY DEF CatalogAgrees
  <2>1. /\ PlanInv /\ StagesInv /\ pc = "planned" /\ files \in Seq(Nat)
        /\ Len(streamed) = Len(files)
    BY DEF WriteInv, StagesInv, StreamedInv, Planned, PlanInv, PlanTypeOK
  <2>2. k \in DOMAIN placements /\ files[k] \in Nat /\ placements[k].start \in Nat
    BY <2>1, FileSlots
  <2>3. /\ catalogOnDisk = entries /\ entries[k].extent = placements[k]
        /\ entries[k].hasAttributes <=> k \in withAttrs
    BY <2>2 DEF WriteInv, EntriesInv
  <2>4. ASSUME files[k] > 0
        PROVE  disk[placements[k].start * PerBlock + 1] = Content("file", k, 0)
    <3>1. InPlace(disk, FilePart(k))
      <4>1. "done" \in DOMAIN Written /\ k <= Len(files)
        BY <2>1 DEF Written
      <4> QED
        BY <2>1, <4>1 DEF WriteInv, DiskInv, Shows, Whole
    <3>2. /\ FilePart(k).first = placements[k].start * PerBlock
          /\ FilePart(k).n = Sectors(files[k])
          /\ FilePart(k).of = "file" /\ FilePart(k).k = k
      BY DEF FilePart, Place
    <3>3. Sector \in Nat \ {0} /\ PerBlock \in Nat
      BY <2>1, WholeSectors
    <3>4. Sectors(files[k]) \in Nat /\ files[k] <= Sector * Sectors(files[k])
      BY <2>2, <3>3, RoundUp DEF Sectors
    <3>5. Sectors(files[k]) # 0
      BY <2>2, <2>4, <3>3, <3>4
    <3>6. 0 \in 0 .. FilePart(k).n - 1
      BY <3>2, <3>4, <3>5
    <3>7. disk[FilePart(k).first + 0 + 1] = Content("file", k, 0)
      BY <3>1, <3>2, <3>6 DEF InPlace
    <3>8. FilePart(k).first + 0 + 1 = placements[k].start * PerBlock + 1
      BY <2>2, <3>2, <3>3
    <3> QED
      BY <3>7, <3>8
  <2> QED
    BY <2>3, <2>4
<1> QED
  BY <1>1, WriteInvCorrect, PTL

\* A file with bytes that ended up in a finished image was at some time of its reading as
\* long as planned at least, and at some time at most, whatever happened to it between any
\* two of the reads.
THEOREM StoredWholeCorrect == WriteSpec => []StoredWhole
<1>1. WriteInv => StoredWhole
  <2> SUFFICES ASSUME WriteInv, wpc = "done", NEW k \in DOMAIN files, files[k] > 0
               PROVE  LongEnough(k) /\ ShortEnough(k)
    BY DEF StoredWhole, LongEnough, ShortEnough
  <2>1. files \in Seq(Nat) /\ Ended = Len(files)
    BY DEF WriteInv, StreamedInv, PlanInv, PlanTypeOK, Ended, Open
  <2>2. k \in 1 .. Ended
    BY <2>1
  <2> QED
    BY <2>2 DEF WriteInv, StreamedInv
<1> QED
  BY <1>1, WriteInvCorrect, PTL

\* No byte of a file is ever outside its extent.
THEOREM FilesStayInsideCorrect == WriteSpec => []FilesStayInside
<1>1. WriteInv => FilesStayInside
  <2> SUFFICES ASSUME WriteInv, NEW s \in DOMAIN disk, disk[s].of = "file",
                      NEW k, k = disk[s].k
               PROVE  s - 1 \in placements[k].start * PerBlock
                                .. (placements[k].start + placements[k].blocks) * PerBlock - 1
    BY DEF FilesStayInside
  <2>1. disk \in Seq(Contents) /\ s \in Nat /\ disk # <<>>
    BY DEF WriteInv, WriteTypes
  <2>2. PlanInv /\ StagesInv /\ pc = "planned"
    BY <2>1 DEF WriteInv, StagesInv
  <2>3. /\ k \in DOMAIN placements
        /\ s - 1 >= placements[k].start * PerBlock
        /\ s - 1 < (placements[k].start + placements[k].blocks) * PerBlock
    BY DEF WriteInv, InsideInv, EndOf
  <2>4. placements \in Seq([start : Nat, blocks : Nat])
    BY <2>2 DEF PlanInv, PlanTypeOK
  <2>5. placements[k] \in [start : Nat, blocks : Nat]
    BY ONLY <2>3, <2>4, ElementOfSeq, LenProperties
  <2>6. PerBlock \in Nat
    BY <2>2, WholeSectors
  <2>7. /\ placements[k].start * PerBlock \in Nat
        /\ (placements[k].start + placements[k].blocks) * PerBlock \in Nat
    BY <2>5, <2>6
  <2> QED
    BY <2>1, <2>3, <2>7
<1> QED
  BY <1>1, WriteInvCorrect, PTL
=============================================================================
