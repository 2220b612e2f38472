----------------------------- MODULE VolumePlan -----------------------------
(* BuildPlan of internal/hfsplus/layout.go: from the sizes of the packed   *)
(* trees and of the user files to the block each of them starts at.  The   *)
(* loops of the code, over the files and to the fixed point of the bitmap, *)
(* are steps of the model.  Word is 2^32 in the code, the first number a   *)
(* uint32 cannot hold.                                                     *)
EXTENDS Integers, Sequences, FiniteSets

CONSTANTS
    BlockSizes,         \* the block sizes a caller may ask for, 0 included
    DefaultBlockSize,   \* 4096
    MinBlockSize,       \* 512
    Word,               \* 2^32
    TreeSizes,          \* the sizes in bytes a packed tree may have
    FileSizes,          \* the sizes in bytes a user file may have
    MaxFiles            \* bound on the number of files

ASSUME PlanAssumption ==
    /\ BlockSizes \subseteq Nat
    /\ DefaultBlockSize \in Nat \ {0}
    /\ MinBlockSize \in Nat \ {0}
    /\ Word \in Nat \ {0}
    /\ TreeSizes \subseteq Nat
    /\ FileSizes \subseteq Nat
    /\ MaxFiles \in Nat

VARIABLES
    pc,
    blockSize, treeSize, files,        \* the inputs
    forks, fileBlocks, userBlocks,     \* block counts
    alloc, total,                      \* the bitmap's fork and the volume
    placements, cursor,                \* where the files go
    bitmapBytes, nextAllocation,
    sums                               \* history: userBlocks after each file

planVars == <<pc, blockSize, treeSize, files, forks, fileBlocks, userBlocks,
              alloc, total, placements, cursor, bitmapBytes, nextAllocation, sums>>

Trees == {"catalog", "extents", "attributes"}
Extent(start, blocks) == [start |-> start, blocks |-> blocks]
U32(n) == n % Word

DivRoundUp(n, d) == (n + d - 1) \div d

\* Mutant: an empty special file gets no block.
ForkBlocks_Empty(size) == DivRoundUp(size, blockSize)
ForkBlocks(size) ==
    IF DivRoundUp(size, blockSize) = 0 THEN 1 ELSE DivRoundUp(size, blockSize)

\* No odd number but 1 divides it.
IsPowerOfTwo(n) == \A d \in 1 .. n : n % d = 0 => d = 1 \/ d % 2 = 0

PlanInit ==
    /\ pc = "blockSize"
    /\ blockSize \in BlockSizes
    /\ treeSize \in [Trees -> TreeSizes]
    /\ \E n \in 0 .. MaxFiles : files \in [1 .. n -> FileSizes]
    /\ forks = [t \in Trees |-> 0] /\ fileBlocks = <<>> /\ userBlocks = 0
    /\ alloc = 1 /\ total = 0
    /\ placements = <<>> /\ cursor = 0
    /\ bitmapBytes = 0 /\ nextAllocation = 0
    /\ sums = <<>>

----------------------------------------------------------------------------
(* The block size and the counts.                                          *)

CheckBlockSize ==
    /\ pc = "blockSize"
    /\ LET asked == IF blockSize = 0 THEN DefaultBlockSize ELSE blockSize IN
       /\ blockSize' = asked
       /\ pc' = IF asked < MinBlockSize \/ ~IsPowerOfTwo(asked)
                THEN "error" ELSE "trees"
    /\ UNCHANGED <<treeSize, files, forks, fileBlocks, userBlocks, alloc, total,
                   placements, cursor, bitmapBytes, nextAllocation, sums>>

SizeTrees ==
    /\ pc = "trees"
    /\ \/ /\ \E t \in Trees : ForkBlocks(treeSize[t]) > Word - 1
          /\ pc' = "error"
          /\ UNCHANGED forks
       \/ /\ \A t \in Trees : ForkBlocks(treeSize[t]) <= Word - 1
          /\ forks' = [t \in Trees |-> ForkBlocks(treeSize[t])]
          /\ pc' = "files"
    /\ UNCHANGED <<blockSize, treeSize, files, fileBlocks, userBlocks, alloc,
                   total, placements, cursor, bitmapBytes, nextAllocation, sums>>

\* One file is one extent: a count that does not fit a uint32 is refused.
SizeFile ==
    /\ pc = "files" /\ Len(fileBlocks) < Len(files)
    /\ LET n == DivRoundUp(files[Len(fileBlocks) + 1], blockSize) IN
       \/ /\ n > Word - 1
          /\ pc' = "error"
          /\ UNCHANGED <<fileBlocks, userBlocks, sums>>
       \/ /\ n <= Word - 1
          /\ fileBlocks' = Append(fileBlocks, n)
          /\ userBlocks' = userBlocks + n
          /\ sums' = Append(sums, userBlocks + n)
          /\ UNCHANGED pc
    /\ UNCHANGED <<blockSize, treeSize, files, forks, alloc, total, placements,
                   cursor, bitmapBytes, nextAllocation>>

FilesSized ==
    /\ pc = "files" /\ Len(fileBlocks) = Len(files)
    /\ pc' = "total"
    /\ UNCHANGED <<blockSize, treeSize, files, forks, fileBlocks, userBlocks,
                   alloc, total, placements, cursor, bitmapBytes,
                   nextAllocation, sums>>

----------------------------------------------------------------------------
(* The fixed point: the bitmap lives inside the volume it describes.       *)

MaxFork ==
    LET m == IF forks["extents"] > forks["catalog"]
             THEN forks["extents"] ELSE forks["catalog"]
    IN  IF forks["attributes"] > m THEN forks["attributes"] ELSE m

\* The volume with a bitmap of `a' blocks, at least four times its largest tree.
\* Mutants: the block of the alternate header is forgotten; the padding is
\* forgotten, or added after the bitmap has been sized.
Packed_NoAlternate(a) ==
    1 + a + forks["catalog"] + forks["extents"] + forks["attributes"] + userBlocks
Packed(a) ==
    1 + a + forks["catalog"] + forks["extents"] + forks["attributes"] + userBlocks + 1
TotalWith_NoPad(a) == Packed(a)
TotalWith(a) == IF Packed(a) < 4 * MaxFork THEN 4 * MaxFork ELSE Packed(a)
Need_Packed(a) == DivRoundUp(Packed(a), blockSize * 8)
Need(a) == DivRoundUp(TotalWith(a), blockSize * 8)

\* Mutants: the bitmap is doubled, or left as it is.
Grown_Double == 2 * alloc
Grown_Same == alloc
Grown == Need(alloc)

GrowBitmap ==
    /\ pc = "total"
    /\ Need(alloc) > alloc
    /\ alloc' = Grown
    /\ UNCHANGED <<pc, blockSize, treeSize, files, forks, fileBlocks, userBlocks,
                   total, placements, cursor, bitmapBytes, nextAllocation, sums>>

AllocStart == 1
CatalogStart == U32(AllocStart + alloc)
ExtentsStart == U32(CatalogStart + forks["catalog"])
AttributesStart == U32(ExtentsStart + forks["extents"])
UserDataStart == U32(AttributesStart + forks["attributes"])

Settle ==
    /\ pc = "total"
    /\ Need(alloc) <= alloc
    /\ \/ /\ TotalWith(alloc) > Word - 1
          /\ pc' = "error"
          /\ UNCHANGED <<total, cursor>>
       \/ /\ TotalWith(alloc) <= Word - 1
          /\ total' = TotalWith(alloc)
          /\ cursor' = UserDataStart
          /\ pc' = "place"
    /\ UNCHANGED <<blockSize, treeSize, files, forks, fileBlocks, userBlocks,
                   alloc, placements, bitmapBytes, nextAllocation, sums>>

----------------------------------------------------------------------------
(* Placement and the bitmap.                                               *)

Advance(n) == U32(cursor + n)

\* A file of no blocks has no extent.
PlaceFile ==
    /\ pc = "place" /\ Len(placements) < Len(files)
    /\ LET n == fileBlocks[Len(placements) + 1] IN
       /\ placements' = Append(placements, Extent(IF n = 0 THEN 0 ELSE cursor, n))
       /\ cursor' = Advance(n)
    /\ UNCHANGED <<pc, blockSize, treeSize, files, forks, fileBlocks, userBlocks,
                   alloc, total, bitmapBytes, nextAllocation, sums>>

\* What the bitmap marks: the block of the boot area and primary header, the
\* special files, the block of the alternate header, and the files.
Layout == << Extent(0, 1),
             Extent(AllocStart, alloc),
             Extent(CatalogStart, forks["catalog"]),
             Extent(ExtentsStart, forks["extents"]),
             Extent(AttributesStart, forks["attributes"]),
             Extent(total - 1, 1) >>
Marked == {Layout[i] : i \in DOMAIN Layout} \cup {placements[k] : k \in DOMAIN placements}
Blocks(e) == {b \in e.start .. e.start + e.blocks - 1 : b < total}
Used == UNION {Blocks(e) : e \in Marked}
FreeBlocks == total - Cardinality(Used)

\* NewAllocationBitmap computes its length in uint32.  Marking a bit past its
\* end is an index out of range.
BitmapLength == U32(total + 7) \div 8
MarksOutside == \E e \in Marked : \E b \in Blocks(e) : b \div 8 >= BitmapLength

\* Mutant: a volume whose last free block is the one before the alternate header's is
\* taken for full.
NextFree_OneLess == IF cursor >= total - 2 THEN 0 ELSE cursor
NextFree == IF cursor >= total - 1 THEN 0 ELSE cursor

MarkBitmap ==
    /\ pc = "place" /\ Len(placements) = Len(files)
    /\ bitmapBytes' = BitmapLength
    /\ nextAllocation' = NextFree
    /\ pc' = IF MarksOutside THEN "panic" ELSE "planned"
    /\ UNCHANGED <<blockSize, treeSize, files, forks, fileBlocks, userBlocks,
                   alloc, total, placements, cursor, sums>>

PlanStep ==
    \/ CheckBlockSize \/ SizeTrees \/ SizeFile \/ FilesSized
    \/ GrowBitmap \/ Settle \/ PlaceFile \/ MarkBitmap

PlanOver == pc \in {"planned", "error", "panic"} /\ UNCHANGED planVars

PlanSpec == PlanInit /\ [][PlanStep \/ PlanOver]_planVars /\ WF_planVars(PlanStep)

----------------------------------------------------------------------------
(* The inductive invariant, in parts.                                      *)

Settled == pc \in {"place", "planned", "panic"}
Counted == pc = "total" \/ Settled

\* The blocks of the first k files, and the first block after the trees.
At(k) == IF k = 0 THEN 0 ELSE sums[k]
FirstUser == 1 + alloc + forks["catalog"] + forks["extents"] + forks["attributes"]

ForksInv ==
    /\ pc # "blockSize" => blockSize > 0
    /\ pc = "files" \/ Counted => \A t \in Trees : forks[t] \in 1 .. Word - 1

FilesInv ==
    /\ Len(sums) = Len(fileBlocks) /\ Len(fileBlocks) <= Len(files)
    /\ Counted => Len(fileBlocks) = Len(files)
    /\ pc \in {"blockSize", "trees"} => fileBlocks = <<>>
    /\ \A k \in 1 .. Len(fileBlocks) : fileBlocks[k] = DivRoundUp(files[k], blockSize)

SumsInv ==
    /\ userBlocks = At(Len(sums))
    /\ \A k \in 1 .. Len(sums) : sums[k] = At(k - 1) + fileBlocks[k]
    /\ \A j, k \in 0 .. Len(sums) : j <= k => At(j) <= At(k)

TotalInv ==
    /\ ~Counted /\ pc # "error" => alloc = 1
    /\ Counted => \A a \in 1 .. alloc - 1 : Need(a) > a
    /\ Settled => Need(alloc) <= alloc /\ total = TotalWith(alloc) /\ total < Word

PlaceInv ==
    /\ ~Settled => placements = <<>>
    /\ Settled =>
          /\ Len(placements) <= Len(files)
          /\ cursor = FirstUser + At(Len(placements))
          /\ \A k \in 1 .. Len(placements) :
                /\ placements[k].blocks = fileBlocks[k]
                /\ placements[k].start =
                      IF fileBlocks[k] = 0 THEN 0 ELSE FirstUser + At(k - 1)
    /\ pc = "planned" =>
          /\ Len(placements) = Len(files)
          /\ bitmapBytes = BitmapLength /\ nextAllocation = NextFree
          /\ ~MarksOutside

----------------------------------------------------------------------------
(* Properties.                                                             *)

\* Every variable has its type.
PlanTypeOK ==
    /\ pc \in {"blockSize", "trees", "files", "total", "place", "planned",
               "error", "panic"}
    /\ blockSize \in Nat
    /\ treeSize \in [Trees -> Nat] /\ files \in Seq(Nat)
    /\ forks \in [Trees -> Nat]
    /\ fileBlocks \in Seq(Nat) /\ userBlocks \in Nat
    /\ alloc \in Nat \ {0} /\ total \in Nat
    /\ placements \in Seq([start : Nat, blocks : Nat]) /\ cursor \in Nat
    /\ bitmapBytes \in Nat /\ nextAllocation \in Nat
    /\ sums \in Seq(Nat)

\* The parts together: the block counts are those of the sizes, their sums
\* place the files, and the total is the fixed point of the bitmap.
PlanInv == PlanTypeOK /\ ForksInv /\ FilesInv /\ SumsInv /\ TotalInv /\ PlaceInv

\* The bitmap has a bit for each block of a volume that includes the bitmap, and it
\* fits in the fork laid out for it: WriteVolume writes it as one run, and a longer one
\* would overwrite the catalog.
BitmapFits ==
    pc = "planned" => total <= 8 * bitmapBytes /\ bitmapBytes <= alloc * blockSize

\* No block belongs to two things, and everything lies inside the volume: the
\* special files follow each other, the files follow them, and the block of the
\* alternate header is the last of the volume.
EndOf(e) == e.start + e.blocks
ForksDisjoint ==
    pc = "planned" =>
        /\ \A i \in 1 .. 5 : Layout[i].blocks > 0 /\ EndOf(Layout[i]) <= Layout[i + 1].start
        /\ EndOf(Layout[6]) = total
        /\ \A k \in DOMAIN placements :
              placements[k].blocks > 0 =>
                 /\ EndOf(Layout[5]) <= placements[k].start
                 /\ EndOf(placements[k]) <= Layout[6].start
                 /\ \A j \in 1 .. k - 1 : EndOf(placements[j]) <= placements[k].start

\* A file's extent holds the file and less than one block more.
ExtentsHoldFiles ==
    pc = "planned" =>
        \A k \in DOMAIN files :
            LET bytes == placements[k].blocks * blockSize
            IN  files[k] <= bytes /\ bytes < files[k] + blockSize

\* fsck_hfs caps the clump of a B-tree at a quarter of the volume, and every
\* tree's clump is its whole fork.
ClumpCap == pc = "planned" => \A t \in Trees : 4 * forks[t] <= total

\* The free blocks are the ones between the last file and the alternate header,
\* and the header names the first of them.  Nothing is said of a full volume: the
\* code and layout.go:248 say block 0, layout.go:32 says the last block.
FreeIsTail ==
    pc = "planned" =>
        /\ 0 .. total - 1 = Used \cup (cursor .. total - 2)
        /\ Used \cap (cursor .. total - 2) = {}
        /\ FreeBlocks = total - 1 - cursor
        /\ FreeBlocks > 0 => nextAllocation = cursor

\* No smaller bitmap would do: the loop stops at the least fixed point.
LeastBitmap ==
    pc \in {"place", "planned"} => \A a \in 1 .. alloc - 1 : Need(a) > a

\* The fixed point is reached and the plan ends.
PlanEnds == <>(pc \in {"planned", "error", "panic"})
=============================================================================
