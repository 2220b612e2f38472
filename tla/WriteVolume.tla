---------------------------- MODULE WriteVolume -----------------------------
(* WriteVolume of internal/hfsplus/builder.go: tag the entries, pack the   *)
(* trees, plan the volume (VolumePlan), pack the catalog again, and write  *)
(* every part of the volume at its place.  The user files are read while   *)
(* the image is written, long after the walk measured them, and may have   *)
(* changed.  The output is a function from its 512-byte sectors to what    *)
(* was last written there; a write that fails ends the call, and the       *)
(* caller throws the output away.                                          *)
EXTENDS VolumePlan

CONSTANTS
    Sector,             \* 512, the granularity of the model's output
    HeaderAt,           \* 1024: where the headers are, from the start and from the end
    CatalogNode, ExtentsNode, AttributesNode,   \* node sizes, 4096, 1024, 8192
    ReadMax,            \* the most bytes io.CopyN reads at once
    MaxChanges          \* bound on the changes of the user files

ASSUME WriteAssumption ==
    /\ Sector \in Nat \ {0} /\ HeaderAt \in Nat \ {0} /\ HeaderAt % Sector = 0
    /\ \A n \in BlockSizes \cup {DefaultBlockSize} :
          n >= MinBlockSize /\ IsPowerOfTwo(n) => n % Sector = 0
    /\ CatalogNode \in Nat \ {0} /\ ExtentsNode \in Nat \ {0}
    /\ AttributesNode \in Nat \ {0}
    /\ ReadMax \in Nat \ {0} /\ MaxChanges \in Nat

VARIABLES
    wpc,
    macTime,        \* the time given by the caller, 0 or not
    withAttrs,      \* the files that carry an extended attribute
    entries,        \* the catalog entries of the files, shared with BuildPlan
    packed,         \* what the packed catalog says of the files
    disk,           \* the output
    catalogOnDisk,  \* what the catalog in the output says of the files
    copied,         \* how much of the user file that is open has been copied
    now, changes,   \* the size of each user file on the file system
    streamed        \* history: the sizes each user file had from its turn to its end

writeVars == <<wpc, macTime, withAttrs, entries, packed, disk, catalogOnDisk,
               copied, now, changes, streamed>>
volumeVars == <<planVars, writeVars>>

\* Everything but the program counter and the output.
inputs == <<planVars, macTime, withAttrs, entries, now, changes>>

NodeSize(t) == CASE t = "catalog" -> CatalogNode
                 [] t = "extents" -> ExtentsNode
                 [] t = "attributes" -> AttributesNode

\* An extents tree is always empty, a catalog has a header and a leaf.
PackedSizes ==
    /\ \A t \in Trees : treeSize[t] > 0 /\ treeSize[t] % NodeSize(t) = 0
    /\ treeSize["extents"] = ExtentsNode
    /\ treeSize["catalog"] >= 2 * CatalogNode

NoExtent == Extent(0, 0)

WriteInit ==
    /\ PlanInit /\ PackedSizes
    /\ wpc = "tag"
    /\ macTime \in {0, 1}
    /\ withAttrs \in SUBSET DOMAIN files
    /\ entries = [k \in DOMAIN files |-> [extent |-> NoExtent, hasAttributes |-> FALSE]]
    /\ packed = <<>> /\ catalogOnDisk = <<>>
    /\ disk = <<>> /\ copied = 0
    /\ now = files /\ changes = 0
    /\ streamed = <<>>

----------------------------------------------------------------------------
(* Before the output is touched.                                           *)

\* fsck_hfs rejects a date of zero.
TimeGiven == macTime # 0

TagEntries ==
    /\ wpc = "tag"
    /\ blockSize' = IF blockSize = 0 THEN DefaultBlockSize ELSE blockSize
    /\ \/ ~TimeGiven /\ wpc' = "failed" /\ UNCHANGED entries
       \/ /\ TimeGiven /\ wpc' = "pack"
          /\ entries' = [k \in DOMAIN files |->
                           [entries[k] EXCEPT !.hasAttributes = @ \/ k \in withAttrs]]
    /\ UNCHANGED <<pc, treeSize, files, forks, fileBlocks, userBlocks, alloc, total,
                   placements, cursor, bitmapBytes, nextAllocation, sums, macTime,
                   withAttrs, packed, disk, catalogOnDisk, copied, now, changes,
                   streamed>>

\* The first pack gives the sizes the plan is made from; a name or an attribute
\* that does not fit a node is refused.
Pack ==
    /\ wpc = "pack"
    /\ \/ packed' = entries /\ wpc' = "plan"
       \/ UNCHANGED packed /\ wpc' = "failed"
    /\ UNCHANGED <<inputs, disk, catalogOnDisk, copied, streamed>>

\* BuildPlan sets the extents of the entries while it places the files.
PlanVolume ==
    /\ wpc = "plan"
    /\ PlanStep
    /\ entries' = [k \in DOMAIN files |->
                     IF k \in DOMAIN placements'
                     THEN [entries[k] EXCEPT !.extent = placements'[k]]
                     ELSE entries[k]]
    /\ wpc' = IF pc' \in {"error", "panic"} THEN "failed"
              ELSE IF pc' = "planned" THEN "repack" ELSE wpc
    /\ UNCHANGED <<macTime, withAttrs, packed, disk, catalogOnDisk, copied, now, changes,
                   streamed>>

\* Mutant: the catalog of the first pass is kept.
Repacked_FirstPass == packed
Repacked == entries

Repack ==
    /\ wpc = "repack"
    /\ packed' = Repacked
    /\ wpc' = "pad"
    /\ UNCHANGED <<inputs, disk, catalogOnDisk, copied, streamed>>

\* A tree is padded to its fork, as far as its map of nodes reaches: the header
\* node and whole map nodes.
MapCoverage(t) ==
    LET header == (NodeSize(t) - 256) * 8
        mapNode == (NodeSize(t) - 18) * 8
        nodes == treeSize[t] \div NodeSize(t)
    IN  IF nodes <= header THEN header
        ELSE header + mapNode * DivRoundUp(nodes - header, mapNode)
Pads(t) ==
    LET bytes == forks[t] * blockSize
    IN  /\ bytes >= treeSize[t] /\ bytes % NodeSize(t) = 0
        /\ bytes \div NodeSize(t) <= MapCoverage(t)

PadTrees ==
    /\ wpc = "pad"
    /\ wpc' = IF \A t \in Trees : Pads(t) THEN "extend" ELSE "failed"
    /\ UNCHANGED <<inputs, packed, disk, catalogOnDisk, copied, streamed>>

----------------------------------------------------------------------------
(* The writes.                                                             *)

\* Where a block is in the output.  Mutant: the product is a uint32.
ByteOffset_U32(block) == U32(block * blockSize)
ByteOffset(block) == block * blockSize

Content(of, k, i) == [of |-> of, k |-> k, at |-> i]
Zero == Content("zero", 0, 0)
Sectors(bytes) == DivRoundUp(bytes, Sector)

\* The output after `bytes' bytes of a part are written from a byte offset on: it
\* grows when they end past its end.
After(of, k, byte, bytes) ==
    LET first == byte \div Sector
        end == first + Sectors(bytes)
        old == Len(disk)
    IN  [s \in 1 .. (IF end > old THEN end ELSE old) |->
            IF s - 1 \in first .. end - 1 THEN Content(of, k, s - 1 - first)
            ELSE IF s <= old THEN disk[s] ELSE Zero]

\* One write of the call: it is done whole, or it fails and the call with it.
WritePart(at, next, of, byte, bytes) ==
    /\ wpc = at
    /\ \/ disk' = After(of, 0, byte, bytes) /\ wpc' = next
       \/ UNCHANGED disk /\ wpc' = "failed"
    /\ UNCHANGED <<inputs, packed, copied, streamed>>

VolumeSize == total * blockSize

\* One zero byte at the end sets the size.
Extend == WritePart("extend", "primary", "zero", VolumeSize - 1, 1)
          /\ UNCHANGED catalogOnDisk
WritePrimary == WritePart("primary", "bitmap", "header", HeaderAt, Sector)
                /\ UNCHANGED catalogOnDisk

WriteBitmap ==
    /\ IF bitmapBytes > alloc * blockSize
       THEN /\ wpc = "bitmap" /\ wpc' = "failed"
            /\ UNCHANGED <<inputs, packed, disk, copied, streamed>>
       ELSE WritePart("bitmap", "catalog", "bitmap", ByteOffset(AllocStart), bitmapBytes)
    /\ UNCHANGED catalogOnDisk

WriteCatalog ==
    /\ WritePart("catalog", "extents", "catalog", ByteOffset(CatalogStart),
                 forks["catalog"] * blockSize)
    /\ catalogOnDisk' = packed
WriteExtents ==
    /\ WritePart("extents", "attributes", "extents", ByteOffset(ExtentsStart),
                 forks["extents"] * blockSize)
    /\ UNCHANGED catalogOnDisk
WriteAttributes ==
    /\ WritePart("attributes", "stream", "attributes", ByteOffset(AttributesStart),
                 forks["attributes"] * blockSize)
    /\ UNCHANGED catalogOnDisk

\* A file whose extent is empty is not even opened.
SkipFile ==
    LET k == Len(streamed) + 1 IN
    /\ wpc = "stream" /\ k <= Len(files)
    /\ placements[k].blocks = 0
    /\ streamed' = Append(streamed, {now[k]})
    /\ UNCHANGED <<inputs, wpc, packed, disk, catalogOnDisk, copied>>

\* The opener and the seek to the extent's first byte.
OpenFile ==
    LET k == Len(streamed) + 1 IN
    /\ wpc = "stream" /\ k <= Len(files)
    /\ placements[k].blocks > 0
    /\ \/ /\ wpc' = "copy" /\ copied' = 0
          /\ streamed' = Append(streamed, {now[k]})
       \/ wpc' = "failed" /\ UNCHANGED <<copied, streamed>>
    /\ UNCHANGED <<inputs, packed, disk, catalogOnDisk>>

\* Where a read of the file ends: at the end of the file, of the bytes planned for it,
\* or of the buffer.  Mutant: all of the file is copied.
Reached_All(planned, length) ==
    IF length <= copied + ReadMax THEN length ELSE copied + ReadMax
Reached(planned, length) ==
    LET end == IF length < planned THEN length ELSE planned
    IN  IF end <= copied + ReadMax THEN end ELSE copied + ReadMax

\* One read of io.CopyN and the write of what it got.  The bytes are named after their
\* file, and so the sectors up to the end of this read are those of all the reads.  A
\* file that has no more bytes has shrunk; that, or a read or a write that fails, ends
\* the call.
CopyFile ==
    LET k == Len(streamed)
        end == Reached(files[k], now[k])
    IN  /\ wpc = "copy"
        /\ \/ /\ end > copied
              /\ disk' = After("file", k, ByteOffset(placements[k].start), end)
              /\ copied' = end
              /\ wpc' = IF end = files[k] THEN "probe" ELSE "copy"
           \/ wpc' = "failed" /\ UNCHANGED <<copied, disk>>
        /\ UNCHANGED <<inputs, packed, catalogOnDisk, streamed>>

\* One more read after the planned bytes tells a file that grew.  Mutant: nobody looks.
More_Unseen(length) == FALSE
More(length) == length > copied

ProbeFile ==
    /\ wpc = "probe"
    /\ \/ ~More(now[Len(streamed)]) /\ wpc' = "stream"
       \/ wpc' = "failed"
    /\ UNCHANGED <<inputs, packed, disk, catalogOnDisk, copied, streamed>>

FilesStreamed ==
    /\ wpc = "stream" /\ Len(streamed) = Len(files)
    /\ wpc' = "alternate"
    /\ UNCHANGED <<inputs, packed, disk, catalogOnDisk, copied, streamed>>

WriteAlternate ==
    /\ WritePart("alternate", "done", "header", VolumeSize - HeaderAt, Sector)
    /\ UNCHANGED catalogOnDisk

----------------------------------------------------------------------------
\* Another program changes a user file behind the walk's back, the one that is open
\* included.
FileChanges ==
    /\ changes < MaxChanges /\ wpc \notin {"tag", "done", "failed"}
    /\ \E k \in DOMAIN files, size \in FileSizes :
          /\ size # now[k] /\ now' = [now EXCEPT ![k] = size]
          /\ streamed' = IF wpc \in {"copy", "probe"} /\ k = Len(streamed)
                         THEN [streamed EXCEPT ![k] = @ \cup {size}] ELSE streamed
    /\ changes' = changes + 1
    /\ UNCHANGED <<planVars, wpc, macTime, withAttrs, entries, packed, disk,
                   catalogOnDisk, copied>>

WriteStep ==
    \/ TagEntries \/ Pack \/ PlanVolume \/ Repack \/ PadTrees
    \/ Extend \/ WritePrimary \/ WriteBitmap
    \/ WriteCatalog \/ WriteExtents \/ WriteAttributes
    \/ SkipFile \/ OpenFile \/ CopyFile \/ ProbeFile \/ FilesStreamed \/ WriteAlternate

WriteOver == wpc \in {"done", "failed"} /\ UNCHANGED volumeVars

WriteSpec == WriteInit /\ [][WriteStep \/ FileChanges \/ WriteOver]_volumeVars

----------------------------------------------------------------------------
(* Properties.                                                             *)

\* What the plan puts where: the sectors from first on, n of them.
Place(of, k, first, n) == [of |-> of, k |-> k, first |-> first, n |-> n]
PerBlock == blockSize \div Sector
Fixed ==
    << Place("header", 0, HeaderAt \div Sector, 1),
       Place("bitmap", 0, Layout[2].start * PerBlock, Sectors(DivRoundUp(total, 8))),
       Place("catalog", 0, Layout[3].start * PerBlock, Layout[3].blocks * PerBlock),
       Place("extents", 0, Layout[4].start * PerBlock, Layout[4].blocks * PerBlock),
       Place("attributes", 0, Layout[5].start * PerBlock, Layout[5].blocks * PerBlock),
       Place("header", 0, total * PerBlock - HeaderAt \div Sector, 1) >>
FilePart(k) == Place("file", k, placements[k].start * PerBlock, Sectors(files[k]))
Parts == {Fixed[i] : i \in 1 .. 6} \cup {FilePart(k) : k \in DOMAIN files}

\* A part is on the disk where the plan put it, every sector of it in its order.
Holds(p) == \A i \in 0 .. p.n - 1 : disk[p.first + i + 1] = Content(p.of, p.k, i)

\* The call writes its parts out of order into one output, at offsets computed
\* separately from the plan.  When it succeeds each part is where the plan, and so
\* the header and the catalog, say; nothing written later has spoilt it, the rest
\* is zero and the output has the size that is reported.  The block size must have
\* room for the boot area and the header in block 0 (see BlockZeroReserved), and so
\* for the alternate header in the last one.
HeadersFit == HeaderAt + Sector <= blockSize
DiskHoldsPlan ==
    wpc = "done" /\ HeadersFit =>
        /\ Len(disk) * Sector = VolumeSize
        /\ \A p \in Parts : Holds(p)
        /\ \A s \in DOMAIN disk :
              disk[s] = Zero
              \/ \E p \in Parts : s - 1 \in p.first .. p.first + p.n - 1

\* BuildPlan changes the entries the catalog has been packed from.  The catalog in
\* a finished image lists each file with the extent its bytes were written to, and
\* marks the ones with attributes.
CatalogAgrees ==
    wpc = "done" /\ HeadersFit =>
        \A k \in DOMAIN files :
            /\ catalogOnDisk[k].hasAttributes <=> k \in withAttrs
            /\ files[k] > 0 =>
                  disk[catalogOnDisk[k].extent.start * PerBlock + 1] = Content("file", k, 0)

\* A file with bytes is copied to its planned end and then has no more: while it was
\* being read it was once at least, and once at most, as long as planned.  One that was
\* shorter or longer from its turn to its end, whenever it changed, fails the call, and
\* one that kept its length was stored whole.
StoredWhole ==
    wpc = "done" =>
        \A k \in DOMAIN files :
            files[k] > 0 => /\ \E length \in streamed[k] : length >= files[k]
                            /\ \E length \in streamed[k] : length <= files[k]

\* A source that grew cannot write outside its own extent, not even in an image
\* that is going to be thrown away.
FilesStayInside ==
    \A s \in DOMAIN disk :
        disk[s].of = "file" =>
            LET e == placements[disk[s].k]
            IN  s - 1 \in e.start * PerBlock .. (e.start + e.blocks) * PerBlock - 1

\* "Block 0 is reserved (boot + primary VH)" (layout.go): with the block sizes
\* BuildPlan accepts, the primary header of a finished image is in place.
BlockZeroReserved ==
    wpc = "done" => disk[HeaderAt \div Sector + 1] = Content("header", 0, 0)

\* "A file that changed since then does not fit the volume that was planned around
\* it, and either half of that has to be an error" (builder.go): in a finished image each
\* file had the planned size at some time between its turn and its end.
ChangedIsError ==
    wpc = "done" => \A k \in DOMAIN files : files[k] \in streamed[k]
=============================================================================
