# A formal model of go-dmg-writer

`go-dmg-writer` turns a folder into a macOS disk image: it scans the folder, lays out an
HFSX volume in a scratch file, and streams that volume (optionally inside a GUID partition
map) through a pool of compressing goroutines into a UDIF file. This directory holds TLA+
modules for the parts of that pipeline that decide something, the TLC runs that check them
on small instances, and theorems about them checked by TLAPS.

`PROJECT.json` lists components, runs, mutants, hazards, findings and theorems, and maps
every definition to the source lines it models.

## 1. Inventory

| Part | State | Operations | Talks to |
|---|---|---|---|
| `DMG.Create` (`dmg.go`) | scratch file, output file | check source, scan, build, rewind, frame, wrap, close | everything below, in order |
| Source scan (`walk`, `walkSorted`, `walkDir`) | `parentMap`, `nextCNID`, `pending`; then `entries`, `files`, `attrs`, `claimed`, `valence` | two passes over a folder other programs may change | xattr reader, HFS+ names |
| Volume writer (`builder.go`) | trees, plan, the scratch file | pack, plan, repack, pad, write headers, bitmap and trees, stream files | planner, B-tree builder, openers of the scan |
| Planner (`layout.go`, `allocation.go`) | fork sizes, totals, placements, bitmap | size, fixed point of the bitmap, place, mark | called twice: with a first catalog, and never again |
| B-tree builder (`btree.go`) | levels of packed nodes, map nodes, bytes | pack leaves and index levels, number, emit, pad | catalog, extents and attributes packers |
| Catalog, attributes, extents (`catalog.go`, `attributes.go`, `extents.go`) | none | records, key order, refusal of equal keys | B-tree builder |
| Partition map (`gpt.go`) | a volume length | LBAs, headers, tables, regions | stream and regions go to UDIF |
| UDIF framing (`udif.Write`, `blkxSpecs`) | offset in the data fork, tables, checksums, buffered writer | check regions, encode each, XML, koly, flush | chunk pipeline |
| Chunk pipeline (`encodeChunks`) | channels `jobs`, `results`, `errCh`, `done`, `drainCh`; reorder buffer; runs | producer, workers, closer, drain | one call per region over the same reader, writer, CRC |
| Xattr reader (`xattrs_unix.go`) | a buffer, a number of attempts | list the names, then read each value; grow and retry | called by the scan for each file and folder |
| Names, time, koly, plist, types | none | comparison, normalisation, encodings | scan, catalog, framing |

What is hard here:

* **Concurrency.** Only `encodeChunks` runs goroutines: a producer (the caller), workers, one
  goroutine that closes `results`, and a drain. Results arrive out of order; four kinds of
  failure can coincide; the channels are bounded, and whoever stops reading too soon blocks
  the rest. *Correct* means: the output is the one a loop would write, the call returns,
  nothing survives it, and what it returns is the truth.
* **The folder is not locked.** Between listing, `Lstat`, second pass and copy any object can
  change. *Correct* means: the entries still form a tree of objects that were there, whose
  numbers, counters and files agree; no attribute is cut off or lost; and a file that is
  shorter or longer than planned while it is read is an error.
* **Circular sizes.** The bitmap lies in the volume it describes; map nodes are nodes of the
  tree they describe; the catalog holds extents that depend on the catalog's size. *Correct*
  means: the iteration ends, on something that describes itself exactly.
* **Widths.** Block counts, clump sizes and totals are 32-bit, offsets 64-bit.
* **Two computations of one thing.** Region tables and map bytes, run offsets and written
  bytes, header counters and catalog records are made by different code for one reader.
* **Partial failure.** Every read, write, seek and close can fail, some after the tables
  that describe the data have been built. *Correct* means: an image of an earlier call
  survives until there is a whole volume, the scratch file goes, and success means a file
  that was flushed and closed.
* **An order given twice.** The records of a tree are sorted by code that compares encoded
  keys, and equal keys are looked for among neighbours only. *Correct* means: the
  comparison is a total order in which only equal keys compare as equal.

The hazards, each at its line with the properties that guard it, are in `PROJECT.json`.

## 2. Modules

```
ChunkFormat ── SequentialEncode           EncodeChunks_proofs
     │               ▲ refines            │ EXTENDS
     └────────── EncodeChunks ◄───────────┘

VolumePlan                                ScanTree ── refines ──► Archive
     │ EXTENDS                                 └── ScanTree_proofs
     └── WriteVolume ◄── WriteVolume_proofs

GptLayout                                 ReadXattrs
     └── FrameImage ◄── FrameImage_proofs      └── CreateImage ◄── CreateImage_proofs
                             │
                        SequenceFacts     KeyOrder ◄── KeyOrder_proofs
                             │
          BTree ◄────── BTree_proofs
```
Each `MC*` module instantiates one of them for TLC; the `.cfg` files are the runs.

### Chunk pipeline: `ChunkFormat`, `EncodeChunks`, `SequentialEncode`
`ChunkFormat` holds the region's geometry and what the encoding does to one chunk: its
length, the type of its run (zero, raw, zlib or raw as the fallback), the length of its
payload. A chunk's content is a number: 0 for all-zero bytes, otherwise the length zlib
would make of it. A payload is a sequence of cells that name their chunk.

`EncodeChunks` has one action per point at which a goroutine can be interrupted: `ReadChunk`
(read, zero test, CRC), `Dispatch`, `TakeWorkerError` and `SeeDone` (the four arms of the
producer's `select`), `CloseJobs`, `Return`; `WorkerTake`, `WorkerSend`, `WorkerFail`,
`WorkerExit`; `CloseResults`; `DrainReceive`, `DrainWrite`, `DrainWriteFails`, `DrainPause`,
`DrainExit`. Channels are sequences with the capacities of the code; a closed one is a
Boolean. `errCh` is a count, since only a zlib failure goes through it. `dst` is what
`writeBytes` accepted; the bytes of a write that failed halfway are not kept, since the call
then reports an error and its output is of no use.

`SequentialEncode` is the promise: a loop that encodes one chunk at a time, in order, and
either succeeds with everything or fails. Its variables are the visible ones of the pool, so
`ImplementsSequential` is an instance without substitution. It promises only what may happen;
that the call ends is `Returns`, a property of the pool itself.

### Volume plan: `VolumePlan`
`BuildPlan` as a sequence of steps, `CheckBlockSize`, `SizeTrees`, `SizeFile`, `GrowBitmap`
(one iteration of the fixed point), `Settle`, `PlaceFile`, `MarkBitmap`, with refusals as the
code has them. `Word` stands for 2^32: the arithmetic is modulo `Word` exactly where the code
uses `uint32`, and unbounded where it uses `uint64`.

### Volume writer: `WriteVolume`
Reuses the planner's actions and puts `WriteVolume` around them: default time, tagging of
entries with attributes, first packing, plan, repacking with the real extents, padding, and
each write with its byte offset. The disk is a function from sectors to the name of what was
last written there. `streamFileAt` is an action for each thing it asks of the file system:
`OpenFile`, `CopyFile` (one read of `io.CopyN`, of at most `ReadMax` bytes and never beyond the
planned size, with the write of what it got), `ProbeFile` (one byte more); `SkipFile` is a file
whose extent is empty. `FileChanges` is the environment: a file may grow or shrink at any time,
between two reads of the open one as well. `streamed` is a history: for each file whose turn has
come, the sizes it has had from its turn to its end. The two packings share one `treeSize`: that
they have the same size is assumed, since a record's length does not depend on its extents.

### B-tree builder: `BTree`
Records are chosen with all combinations of key and data sizes, then packed into leaves one at
a time, indexed level by level, given map nodes until the map covers itself, numbered, and
emitted node by node; `Pad` is `PadToBlocks`. Keys are numbers with a size of their own.

### Partition map and framing: `GptLayout`, `FrameImage`
`GptLayout` is geometry only, operators over the length of the volume. `FrameImage` is `Write`
for one or many regions: checks the regions, encodes each with one table, then XML, koly and
flush. It takes one pass over the chunks where `EncodeChunks` shows that the pool is such a
pass. A cell of the output names what it holds; CRCs are the sequence of what was summed.

### Source scan: `ScanTree`
The folder is a set of paths with a kind each, and `SourceChanges` makes, removes or replaces
one below the folder at any step. `ReadDir`, `Visit`, `VisitOther`, `LeaveDir` are the
recursion of `walkDir` with its stack made explicit; `Collect` is an iteration of the second
pass; `Backfill`, `RootInfo` and `BuildCatalog` finish. Every step that asks the file system
may fail. `Nfd` is `NewName`: it can merge names and refuse long ones.

`Archive` is the promise: a folder that may change, a status, and a set of objects that is
archived in one step. The archive may not be any set: it holds only objects that were there,
all that were there from beginning to end (except what is neither file, folder nor link),
each with the folders it is in, and the number of each follows from its place in lexical
order. `ScanTree` implements it under a substitution, `INSTANCE Archive WITH folder <- tree,
status <- ..., archive <- ...`: the catalog's records are read back into paths, numbers and
places of the data (`Archived`), and every step before the catalog is built is a change of
the folder or a stutter.

### `DMG.Create` and the xattr reader: `CreateImage`, `ReadXattrs`
`ReadXattrs` has one action per system call, so that another program may change the
attributes between any two of them (`AttrChanges`): `Probe` asks for the size, `Read` reads
into the buffer, `ReadTooShort` is ERANGE, `Grow` asks again and grows the buffer, `CallFails`
is any other error. `listXattrNames` and `getXattrValue` are one loop, called for `List` or
for a name. A value is its length, and `ever` and `kept` remember what the object had at some
time and all the time.

`CreateImage` extends it with the steps of `Create` in the code's order (`After`), each of
which may fail and lead to the deferred calls, which are actions of their own and run in
reverse: `CloseOut` (whose error is reported if there is none yet) and `RemoveScratch` (whose
errors are dropped). `disk` says what each of three files is: one of the user's, the output,
the scratch file; the last two may lie in the folder that is archived. The walk, the volume
and the framing are one or two steps here and have modules of their own.

### Order of the keys: `KeyOrder`
`compareCatalogKeys`, `compareAttrKeys` and `HFSCompare` as operators on keys of any length.
It has no state, and its theorems are proved instead of run: code units and identifiers have
16 and 32 bits as in the code. `ScanTree` and `CreateImage` use its result, that equal keys
are refused wherever they come from.

### Facts about sequences: `SequenceFacts`
Not a model: the lemmas on induction, partial sums and flattened sequences that the proofs
about `FrameImage`, `BTree` and `ScanTree` share.

## 3. Runs

| Run | Shows | States |
|---|---|---|
| `encode` | 3 workers, 5 chunks, every failure possible: no send on a closed channel, no goroutine left, outcome is the truth, nothing after the return, runs tile region and fork, a reader gets the source back, and the pool refines the sequential loop; the inductive invariant `Ind` holds | 502k |
| `encode_returns` | 6 chunks and one worker, so that all channels fill up: the call returns | 151k |
| `plan` | disjointness, bitmap, clump cap, least fixed point, free blocks, termination | 173k |
| `write` | every sector holds what the plan says, the catalog agrees, a file with bytes that was too short or too long all the time it was read is an error, neighbours stay intact | 237k |
| `btree` | a search finds every record, the leaf chain is sorted, the map is exactly the nodes in use, nodes are numbered without gaps and their items fit; the inductive invariant `BTreeInv` holds | 94k |
| `frame` | a reader of the finished file gets every sector; checksums; the partition map leads to the volume | 188k |
| `scan` | the folder changes once at any step: the scan implements `Archive`, the records lead to every object and back, counters agree, equal names are refused before the catalog is built | 1.3M |
| `create` | every step may fail, attributes change while they are read: what is archived was there and what stayed is archived, the old image survives until there is a whole volume, success is a whole image, the scratch file goes, the call returns | 2.1M |

Four further runs end in a violation; they are the findings of section 6.

**Bounds, and why they are enough.**
* Pool: 5 chunks with 3 workers let results overtake each other in every order; 6 chunks
  with one worker exceed what `jobs` (capacity 2), `results` (2), the worker and the drain can
  hold while the drain is busy, so that the producer blocks. Each kind of failure happens at
  most as often as the goroutines allow. The last chunk is shorter than the others, except in
  `encode_memory`. Workers are interchangeable, and symmetry is used only where no liveness is
  checked. The theorems hold for any numbers, and for the uncompressed mode too.
* Plan: block sizes, sizes and `Word` are scaled down (a block of 8 bytes has a bitmap bit for
  64 blocks; `Word` is 256), since nothing in the code depends on their magnitude. Tree sizes
  and file sizes lie around a multiple of what one bitmap block covers and around `Word`
  blocks, so that the fixed point needs several iterations (a bitmap of five blocks is
  reached) and each 32-bit limit is met from both sides.
* Write: offsets exceed `Word` bytes. Files are 0, 513 or 5000 bytes, shorter and longer than
  one read of 4096, and change twice: enough for one to grow before the copy and be cut back
  between the copy and the probe. A longer series of changes shows the copy nothing new, since
  each read sees only the length at its own time.
* B-tree: nodes of 12 cells hold one to three records, so five records make three levels;
  a map bit is a cell, so map nodes appear.
* Frame: volumes shorter than, equal to and longer than a chunk, with and without a map; the
  MBR's limit is 10 sectors, so that it saturates for the longer ones. `Word` is above a chunk's
  bytes, so that the buffer requested does not wrap.
* Scan: three objects in two levels hold every relation of two siblings, parent and child;
  one change at any step is a race with each read.
* Create: two attributes with values of 0, 1 and 3 bytes, 3 being more than a record may
  hold; the HFS+ names are distinct, equal or too long. Two attempts stand for eight and two
  changes let the last attempt fail by changes alone. The image takes two writes, so that one
  may fail after another, and what has reached the file lags behind what was written. The
  output is there or not, and it lies with the scratch file in the source folder or not.

**Fairness.** `Spec` of `EncodeChunks` has weak fairness of each goroutine as a whole
(`Producer`, each `Worker`, `CloseResults`, `Drain`): the Go scheduler runs every runnable
goroutine eventually, and none of these actions needs more than that, because an action that
is possible for a goroutine stays possible until it takes one (only it takes from its end of
the channel, or another worker took the job and the worker is again ready to take the next).
`select` is not assumed to be fair between its arms. `PlanSpec` has weak fairness of
`PlanStep` and `CreateSpec` of `CreateStep`: sequential code runs on, and system calls return.
`OthersChange` is not fair, since other programs need not do anything. The other specifications
state no fairness and no liveness.

## 4. Proofs

| Module | Theorems | Argument |
|---|---|---|
| `EncodeChunks_proofs` | `IndCorrect`, `NoSendOnClosedCorrect`, `NoGoroutineLeftCorrect`, `SuccessIsCompleteCorrect`, `ErrorIsRealCorrect`, `RunsTileCorrect`, `ReadBackCorrect`, `QuietAfterReturnCorrect`, `Refinement` | the invariant below, one lemma per part |
| `WriteVolume_proofs` | `PlanInvCorrect`, `BitmapFitsCorrect`, `ForksDisjointCorrect`, `ExtentsHoldFilesCorrect`, `ClumpCapCorrect`, `LeastBitmapCorrect`, `FreeIsTailCorrect` | `PlanInv`, the arithmetic of rounding up, counting blocks |
| | `WriteInvCorrect`, `DiskHoldsPlanCorrect`, `CatalogAgreesCorrect`, `StoredWholeCorrect`, `FilesStayInsideCorrect` | `WriteInv`, on top of `PlanInv` and its theorems |
| `CreateImage_proofs` | `CreateInvCorrect`, `AttrsFaithfulCorrect`, `OldImageSurvivesCorrect`, `SuccessIsWholeCorrect`, `ScratchGoneCorrect` | `XattrInv` for the reader, `CreateInv` for the call around it |
| `KeyOrder_proofs` | `CatalogOrderTotal`, `AttrOrderTotal`, `CatalogRefusesEqual`, `AttrsRefuseEqual`, `SortedOnce` | the first place where two names differ; a least counterexample |
| `FrameImage_proofs` | `GeometryCorrect`, `StreamAgrees` | linear arithmetic, for every volume length; the ends of the regions |
| | `FrameInvCorrect`, `ReadsBackCorrect`, `BufferHoldsRunsCorrect`, `ChecksumsAgreeCorrect`, `MapAcceptedCorrect`, `MapLeadsToVolumeCorrect` | `FrameInv`, sums of lengths, flattened sequences |
| `BTree_proofs` | `BTreeInvCorrect`, `BTreeTypeCorrect`, `NodesTileCorrect`, `MapIsExactCorrect`, `ChainIsSortedCorrect`, `SearchFindsCorrect` | `BTreeInv`, and induction over levels, nodes and items |
| `ScanTree_proofs` | `ScanInvCorrect`, `CatalogAcceptsCorrect`, `CountsAgreeCorrect`, `PathsResolveCorrect` | `ScanInv`, the order of a walk with an explicit stack, counting |
| | `ImplementsArchiveCorrect` | the refinement of `Archive`: ranks in the order of the names |
| `SequenceFacts` | lemmas only | a least counterexample, from `WFMin` |

*Pool.* None of the safety properties is inductive. That nobody sends on a closed channel
needs who has exited and which channel is closed (`LifeInv`); that a success is complete needs
where every dispatched chunk is (`FlowInv`), that a failure leaves evidence until the call
returns (`FaultInv`), how far the loop is (`LoopInv`) and what the CRC has seen (`SumInv`);
that the file reads back needs that jobs and results describe their chunk (`ShapeInv`) and that
runs never point beyond what is written (`RunsInv`). Their conjunction with `TypeOK`,
`RunsTile` and `ReadBack` is `Ind`, checked by `encode` and proved inductive, each part in a
lemma of its own. `Refinement` then shows that each step of the pool is a step of the
sequential loop or a stutter. Assumptions: `ChunkFormatAssumption` (the chunks cover the
region; all sizes positive) and `EncodeAssumption` (a finite, non-empty set of workers).

*Plan.* `PlanInv` follows the program counter: what is sized so far (`ForksInv`, `FilesInv`),
what the sum is (`SumsInv`), that the current bitmap is never larger than the least one that
fits (`TotalInv`, which makes the fixed point the least), and that placements follow each other
and every mark is inside the bitmap (`PlaceInv`). `BitmapFits` has two halves, a bit for every
block and a fork that holds the bits; the first needs that the rounding did not wrap, and where
it does the marks are outside (`BitmapWhole`). `FreeIsTail` compares what the bitmap counts
with the cursor, and says nothing of the next allocation of a volume without a free block. It
speaks of a number of blocks: each used block belongs to one file or fork (`ForksDisjoint`), so
the set of used blocks is a beginning of the volume and its last block, and its cardinality
gives the free ones. Assumptions: `PlanAssumption` only; `Word` is any positive number.

*Write.* `WriteInv` adds to `PlanInv` the types, what is known at each stage (`StagesInv`: in
particular that the catalog on its way to the disk is the second packing), the entries and
their tags (`EntriesInv`), what `FilesStayInside` says, what the files have been while they
were streamed and how far the open one is (`StreamedInv`: a copy that reached its planned end
saw a length as long as that, a probe that found nothing one no longer) and what is on the disk
(`DiskInv`: the parts written so far are in their places and nothing else is anywhere). A write
lands in a slot of its own because the plan's pieces are apart (`PartsApart`, from
`ForksDisjoint`), so it disturbs no other part (`PartWritten`). Nothing is assumed of the
files: they change at any time. Assumptions: `PlanAssumption` and `WriteAssumption`; the
caller's block sizes are any numbers, of which the code accepts the powers of two from 512 on.
`DiskHoldsPlan` and `CatalogAgrees` are implications whose hypothesis `HeadersFit` (a block
holds boot sectors and a header) is the one `write_small_blocks` shows to be needed.

*Create.* `AttrsFaithful` is not inductive: that no attribute that stayed is lost needs that
each is in the result, still to be read, or being read (`LeftInv`), and that the loop gives up
only for a reason needs that each attempt was spent on a change (`LoopInv`). `CreateInv` adds
which files exist and are open (`DiskInv`) and what is known when a step is reached
(`StageInv`). Assumptions: `XattrAssumption` and `CreateAssumption`; any number of attributes,
attempts, changes and writes.

*Key order.* Two names that differ do so at a first place (`WFMin`), which makes the order
antisymmetric and transitive without induction. In sorted keys two equal ones with others
between them force all of these to be equal, hence the neighbours (`CatalogRefusesEqual`).
`SortedOnce` says that two sorted arrangements of keys that are all different are the same:
it takes the first place where they differ. So it does not matter that `sort.Slice` is not
stable, nor in which order the records come. The rest of the record follows its key.

*Frame.* What is said of the finished file is about the past of the loop, so `FrameInv` keeps
it: the regions are those of a map or of a bare volume (`InputInv`), tables follow each other
and the regions (`PlaceInv`), each run lies where the reader will look and holds the sectors it
covers (`RunsInv`), both checksums are those of the bodies of the runs so far (`SumInv`), and
the output is the data fork, then the tables, then the trailer (`OutInv`). `RunsInv` is about
the output *and* the buffer in front of it, since a run is written long before it is flushed.
`ReadsBackCorrect` and `ChecksumsAgreeCorrect` then follow the reader through the tables, whose
lengths sum up to the disk (`PartialSums`), and compare two ways of adding the same CRCs, by
region and over the disk (`FlattenAppend`). TLC evaluated `PlaceInv`, `RunsInv`, `SumInv` and
`OutInv` on the states of `frame`; `FrameTypes` and `InputInv` quantify over infinite sets.
Assumptions: `GptAssumption` and `FrameAssumption`. `ReadsBackCorrect` has no hypothesis.
`BufferHoldsRunsCorrect`, that a reader can decode every run of a table in the buffer the table
requests, has one, `ChunksFit`: the bytes of a chunk, rounded up, fit the 32 bits that
`writer.go:152` cuts them to. With chunks of 2^23 sectors or more the buffer requested is too
small, or 0. `StreamAgrees` ties the stream to the regions that are given with it: its length
is their sum (`LensEnds`), its three pieces are whole, and each region starts where the headers
say.

*B-tree.* `BTreeInv` says of the closed levels that each is cut from the keys below it without
a gap, in order, no node over its size (`LevelsInv`), and of the level being packed that the
same holds up to the current item (`PackInv`). That index levels get shorter, and therefore end
in a root, is part of it: `BTreeTypeOK` bounds the height by the number of records.
`CountInv` says that the map is no larger than it must be, `NumberInv` that map nodes and
levels are numbered one after the other, `ImageInv` what each node of the file holds so far.
`MapIsExactCorrect` sums the coverage of the chained map nodes. `SearchFindsCorrect` needs
induction over the height: on each level exactly one node covers a record, the covering node
of the level below lies under it, and the search, which takes the last entry that is not
greater, goes from one to the other. The theorems hold for any number and size of records, any
node size and any height. Assumptions: `BTreeAssumption` (a node has room for the header's
records, and the data of a record is no shorter than a pointer to a node).

*Scan.* Almost nothing said of the result is inductive, since the folder changes under the
walk. `ScanInv` has these parts, each in a lemma of its own:
* `FolderInv`: the folder stays a tree, and what stayed in it stayed with the folders it is in;
* `StageInv`: how far the call is; the second pass has no more entries than the first found;
* `StackInv`: each directory on the stack is in the one before it, below a name that is no
  longer to be visited there, and the names left are sorted;
* `OrderInv`: what was found is in lexical order and precedes every name still to be visited;
* `NumberInv`: numbers count up in that order, and a parent is a directory found earlier;
* `SeenInv`: each object found was there at some time, and each that stayed has been found
  or is *ahead*, below a name some frame of the stack still has;
* `EntriesInv`, `CountInv`, `FilesInv`, `RecordsInv`: an entry is its object under the new
  name, no two entries share parent and name, the counters count the entries made so far, the
  files follow the entries, and the records are two for each entry.

`CatalogAccepts`, a part of the invariant too, then holds because no two keys are equal:
threads differ in the number, forward records in parent and name, and no name is `NoName`,
which threads have. `CountsAgreeCorrect` compares counters kept in maps with sets of
children and the totals with the number of entries (`TotalsAgree`). `PathsResolveCorrect` is
an induction over the length of a path: the name a reader asks for is that of one entry
below the folder it has reached (`FindIs`, `ReachedFurther`).

`ImplementsArchiveCorrect` shows that the first state is one of `Archive`, that a step of
another program is `Change` or, if the source is no directory, a stutter, that a step into
`done` is `Take`, and that every other step is `Refuse` or a stutter. That the archive may be
held (`HeldIs`) is `SeenInv` with nothing left ahead, and `NumberInv` for the folders; that it
is `Numbered` needs the position of an object in `pending` to be its rank among all objects
(`RankIs`), which follows from `OrderInv` once `Before`, the order of `Archive`, is shown to be
the order of the walk (`BeforeIs`), and likewise for the data (`DataRankIs`). TLC evaluated
`ScanInv` on the states of `scan` before it was proved. Assumption: `ScanAssumption`; there
are finitely many names, as a name has at most 255 bytes. Any depth, number of objects and
of changes, and any mapping of names, merging ones included.

*Induction.* The library's induction theorems have an operator as a parameter and cannot be
instantiated here. `SequenceFacts` gets by with sets: a set of numbers that has an element has
a least one (`LeastElement`, from `WFMin`), so a set that holds 0, and with each number the
next, holds all (`Induction`); a recursive function is the limit of its beginnings
(`Recursion`). Sums and flattened sequences are handled with these.

*Only model-checked.* Liveness (`Returns`, `PlanEnds`, `CreateReturns`), which is out of the
prover's reach. Every other property of a passing run is stated by a theorem;
`ImplementsSequential` is `Refinement`. *Only proved:* the order of the keys, that an
unstable sort leaves no trace, and the size of the buffer a table requests.

## 5. Not modelled

* Bytes: record, header, koly and plist encodings, GUIDs, CRC values, Unicode tables. A
  field is the value it holds. Tests of the repository compare these bytes.
* Argument checks that reject a call before anything happens: `gpt.New`'s ragged length,
  `Write`'s empty source, node sizes too small for `BuildTree`, invalid modes.
* Killing the process. Nothing is persisted for a later call and nothing is recovered: an
  interrupted call leaves its scratch file and a partial output, and no code looks at either.
* Whose attributes are read: `walk` asks for those of files and folders and never for those of
  the source folder itself or of a symbolic link, though `xattrs_unix.go:16` says that symlinks
  report theirs. `CreateImage` has one file.
* A platform without extended attributes, where `ReadXattrs` returns nothing.
* The example command `mkdmg`, which parses flags and calls `Create`.
* An object replaced by another of the same length between scan and copy: the code cannot
  see it and says nothing about it.
* A directory replaced by a symbolic link to another directory between `Lstat` and `ReadDir`:
  in `ScanTree` links lead to no directory, except for the source folder itself.

## 6. Findings

| Run | Kind | What |
|---|---|---|
| `scan_link` | bug | a source given by a symbolic link yields an empty image and no error (`dmg.go:175` follows it, `dmg.go:526` does not) |
| `write_empty_grew` | bug | a file that was empty when scanned and grew is stored as empty without an error (`builder.go:181`) |
| `write_small_blocks` | bug | with 512- or 1024-byte blocks the header at byte 1024 is not in block 0, and what the plan put there is written later and over it: with 512 the first block of the catalog (`builder.go:168`), with 1024 the bitmap (`builder.go:163`); with 512 the alternate header lies over the end of the last file of a full volume (`builder.go:150`) |
| `encode_memory` | comment | the reorder buffer is not bounded by the worker count (`writer.go:343`) |

Noticed while modelling, without a run: `totalBlocks+7` wraps for the last seven totals that
fit 32 bits, and the bitmap is then empty (`allocation.go:19`; the state `panic` of
`VolumePlan`, which `PlanInv` confines to these totals); the clump size of a fork of 4 GiB
wraps (`layout.go:275`); `NextAllocation` of a full volume is 0, as `layout.go:248` says, where
`layout.go:32` says `TotalBlocks-1`; `DecompressBufRequested` is in sectors, as
`dmg_test.go:1024` expects, where `blkx.go:64` says bytes, and it wraps for chunks of 2^23
sectors, which `ChunkSectors` of `dmg.go:112` admits (`writer.go:152`); a file that grew before
its turn and is cut back between the copy and the probe is stored as its first bytes without an
error, where `builder.go:221` wants one (`StoredWhole` says what remains true, and `write` goes
through this trace); `IsASCII` refuses 0x7F, which its comment includes (`unicode.go:54`).

## 7. Plan

Written in this order, most important first: chunk pipeline and its proofs; volume plan and its
proofs; volume writer; B-tree; partition map and framing; source scan; `Create` with the xattr
reader and their proofs; the abstract archive; key order and its proofs; proofs of the volume
writer, of the framing, of the B-tree and of the source scan. What is left:

1. One instance from folder to volume: the entries of `ScanTree` as the input of `WriteVolume`,
   so that `Archive` is implemented by what is on the disk.
2. `WriteVolume` with `BTree` inside, so that the catalog's sectors are those of a tree that a
   search reads, and not a name.
