---------------------------- MODULE FrameImage ------------------------------
(* The second half of DMG.Create and Write of internal/udif: the finished  *)
(* volume, framed or not, is streamed chunk by chunk into the data fork    *)
(* with one table for each region, and the tables and the trailer follow.  *)
(* The output is a sequence of cells, the unit of offsets and lengths.     *)
(* EncodeChunks and SequentialEncode model the encoding of one region by   *)
(* concurrent workers; here a chunk is a step.  A checksum is the sequence *)
(* of what it has been computed from.                                      *)
EXTENDS GptLayout, FiniteSets, SequencesExt

CONSTANTS
    VolumeSectors,      \* the sizes the volume may have
    ChunkSectors,       \* sectors of a chunk
    PayloadLens,        \* the lengths an encoded chunk may have
    SectorBytes,        \* 512
    Word                \* 2^32

ASSUME FrameAssumption ==
    /\ VolumeSectors \subseteq Nat \ {0}
    /\ ChunkSectors \in Nat \ {0}
    /\ PayloadLens \subseteq Nat \ {0}
    /\ SectorBytes \in Nat \ {0} /\ Word \in Nat \ {0}

VARIABLES
    pc,
    framed, sectors, source,    \* the disk to write
    regions,                    \* the caller's regions, <<>> without a map
    first, at, runs,            \* the region being written and how far it is
    tables,                     \* the tables of the regions that are finished
    dataForkLen,
    tableCRC, dataForkCRC,
    buffer, file                \* bytes in the writer's buffer, and in the file

vars == <<pc, framed, sectors, source, regions, first, at, runs, tables,
          dataForkLen, tableCRC, dataForkCRC, buffer, file>>

Vol == Content("volume", 1)

\* The disk is the framed volume, or the volume alone.  Besides the regions of the
\* map, Write is given ones that do not add up, which it refuses.
FrameInit ==
    /\ pc = "open"
    /\ framed \in BOOLEAN
    /\ \E v \in VolumeSectors, volume \in UNION {[0 .. v - 1 -> {Zero, Vol}] : v \in VolumeSectors} :
          /\ DOMAIN volume = 0 .. v - 1
          /\ sectors = IF framed THEN TotalSectors(v) ELSE v
          /\ source = IF framed THEN Framed(v, volume) ELSE volume
          /\ IF framed
             THEN \E n \in {0, v - 1, v} : regions = [Regions(v) EXCEPT ![5].sectors = n]
             ELSE regions = <<>>
    /\ first = 0 /\ at = 0 /\ runs = <<>> /\ tables = <<>>
    /\ dataForkLen = 0 /\ tableCRC = <<>> /\ dataForkCRC = <<>>
    /\ buffer = <<>> /\ file = <<>>

input == <<framed, sectors, source, regions>>

----------------------------------------------------------------------------
(* The output.                                                             *)

Cell(kind, body, n) == [kind |-> kind, body |-> body, n |-> n]
Cells(kind, body, len) == [n \in 1 .. len |-> Cell(kind, body, n)]

\* A write stays in the buffer, or empties it into the file, or fails.
Put(cells, next) ==
    \/ buffer' = buffer \o cells /\ pc' = next /\ UNCHANGED file
    \/ file' = file \o buffer \o cells /\ buffer' = <<>> /\ pc' = next
    \/ pc' = "failed" /\ UNCHANGED <<buffer, file>>

Open ==
    /\ pc = "open"
    /\ pc' \in {"specs", "failed"}
    /\ UNCHANGED <<input, first, at, runs, tables, dataForkLen, tableCRC, dataForkCRC,
                   buffer, file>>

----------------------------------------------------------------------------
(* blkxSpecs.                                                              *)

SpecLens == IF regions = <<>> THEN <<sectors>>
            ELSE [i \in DOMAIN regions |-> regions[i].sectors]
SpecCount == Len(SpecLens)
\* Where the regions end.
Ends(lens) == LET end[i \in 0 .. Len(lens)] == IF i = 0 THEN 0 ELSE end[i - 1] + lens[i] IN end

SpecsAccepted ==
    \/ regions = <<>>
    \/ (\A i \in DOMAIN regions : regions[i].sectors > 0) /\ Ends(SpecLens)[SpecCount] = sectors

CheckSpecs ==
    /\ pc = "specs"
    /\ \/ SpecsAccepted /\ pc' = "chunks"
       \/ ~SpecsAccepted /\ pc' = "failed"
    /\ UNCHANGED <<input, first, at, runs, tables, dataForkLen, tableCRC, dataForkCRC,
                   buffer, file>>

----------------------------------------------------------------------------
(* One region after the other.                                             *)

ThisRegion == Len(tables) + 1
RegionLen == SpecLens[ThisRegion]
ChunkLen == IF RegionLen - at < ChunkSectors THEN RegionLen - at ELSE ChunkSectors
\* The next sectors of the one pass over the source.
Chunk == [i \in 1 .. ChunkLen |-> source[first + at + i - 1]]

\* Mutant: the offset of a run is counted from its own region.
RunOffset_InRegion == IF runs = <<>> THEN 0 ELSE runs[Len(runs)].offset + runs[Len(runs)].length
RunOffset == dataForkLen
RunStart == at

BlockRun(type, count, length) ==
    [type |-> type, start |-> RunStart, count |-> count, offset |-> RunOffset,
     length |-> length]

\* A chunk of zeros takes no bytes and is in no checksum.
EncodeZeros ==
    /\ pc = "chunks" /\ ThisRegion <= SpecCount /\ at < RegionLen
    /\ \A i \in DOMAIN Chunk : Chunk[i] = Zero
    /\ runs' = Append(runs, BlockRun("zero", ChunkLen, 0))
    /\ at' = at + ChunkLen
    /\ UNCHANGED <<input, pc, first, tables, dataForkLen, tableCRC, dataForkCRC, buffer, file>>

EncodeData(len) ==
    /\ pc = "chunks" /\ ThisRegion <= SpecCount /\ at < RegionLen
    /\ \E i \in DOMAIN Chunk : Chunk[i] # Zero
    /\ Put(Cells("data", Chunk, len), pc)
    /\ IF pc' = "failed"
       THEN UNCHANGED <<runs, at, dataForkLen, tableCRC, dataForkCRC>>
       ELSE /\ runs' = Append(runs, BlockRun("data", ChunkLen, len))
            /\ at' = at + ChunkLen
            /\ dataForkLen' = dataForkLen + len
            /\ tableCRC' = tableCRC \o Chunk /\ dataForkCRC' = dataForkCRC \o Chunk
    /\ UNCHANGED <<input, first, tables>>

\* The source cannot be read, or a chunk cannot be encoded.
ChunkFails ==
    /\ pc = "chunks" /\ ThisRegion <= SpecCount /\ at < RegionLen
    /\ pc' = "failed"
    /\ UNCHANGED <<input, first, at, runs, tables, dataForkLen, tableCRC, dataForkCRC,
                   buffer, file>>

\* In sectors, from a byte count that has been cut to a uint32.
BufferRequested ==
    LET chunkBytes == ChunkSectors * SectorBytes
        regionBytes == RegionLen * SectorBytes
        largest == IF chunkBytes > regionBytes THEN regionBytes % Word ELSE chunkBytes % Word
    IN  ((largest + SectorBytes - 1) % Word) \div SectorBytes

\* Mutant: the checksum goes on from the table before.
NextCRC_Runs == tableCRC
NextCRC == <<>>
NextAt == 0

EndRegion ==
    /\ pc = "chunks" /\ ThisRegion <= SpecCount /\ at = RegionLen
    /\ tables' = Append(tables,
          [first |-> first, count |-> RegionLen, crc |-> tableCRC,
           descriptor |-> IF regions = <<>> THEN -2 ELSE ThisRegion - 1,
           bufferRequested |-> BufferRequested,
           runs |-> Append(runs, BlockRun("terminator", 0, 0))])
    /\ first' = first + RegionLen /\ at' = NextAt /\ runs' = <<>> /\ tableCRC' = NextCRC
    /\ UNCHANGED <<input, pc, dataForkLen, dataForkCRC, buffer, file>>

----------------------------------------------------------------------------
(* The property list and the trailer, each a cell here.                    *)

WriteXml ==
    /\ pc = "chunks" /\ ThisRegion > SpecCount
    /\ Put(<<Cell("xml", tables, 1)>>, "koly")
    /\ UNCHANGED <<input, first, at, runs, tables, dataForkLen, tableCRC, dataForkCRC>>

Master == [i \in DOMAIN tables |-> tables[i].crc]

Koly ==
    [dataForkLen |-> dataForkLen, xmlOffset |-> dataForkLen, xmlLen |-> 1,
     dataCRC |-> dataForkCRC, master |-> Master, sectors |-> sectors,
     device |-> regions # <<>>]

WriteKoly ==
    /\ pc = "koly"
    /\ Put(<<Cell("koly", Koly, 1)>>, "flush")
    /\ UNCHANGED <<input, first, at, runs, tables, dataForkLen, tableCRC, dataForkCRC>>

Flushed == file \o buffer

Flush ==
    /\ pc = "flush"
    /\ \/ file' = Flushed /\ buffer' = <<>> /\ pc' = "close"
       \/ pc' = "failed" /\ UNCHANGED <<buffer, file>>
    /\ UNCHANGED <<input, first, at, runs, tables, dataForkLen, tableCRC, dataForkCRC>>

\* The deferred close of Create turns its own failure into the result.
Close ==
    /\ pc = "close"
    /\ pc' \in {"done", "failed"}
    /\ UNCHANGED <<input, first, at, runs, tables, dataForkLen, tableCRC, dataForkCRC,
                   buffer, file>>

FrameNext ==
    \/ Open \/ CheckSpecs \/ EncodeZeros \/ (\E len \in PayloadLens : EncodeData(len))
    \/ ChunkFails \/ EndRegion \/ WriteXml \/ WriteKoly \/ Flush \/ Close

FrameOver == pc \in {"done", "failed"} /\ UNCHANGED vars

FrameSpec == FrameInit /\ [][FrameNext \/ FrameOver]_vars

----------------------------------------------------------------------------
(* Properties.  A reader has the file only: the trailer in its last cell,  *)
(* the tables where the trailer says, the runs where the tables say.       *)

Trailer == file[Len(file)].body
XmlTables == file[Trailer.xmlOffset + 1].body

\* The bytes of a run are one whole payload, of as many sectors as the run says.
Decodes(r) ==
    /\ r.offset >= 0 /\ r.offset + r.length <= Trailer.dataForkLen
    /\ \A n \in 1 .. r.length :
          file[r.offset + n] = Cell("data", file[r.offset + 1].body, n)
    /\ r.count = Len(file[r.offset + 1].body)

\* Sector s of the disk as the tables give it.
SectorFrom(t, s) ==
    \E i \in DOMAIN t.runs :
        LET r == t.runs[i] IN
        /\ s - t.first \in r.start .. r.start + r.count - 1
        /\ IF r.type = "zero" THEN source[s] = Zero
           ELSE Decodes(r) /\ file[r.offset + 1].body[s - t.first - r.start + 1] = source[s]

\* The runs of all tables share one data fork, but count their sectors each from
\* its own region.  A reader of a finished image finds the trailer and the tables,
\* exactly one table for each sector, and in it what the source held there.
ReadsBack ==
    pc = "done" =>
        /\ file # <<>> /\ file[Len(file)].kind = "koly"
        /\ Len(file) = Trailer.xmlOffset + Trailer.xmlLen + 1
        /\ file[Trailer.xmlOffset + 1].kind = "xml"
        /\ Trailer.sectors = sectors
        /\ \A s \in 0 .. sectors - 1 :
              \E i \in DOMAIN XmlTables :
                 LET t == XmlTables[i] IN
                 /\ s \in t.first .. t.first + t.count - 1
                 /\ \A j \in DOMAIN XmlTables \ {i} :
                       ~(s \in XmlTables[j].first .. XmlTables[j].first + XmlTables[j].count - 1)
                 /\ SectorFrom(t, s)

\* A reader allocates the buffer a table requests once and decodes each run into it.
BufferHoldsRuns ==
    pc = "done" =>
        \A i \in DOMAIN XmlTables :
            \A j \in DOMAIN XmlTables[i].runs :
                XmlTables[i].runs[j].count <= XmlTables[i].bufferRequested

\* Each checksum is the one a reader computes from the runs it can read: a table's
\* over its own region without the runs of zeros, the trailer's over all of them,
\* and the master over the tables' in their order.
RunSum(rs) ==
    FlattenSeq([i \in DOMAIN rs |->
        IF rs[i].type = "data" THEN file[rs[i].offset + 1].body ELSE <<>>])
Sums(ts) == [i \in DOMAIN ts |-> ts[i].crc]
ChecksumsAgree ==
    pc = "done" =>
        /\ \A i \in DOMAIN XmlTables : XmlTables[i].crc = RunSum(XmlTables[i].runs)
        /\ Trailer.dataCRC = FlattenSeq(Sums(XmlTables))
        /\ Trailer.master = Sums(XmlTables)

\* The regions of a partition map pass the checks of the writer, which adds them up
\* against the length of the stream that is put together from the same map.
MapAccepted ==
    pc = "specs" /\ framed
    /\ regions = Regions(sectors - PartitionStartLBA - BackupSectors) => SpecsAccepted

\* A parser that starts from the partition map arrives at the sectors the tables
\* are named for: the volume, both headers and both entry arrays.
MapLeadsToVolume ==
    pc = "done" /\ framed =>
        LET v == sectors - PartitionStartLBA - BackupSectors
            table(type) == XmlTables[CHOOSE i \in DOMAIN regions : regions[i].type = type]
        IN  /\ GeometryAgrees(v)
            /\ source[GptHeader("primary", v).my] = Content("primary", 0)
            /\ source[GptHeader("primary", v).alternate] = Content("backup", 0)
            /\ source[GptHeader("primary", v).entries] = Content("entries", 0)
            /\ source[GptHeader("backup", v).entries] = Content("entries", 0)
            /\ table("Apple_HFSX").first = Entry(v).first
            /\ table("Apple_HFSX").count = Entry(v).last - Entry(v).first + 1
            /\ table("Backup GPT Table").first = GptHeader("backup", v).entries
            /\ table("Backup GPT Header").first = GptHeader("primary", v).alternate

----------------------------------------------------------------------------
(* The inductive invariant of FrameImage_proofs, in parts.  The output is  *)
(* the file with what is still in the buffer, Flushed.                     *)

\* The code cuts the bytes of a chunk to a uint32 and asks for less than a chunk
\* where that loses a bit.
ChunksFit == ChunkSectors * SectorBytes + SectorBytes - 1 < Word

Contents == [what : {"zero", "volume", "mbr", "primary", "entries", "backup"}, n : Nat]
Spans == {"MBR", "Primary GPT Header", "Primary GPT Table", "Apple_Free", "Apple_HFSX",
          "Backup GPT Table", "Backup GPT Header"}
Runs == [type : {"zero", "data", "terminator"}, start : Nat, count : Nat, offset : Nat,
         length : Nat]
Tables == [first : Nat, count : Nat, crc : Seq(Contents), descriptor : Int,
           bufferRequested : Nat, runs : Seq(Runs)]
Trailers == [dataForkLen : Nat, xmlOffset : Nat, xmlLen : {1}, dataCRC : Seq(Contents),
             master : Seq(Seq(Contents)), sectors : Nat, device : BOOLEAN]
OutCells ==
    [kind : {"data"}, body : Seq(Contents), n : Nat]
    \cup [kind : {"xml"}, body : Seq(Tables), n : {1}]
    \cup [kind : {"koly"}, body : Trailers, n : {1}]

FrameTypes ==
    /\ pc \in {"open", "specs", "chunks", "koly", "flush", "close", "done", "failed"}
    /\ framed \in BOOLEAN /\ sectors \in Nat /\ source \in [0 .. sectors - 1 -> Contents]
    /\ regions \in Seq([type : Spans, sectors : Nat])
    /\ first \in Nat /\ at \in Nat /\ dataForkLen \in Nat
    /\ runs \in Seq(Runs) /\ tables \in Seq(Tables)
    /\ tableCRC \in Seq(Contents) /\ dataForkCRC \in Seq(Contents)
    /\ buffer \in Seq(OutCells) /\ file \in Seq(OutCells)

\* The disk is the one the map describes, except for what the caller says of the volume.
VolumeLen == sectors - PartitionStartLBA - BackupSectors
InputInv ==
    IF framed
    THEN /\ VolumeLen \in Nat \ {0}
         /\ \E n \in Nat : regions = [Regions(VolumeLen) EXCEPT ![5].sectors = n]
         /\ \E volume : source = Framed(VolumeLen, volume)
    ELSE regions = <<>>

\* The tables follow the regions.
Finished == {"koly", "flush", "close", "done"}
PlaceInv ==
    /\ pc \in {"chunks"} \cup Finished => SpecsAccepted
    /\ Len(tables) <= SpecCount /\ first = Ends(SpecLens)[Len(tables)]
    /\ at <= IF ThisRegion <= SpecCount THEN RegionLen ELSE 0
    /\ pc \in Finished => Len(tables) = SpecCount
    /\ \A i \in DOMAIN tables :
          tables[i].first = Ends(SpecLens)[i - 1] /\ tables[i].count = SpecLens[i]

\* The sectors of a run of a region that starts at sector f, and where they are in
\* the first len cells of the output.
Body(disk, f, r) == [i \in 1 .. r.count |-> disk[f + r.start + i - 1]]
Holds(disk, out, len, f, r) ==
    /\ r.type = "terminator" => r.count = 0
    /\ r.type = "zero" => \A i \in 1 .. r.count : disk[f + r.start + i - 1] = Zero
    /\ r.type = "data" =>
          /\ r.length > 0 /\ r.offset + r.length <= len
          /\ \A n \in 1 .. r.length : out[r.offset + n] = Cell("data", Body(disk, f, r), n)
Covers(rs, len) ==
    \A s \in 0 .. len - 1 :
        \E i \in DOMAIN rs : s \in rs[i].start .. rs[i].start + rs[i].count - 1
RunsInv ==
    /\ Covers(runs, at)
    /\ \A i \in DOMAIN runs :
          /\ Holds(source, Flushed, dataForkLen, first, runs[i])
          /\ runs[i].count <= ChunkSectors /\ runs[i].start + runs[i].count <= at
    /\ \A i \in DOMAIN tables :
          /\ Covers(tables[i].runs, tables[i].count)
          /\ \A j \in DOMAIN tables[i].runs :
                /\ Holds(source, Flushed, dataForkLen, tables[i].first, tables[i].runs[j])
                /\ ChunksFit => tables[i].runs[j].count <= tables[i].bufferRequested

\* What the checksums have seen.
Bodies(disk, f, rs) ==
    [i \in DOMAIN rs |-> IF rs[i].type = "data" THEN Body(disk, f, rs[i]) ELSE <<>>]
SumInv ==
    /\ tableCRC = FlattenSeq(Bodies(source, first, runs))
    /\ \A i \in DOMAIN tables :
          tables[i].crc = FlattenSeq(Bodies(source, tables[i].first, tables[i].runs))
    /\ dataForkCRC = FlattenSeq(Sums(tables)) \o tableCRC
    /\ ThisRegion > SpecCount => tableCRC = <<>>

\* The output: the data fork, the tables, the trailer.
OutInv ==
    /\ pc \in {"open", "specs", "chunks"} => Len(Flushed) = dataForkLen
    /\ pc \in Finished => Flushed[dataForkLen + 1] = Cell("xml", tables, 1)
    /\ pc = "koly" => Len(Flushed) = dataForkLen + 1
    /\ pc \in Finished \ {"koly"} =>
          Len(Flushed) = dataForkLen + 2 /\ Flushed[dataForkLen + 2] = Cell("koly", Koly, 1)
    /\ pc \in {"close", "done"} => buffer = <<>>

FrameInv == FrameTypes /\ InputInv /\ PlaceInv /\ RunsInv /\ SumInv /\ OutInv
=============================================================================
