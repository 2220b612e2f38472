---------------------------- MODULE ChunkFormat ----------------------------
(* How one region is cut into chunks and how one chunk is encoded, as      *)
(* internal/udif/writer.go does it.  Lengths of the region and of a chunk  *)
(* are counted in sectors: srcLen, regionLen and chunkBytes are multiples  *)
(* of SectorSize.  Lengths of payloads and offsets are counted in bytes.   *)
(*                                                                         *)
(* The content of a chunk is abstracted to the one thing the encoder       *)
(* tells apart: the length zlib gives it, 0 standing for a chunk of zeros. *)
EXTENDS Integers

CONSTANTS
    RegionSectors,   \* length of the region
    ChunkSectors,    \* Options.ChunkSectors
    NumChunks,       \* chunks in the region, the last one possibly short
    SectorSize,      \* bytes of a sector
    BaseOffset,      \* length of the data fork before this region
    Zlib,            \* compression == CompressionZlib
    ZlibLens         \* the zlib lengths a source chunk may have

ASSUME ChunkFormatAssumption ==
    /\ RegionSectors \in Nat \ {0}
    /\ ChunkSectors \in Nat \ {0}
    /\ SectorSize \in Nat \ {0}
    /\ BaseOffset \in Nat
    /\ Zlib \in BOOLEAN
    /\ ZlibLens \subseteq Nat
    /\ NumChunks \in Nat
    /\ (NumChunks - 1) * ChunkSectors < RegionSectors
    /\ RegionSectors <= NumChunks * ChunkSectors

Chunks == 0 .. NumChunks - 1
Contents == [Chunks -> ZlibLens]

\* The sectors chunk i has: the last one may be short.
ChunkLength(i) ==
    LET left == RegionSectors - i * ChunkSectors
    IN  IF ChunkSectors > left THEN left ELSE ChunkSectors

\* Chunk types of blkx.go that encodeChunks can emit.
RunTypes == {"BlockZero", "BlockRaw", "BlockZLIB"}

\* Mutant: no fallback to a raw run.
RunType_NoFallback(zero, sectors, zlen) ==
    IF zero THEN "BlockZero" ELSE IF Zlib THEN "BlockZLIB" ELSE "BlockRaw"

\* The kind of run a worker gives a chunk of `sectors' sectors.
RunType(zero, sectors, zlen) ==
    CASE zero -> "BlockZero"
      [] ~zero /\ Zlib /\ zlen < sectors * SectorSize -> "BlockZLIB"
      [] OTHER -> "BlockRaw"

\* The number of bytes that run puts in the data fork.
PayloadLen(zero, sectors, zlen) ==
    CASE RunType(zero, sectors, zlen) = "BlockZero" -> 0
      [] RunType(zero, sectors, zlen) = "BlockZLIB" -> zlen
      [] OTHER -> sectors * SectorSize

\* The bytes themselves: every byte carries the chunk it belongs to.
Payload(i, len) == [k \in 1 .. len |-> i]
=============================================================================
