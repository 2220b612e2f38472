----------------------------- MODULE GptLayout ------------------------------
(* internal/gpt: the sectors of a disk that holds one volume of v sectors  *)
(* between the two halves of a GUID partition table.  Sectors are counted  *)
(* from 0; what a sector holds is told apart by the properties only, so    *)
(* names, GUIDs and checksums are left out.                                *)
EXTENDS Integers, Sequences

CONSTANTS
    EntryArraySectors,      \* 32
    PartitionStartLBA,      \* 40
    MbrMax                  \* 2^32 - 1, the most sectors an MBR can name

EntryArrayLBA == 2
FirstUsableLBA == EntryArrayLBA + EntryArraySectors
BackupSectors == EntryArraySectors + 1

\* The compile-time guards of the code, with the gap its constants leave.
ASSUME GptAssumption ==
    /\ EntryArraySectors \in Nat \ {0}
    /\ PartitionStartLBA \in Nat /\ PartitionStartLBA > FirstUsableLBA
    /\ MbrMax \in Nat \ {0}

Content(what, n) == [what |-> what, n |-> n]
Zero == Content("zero", 0)

TotalSectors(v) == PartitionStartLBA + v + BackupSectors
LastLBA(v) == TotalSectors(v) - 1
LastUsableLBA(v) == TotalSectors(v) - BackupSectors - 1
PartitionLastLBA(v) == PartitionStartLBA + v - 1

\* The protective MBR names one partition from sector 1 on, as long as it can.
MbrSectors(v) == IF TotalSectors(v) - 1 < MbrMax THEN TotalSectors(v) - 1 ELSE MbrMax

\* The two headers.  Mutant: the backup is a plain copy of the primary.
GptHeader_Copy(role, v) ==
    [my |-> 1, alternate |-> LastLBA(v), entries |-> EntryArrayLBA,
     firstUsable |-> FirstUsableLBA, lastUsable |-> LastUsableLBA(v)]
GptHeader(role, v) ==
    [my |-> IF role = "backup" THEN LastLBA(v) ELSE 1,
     alternate |-> IF role = "backup" THEN 1 ELSE LastLBA(v),
     entries |-> IF role = "backup" THEN LastUsableLBA(v) + 1 ELSE EntryArrayLBA,
     firstUsable |-> FirstUsableLBA, lastUsable |-> LastUsableLBA(v)]

\* The one used entry of the array.
Entry(v) == [first |-> PartitionStartLBA, last |-> PartitionLastLBA(v)]

Region(type, sectors) == [type |-> type, sectors |-> sectors]

\* Mutant: the free sectors in front of the partition are forgotten.
FreeSectors_Whole == PartitionStartLBA - EntryArrayLBA
FreeSectors == PartitionStartLBA - FirstUsableLBA

Regions(v) ==
    << Region("MBR", 1),
       Region("Primary GPT Header", 1),
       Region("Primary GPT Table", EntryArraySectors),
       Region("Apple_Free", FreeSectors),
       Region("Apple_HFSX", v),
       Region("Backup GPT Table", EntryArraySectors),
       Region("Backup GPT Header", 1) >>

\* The maps, from the first sector of each.  Only the first sector of an entry
\* array holds an entry.
LeadingMap(v) ==
    [s \in 0 .. PartitionStartLBA - 1 |->
        CASE s = 0 -> Content("mbr", 0)
          [] s = 1 -> Content("primary", 0)
          [] s = EntryArrayLBA -> Content("entries", 0)
          [] OTHER -> Zero]
TrailingMap(v) ==
    [s \in 0 .. BackupSectors - 1 |->
        CASE s = BackupSectors - 1 -> Content("backup", 0)
          [] s = 0 -> Content("entries", 0)
          [] OTHER -> Zero]

\* What the code streams: leading map, volume, trailing map.
Framed(v, volume) ==
    [s \in 0 .. TotalSectors(v) - 1 |->
        IF s < PartitionStartLBA THEN LeadingMap(v)[s]
        ELSE IF s < PartitionStartLBA + v THEN volume[s - PartitionStartLBA]
        ELSE TrailingMap(v)[s - PartitionStartLBA - v]]

----------------------------------------------------------------------------
(* What the parts of the map say of each other.                            *)

\* Where a reader of the headers expects each span of Regions to start.
SpanStart(v) ==
    << 0, GptHeader("primary", v).my, GptHeader("primary", v).entries,
       GptHeader("primary", v).firstUsable, Entry(v).first,
       GptHeader("backup", v).entries, GptHeader("primary", v).alternate >>

\* The spans of the resource fork and the addresses in the two headers are
\* computed apart.  Each span ends where the next begins, and the last one at the
\* end of the disk; the partition is the span between the usable sectors.  The
\* protective MBR covers the disk or as much of it as its field can say.
GeometryAgrees(v) ==
    /\ \A i \in 1 .. 6 : SpanStart(v)[i] + Regions(v)[i].sectors = SpanStart(v)[i + 1]
    /\ SpanStart(v)[7] + Regions(v)[7].sectors = TotalSectors(v)
    /\ \A i \in 1 .. 7 : v > 0 => Regions(v)[i].sectors > 0
    /\ GptHeader("backup", v).my = GptHeader("primary", v).alternate
    /\ GptHeader("backup", v).alternate = GptHeader("primary", v).my
    /\ Entry(v).first >= GptHeader("primary", v).firstUsable
    /\ Entry(v).last = GptHeader("primary", v).lastUsable
    /\ MbrSectors(v) <= LastLBA(v) /\ MbrSectors(v) <= MbrMax
    /\ MbrSectors(v) \in {LastLBA(v), MbrMax}
=============================================================================
