-------------------------- MODULE FrameImage_proofs --------------------------
(* What a finished image gives its reader, for every size of the volume, of *)
(* the chunks, of the payloads and of the partition map.                    *)
EXTENDS FrameImage, SequenceFacts

----------------------------------------------------------------------------
(* The partition map agrees with itself.                                    *)

\* The lengths of the spans of a map.
LEMMA RegionSectors ==
    ASSUME NEW v \in Nat
    PROVE  LET R == Regions(v) IN
           /\ R[1].sectors = 1 /\ R[2].sectors = 1 /\ R[3].sectors = EntryArraySectors
           /\ R[4].sectors = PartitionStartLBA - 2 - EntryArraySectors
           /\ R[5].sectors = v /\ R[6].sectors = EntryArraySectors /\ R[7].sectors = 1
<1> USE GptAssumption DEF FirstUsableLBA, EntryArrayLBA
<1> DEFINE R == Regions(v)
<1>1. /\ Region("MBR", 1).sectors = 1
      /\ Region("Primary GPT Header", 1).sectors = 1
      /\ Region("Primary GPT Table", EntryArraySectors).sectors = EntryArraySectors
      /\ Region("Apple_Free", FreeSectors).sectors = FreeSectors
      /\ Region("Apple_HFSX", v).sectors = v
      /\ Region("Backup GPT Table", EntryArraySectors).sectors = EntryArraySectors
      /\ Region("Backup GPT Header", 1).sectors = 1
  BY DEF Region
<1>2. FreeSectors = PartitionStartLBA - 2 - EntryArraySectors
  BY DEF FreeSectors
<1>3. /\ R[1].sectors = Region("MBR", 1).sectors
      /\ R[2].sectors = Region("Primary GPT Header", 1).sectors
      /\ R[3].sectors = Region("Primary GPT Table", EntryArraySectors).sectors
      /\ R[4].sectors = Region("Apple_Free", FreeSectors).sectors
      /\ R[5].sectors = Region("Apple_HFSX", v).sectors
      /\ R[6].sectors = Region("Backup GPT Table", EntryArraySectors).sectors
      /\ R[7].sectors = Region("Backup GPT Header", 1).sectors
  BY DEF Regions
<1> HIDE DEF R
<1> QED
  BY <1>1, <1>2, <1>3, Zenon DEF R

\* Whatever the size of the volume, the spans that the resource fork names are the
\* spans between the addresses in the two headers and in the partition's entry.
THEOREM GeometryCorrect == \A v \in Nat : GeometryAgrees(v)
<1> SUFFICES ASSUME NEW v \in Nat PROVE GeometryAgrees(v)
  OBVIOUS
<1> USE GptAssumption
    DEF TotalSectors, LastLBA, LastUsableLBA, PartitionLastLBA, FirstUsableLBA,
        EntryArrayLBA, BackupSectors
<1> DEFINE S == SpanStart(v)
           R == Regions(v)
<1>1. /\ S[1] = 0 /\ S[2] = 1 /\ S[3] = 2 /\ S[4] = 2 + EntryArraySectors
      /\ S[5] = PartitionStartLBA /\ S[6] = PartitionStartLBA + v
      /\ S[7] = PartitionStartLBA + v + EntryArraySectors
  BY DEF SpanStart, GptHeader, Entry
<1>2. /\ R[1].sectors = 1 /\ R[2].sectors = 1 /\ R[3].sectors = EntryArraySectors
      /\ R[4].sectors = PartitionStartLBA - 2 - EntryArraySectors
      /\ R[5].sectors = v /\ R[6].sectors = EntryArraySectors /\ R[7].sectors = 1
  BY RegionSectors, Zenon
<1>3. \A i \in 1 .. 7 : i = 1 \/ i = 2 \/ i = 3 \/ i = 4 \/ i = 5 \/ i = 6 \/ i = 7
  OBVIOUS
<1> HIDE DEF S, R
<1>4. ASSUME NEW i \in 1 .. 6 PROVE S[i] + R[i].sectors = S[i + 1]
  <2>1. i = 1 \/ i = 2 \/ i = 3 \/ i = 4 \/ i = 5 \/ i = 6
    OBVIOUS
  <2> QED
    BY <1>1, <1>2, <2>1
<1>5. S[7] + R[7].sectors = TotalSectors(v)
  BY <1>1, <1>2
<1>6. ASSUME NEW i \in 1 .. 7, v > 0 PROVE R[i].sectors > 0
  BY <1>2, <1>3, <1>6
<1>7. /\ GptHeader("backup", v).my = GptHeader("primary", v).alternate
      /\ GptHeader("backup", v).alternate = GptHeader("primary", v).my
      /\ Entry(v).first >= GptHeader("primary", v).firstUsable
      /\ Entry(v).last = GptHeader("primary", v).lastUsable
  BY DEF GptHeader, Entry
<1>8. /\ MbrSectors(v) <= LastLBA(v) /\ MbrSectors(v) <= MbrMax
      /\ MbrSectors(v) \in {LastLBA(v), MbrMax}
  BY DEF MbrSectors
<1> QED
  BY <1>4, <1>5, <1>6, <1>7, <1>8 DEF GeometryAgrees, S, R

\* What the map holds is what the specification says sectors and regions are.
LEMMA ContentsOf ==
    /\ Zero \in Contents /\ Vol \in Contents /\ Content("mbr", 0) \in Contents
    /\ Content("primary", 0) \in Contents /\ Content("entries", 0) \in Contents
    /\ Content("backup", 0) \in Contents
BY DEF Zero, Vol, Content, Contents

LEMMA FramedType ==
    ASSUME NEW v \in Nat, NEW volume \in [0 .. v - 1 -> {Zero, Vol}]
    PROVE  TotalSectors(v) \in Nat /\ Framed(v, volume) \in [0 .. TotalSectors(v) - 1 -> Contents]
<1>1. TotalSectors(v) \in Nat
  BY GptAssumption DEF TotalSectors, BackupSectors
<1>2. /\ Zero \in Contents /\ Vol \in Contents /\ Content("mbr", 0) \in Contents
      /\ Content("primary", 0) \in Contents /\ Content("entries", 0) \in Contents
      /\ Content("backup", 0) \in Contents
  BY ContentsOf, Zenon
<1>3. ASSUME NEW s \in 0 .. PartitionStartLBA - 1 PROVE LeadingMap(v)[s] \in Contents
  BY <1>2 DEF LeadingMap
<1>4. ASSUME NEW s \in 0 .. BackupSectors - 1 PROVE TrailingMap(v)[s] \in Contents
  BY <1>2 DEF TrailingMap
<1>5. ASSUME NEW s \in 0 .. TotalSectors(v) - 1 PROVE Framed(v, volume)[s] \in Contents
  <2>1. CASE s < PartitionStartLBA
    BY <2>1, <1>3, GptAssumption DEF Framed
  <2>2. CASE ~(s < PartitionStartLBA) /\ s < PartitionStartLBA + v
    <3>1. s - PartitionStartLBA \in 0 .. v - 1
      BY <2>2, GptAssumption
    <3>2. Framed(v, volume)[s] = volume[s - PartitionStartLBA]
      BY <2>2 DEF Framed
    <3> QED
      BY <1>2, <3>1, <3>2
  <2>3. CASE ~(s < PartitionStartLBA) /\ ~(s < PartitionStartLBA + v)
    <3>1. s - PartitionStartLBA - v \in 0 .. BackupSectors - 1
      BY <2>3, GptAssumption DEF TotalSectors, BackupSectors
    <3> QED
      BY <2>3, <3>1, <1>4 DEF Framed
  <2> QED
    BY <2>1, <2>2, <2>3
<1> QED
  BY <1>1, <1>5 DEF Framed

LEMMA SevenSeq ==
    ASSUME NEW S, NEW a \in S, NEW b \in S, NEW c \in S, NEW d \in S, NEW e \in S,
           NEW f \in S, NEW g \in S
    PROVE  <<a, b, c, d, e, f, g>> \in Seq(S) /\ Len(<<a, b, c, d, e, f, g>>) = 7
OBVIOUS

\* With any count in place of the volume's, the regions are such as a caller gives.
LEMMA RegionsType ==
    ASSUME NEW v \in Nat, NEW n \in Nat
    PROVE  /\ [Regions(v) EXCEPT ![5].sectors = n] \in Seq([type : Spans, sectors : Nat])
           /\ Len([Regions(v) EXCEPT ![5].sectors = n]) = 7
<1> DEFINE R == [type : Spans, sectors : Nat]
<1>1. \A type \in Spans, k \in Nat : Region(type, k) \in R
  BY DEF Region
<1>2. 1 \in Nat /\ EntryArraySectors \in Nat /\ FreeSectors \in Nat
  BY GptAssumption DEF FreeSectors, FirstUsableLBA, EntryArrayLBA
<1>3. \A r \in R : [r EXCEPT !.sectors = n] \in R
  OBVIOUS
<1> HIDE DEF R
<1>9. /\ "MBR" \in Spans /\ "Primary GPT Header" \in Spans
      /\ "Primary GPT Table" \in Spans /\ "Apple_Free" \in Spans
      /\ "Apple_HFSX" \in Spans /\ "Backup GPT Table" \in Spans
      /\ "Backup GPT Header" \in Spans
  BY Zenon DEF Spans
<1>4. /\ Region("MBR", 1) \in R /\ Region("Primary GPT Header", 1) \in R
      /\ Region("Primary GPT Table", EntryArraySectors) \in R
      /\ Region("Apple_Free", FreeSectors) \in R /\ Region("Apple_HFSX", v) \in R
      /\ Region("Backup GPT Table", EntryArraySectors) \in R
      /\ Region("Backup GPT Header", 1) \in R
  BY <1>1, <1>2, <1>9, Zenon
<1>5. Regions(v) \in Seq(R) /\ Len(Regions(v)) = 7
  BY <1>4, SevenSeq, Zenon DEF Regions
<1>6. 5 \in 1 .. Len(Regions(v))
  BY <1>5
<1>7. [Regions(v)[5] EXCEPT !.sectors = n] \in R
  BY <1>3, <1>5, <1>6, ElementOfSeq, Zenon
<1> DEFINE e == [Regions(v)[5] EXCEPT !.sectors = n]
<1>8. [Regions(v) EXCEPT ![5] = e] \in Seq(R) /\ Len([Regions(v) EXCEPT ![5] = e]) = 7
  <2>1. e \in R
    BY <1>7
  <2> HIDE DEF e
  <2>2. ASSUME NEW s \in Seq(R), Len(s) = 7, 5 \in 1 .. Len(s)
        PROVE  [s EXCEPT ![5] = e] \in Seq(R) /\ Len([s EXCEPT ![5] = e]) = 7
    <3>1. \A j \in 1 .. 7 : s[j] \in R
      BY <2>2, ElementOfSeq
    <3>2. DOMAIN s = 1 .. 7
      BY <2>2, LenProperties
    <3>3. [s EXCEPT ![5] = e] = [j \in 1 .. 7 |-> IF j = 5 THEN e ELSE s[j]]
      BY <3>2
    <3>4. \A j \in 1 .. 7 : (IF j = 5 THEN e ELSE s[j]) \in R
      BY <2>1, <3>1
    <3> DEFINE t == [j \in 1 .. 7 |-> IF j = 5 THEN e ELSE s[j]]
    <3>5. t \in Seq(R) /\ Len(t) = 7
      BY <3>4, IsASeq
    <3> QED
      BY <3>3, <3>5
  <2> QED
    BY <1>5, <1>6, <2>2
<1> QED
  BY <1>8 DEF R

----------------------------------------------------------------------------
(* Where the regions begin and end.                                         *)

LEMMA EndsSteps ==
    ASSUME NEW s \in Seq(Nat)
    PROVE  /\ Len(s) \in Nat /\ Ends(s) \in [0 .. Len(s) -> Nat] /\ Ends(s)[0] = 0
           /\ \A i \in 1 .. Len(s) : Ends(s)[i] = Ends(s)[i - 1] + s[i]
BY PartialSums DEF Ends

\* How long the regions of a map are.
Lens(v) == [i \in 1 .. 7 |-> Regions(v)[i].sectors]

LEMMA LensEnds ==
    ASSUME NEW v \in Nat
    PROVE  LET end == Ends(Lens(v)) IN
           /\ end[0] = 0 /\ end[1] = 1 /\ end[2] = 2 /\ end[3] = 2 + EntryArraySectors
           /\ end[4] = PartitionStartLBA /\ end[5] = PartitionStartLBA + v
           /\ end[6] = PartitionStartLBA + v + EntryArraySectors
           /\ end[7] = TotalSectors(v)
<1> DEFINE l == Lens(v)
<1>1. /\ l[1] = 1 /\ l[2] = 1 /\ l[3] = EntryArraySectors
      /\ l[4] = PartitionStartLBA - 2 - EntryArraySectors /\ l[5] = v
      /\ l[6] = EntryArraySectors /\ l[7] = 1
  BY RegionSectors DEF Lens
<1>2. /\ EntryArraySectors \in Nat /\ PartitionStartLBA \in Nat
      /\ PartitionStartLBA - 2 - EntryArraySectors \in Nat
  BY GptAssumption DEF FirstUsableLBA, EntryArrayLBA
<1>3. \A i \in 1 .. 7 : l[i] \in Nat
  <2>1. \A i \in 1 .. 7 : i = 1 \/ i = 2 \/ i = 3 \/ i = 4 \/ i = 5 \/ i = 6 \/ i = 7
    OBVIOUS
  <2> HIDE DEF l
  <2> QED
    BY <1>1, <1>2, <2>1
<1>4. l \in Seq(Nat) /\ Len(l) = 7
  <2>1. l = [i \in 1 .. 7 |-> l[i]]
    BY DEF Lens
  <2> HIDE DEF l
  <2> QED
    BY <1>3, <2>1, IsASeq
<1> HIDE DEF l
<1>5. /\ Ends(l) \in [0 .. 7 -> Nat] /\ Ends(l)[0] = 0
      /\ \A i \in 1 .. 7 : Ends(l)[i] = Ends(l)[i - 1] + l[i]
  BY <1>4, EndsSteps
<1>6. /\ Ends(l)[1] = Ends(l)[0] + l[1] /\ Ends(l)[2] = Ends(l)[1] + l[2]
      /\ Ends(l)[3] = Ends(l)[2] + l[3] /\ Ends(l)[4] = Ends(l)[3] + l[4]
      /\ Ends(l)[5] = Ends(l)[4] + l[5] /\ Ends(l)[6] = Ends(l)[5] + l[6]
      /\ Ends(l)[7] = Ends(l)[6] + l[7]
  BY <1>5
<1>7. /\ Ends(l)[0] = 0 /\ Ends(l)[1] = 1 /\ Ends(l)[2] = 2
      /\ Ends(l)[3] = 2 + EntryArraySectors /\ Ends(l)[4] = PartitionStartLBA
      /\ Ends(l)[5] = PartitionStartLBA + v
      /\ Ends(l)[6] = PartitionStartLBA + v + EntryArraySectors
      /\ Ends(l)[7] = PartitionStartLBA + v + EntryArraySectors + 1
  BY <1>1, <1>2, <1>5, <1>6
<1> QED
  BY <1>2, <1>7 DEF l, TotalSectors, BackupSectors

\* The stream that Create puts together from the leading map, the volume and the
\* trailing map has as many sectors as the regions it gives to Write, the three pieces
\* follow each other without a gap and are whole, and each region starts at the sector
\* the headers and the entry name for it, with the header or the entry array it is
\* named after.
THEOREM StreamAgrees ==
    ASSUME NEW v \in Nat, NEW volume
    PROVE  LET disk == Framed(v, volume)
               end == Ends(Lens(v))
           IN  /\ DOMAIN disk = 0 .. end[7] - 1
               /\ DOMAIN LeadingMap(v) = 0 .. end[4] - 1
               /\ end[5] = end[4] + v
               /\ DOMAIN TrailingMap(v) = 0 .. end[7] - end[5] - 1
               /\ \A s \in DOMAIN LeadingMap(v) : disk[s] = LeadingMap(v)[s]
               /\ \A s \in 0 .. v - 1 : disk[end[4] + s] = volume[s]
               /\ \A s \in DOMAIN TrailingMap(v) : disk[end[5] + s] = TrailingMap(v)[s]
               /\ \A i \in 1 .. 7 : end[i - 1] = SpanStart(v)[i]
               /\ disk[end[1]] = Content("primary", 0) /\ disk[end[2]] = Content("entries", 0)
               /\ disk[end[5]] = Content("entries", 0) /\ disk[end[6]] = Content("backup", 0)
<1> DEFINE disk == Framed(v, volume)
           end == Ends(Lens(v))
           p == PartitionStartLBA
           e == EntryArraySectors
           total == TotalSectors(v)
<1>1. /\ end[0] = 0 /\ end[1] = 1 /\ end[2] = 2 /\ end[3] = 2 + e /\ end[4] = p
      /\ end[5] = p + v /\ end[6] = p + v + e /\ end[7] = total
  BY LensEnds
<1>2. /\ p \in Nat /\ e \in Nat \ {0} /\ p > 2 + e /\ total = p + v + e + 1
      /\ BackupSectors = e + 1
  BY GptAssumption DEF TotalSectors, BackupSectors, FirstUsableLBA, EntryArrayLBA
<1>3. /\ DOMAIN disk = 0 .. total - 1 /\ DOMAIN LeadingMap(v) = 0 .. p - 1
      /\ DOMAIN TrailingMap(v) = 0 .. BackupSectors - 1
  BY DEF Framed, LeadingMap, TrailingMap
<1>4. total - (p + v) = BackupSectors
  BY <1>2
<1>5. \A s \in 0 .. total - 1 :
         disk[s] = IF s < p THEN LeadingMap(v)[s]
                   ELSE IF s < p + v THEN volume[s - p] ELSE TrailingMap(v)[s - p - v]
  BY DEF Framed
<1>6. /\ LeadingMap(v)[1] = Content("primary", 0) /\ LeadingMap(v)[2] = Content("entries", 0)
      /\ TrailingMap(v)[0] = Content("entries", 0) /\ TrailingMap(v)[e] = Content("backup", 0)
  BY <1>2 DEF LeadingMap, TrailingMap, EntryArrayLBA
<1>7. \A i \in 1 .. 7 : end[i - 1] = SpanStart(v)[i]
  <2>1. /\ SpanStart(v)[1] = 0 /\ SpanStart(v)[2] = 1 /\ SpanStart(v)[3] = 2
        /\ SpanStart(v)[4] = 2 + e /\ SpanStart(v)[5] = p /\ SpanStart(v)[6] = p + v
        /\ SpanStart(v)[7] = p + v + e
    BY <1>2 DEF SpanStart, GptHeader, Entry, FirstUsableLBA, EntryArrayLBA, LastUsableLBA,
         LastLBA
  <2>2. \A i \in 1 .. 7 : \/ i = 1 /\ i - 1 = 0
                          \/ i = 2 /\ i - 1 = 1
                          \/ i = 3 /\ i - 1 = 2
                          \/ i = 4 /\ i - 1 = 3
                          \/ i = 5 /\ i - 1 = 4
                          \/ i = 6 /\ i - 1 = 5
                          \/ i = 7 /\ i - 1 = 6
    OBVIOUS
  <2> HIDE DEF end, p, e
  <2> QED
    BY <1>1, <2>1, <2>2
<1> HIDE DEF disk, end, total, p, e
<1>8. \A s \in 0 .. p - 1 : disk[s] = LeadingMap(v)[s]
  BY <1>2, <1>5
<1>9. \A s \in 0 .. v - 1 : disk[p + s] = volume[s]
  <2> SUFFICES ASSUME NEW s \in 0 .. v - 1 PROVE disk[p + s] = volume[s]
    OBVIOUS
  <2>1. /\ p + s \in 0 .. total - 1 /\ ~(p + s < p) /\ p + s < p + v /\ (p + s) - p = s
    BY <1>2
  <2> QED
    BY <1>5, <2>1
<1>10. \A s \in 0 .. BackupSectors - 1 : disk[p + v + s] = TrailingMap(v)[s]
  <2> SUFFICES ASSUME NEW s \in 0 .. BackupSectors - 1
               PROVE  disk[p + v + s] = TrailingMap(v)[s]
    OBVIOUS
  <2>1. /\ p + v + s \in 0 .. total - 1 /\ ~(p + v + s < p) /\ ~(p + v + s < p + v)
        /\ (p + v + s) - p - v = s
    BY <1>2
  <2> QED
    BY <1>5, <2>1
<1>11. /\ disk[1] = Content("primary", 0) /\ disk[2] = Content("entries", 0)
       /\ disk[p + v] = Content("entries", 0) /\ disk[p + v + e] = Content("backup", 0)
  <2>1. /\ 1 \in 0 .. p - 1 /\ 2 \in 0 .. p - 1 /\ 0 \in 0 .. BackupSectors - 1
        /\ e \in 0 .. BackupSectors - 1 /\ p + v + 0 = p + v
    BY <1>2
  <2> QED
    BY <1>6, <1>8, <1>10, <2>1
<1> QED
  BY <1>1, <1>3, <1>4, <1>7, <1>8, <1>9, <1>10, <1>11 DEF disk, end

LEMMA EndsGrow ==
    ASSUME NEW s \in Seq(Nat)
    PROVE  \A i, j \in 0 .. Len(s) : i <= j => Ends(s)[i] <= Ends(s)[j]
<1>1. \A i \in 1 .. Len(s) : Ends(s)[i - 1] <= Ends(s)[i]
  <2> SUFFICES ASSUME NEW i \in 1 .. Len(s) PROVE Ends(s)[i - 1] <= Ends(s)[i]
    OBVIOUS
  <2>1. Len(s) \in Nat /\ i - 1 \in 0 .. Len(s)
    BY EndsSteps
  <2>2. s[i] \in Nat /\ Ends(s)[i - 1] \in Nat /\ Ends(s)[i] = Ends(s)[i - 1] + s[i]
    BY <2>1, EndsSteps, ElementOfSeq
  <2> QED
    BY <2>2
<1> QED
  BY <1>1, EndsSteps, StepsMonotone

LEMMA EndsCover ==
    ASSUME NEW s \in Seq(Nat), NEW m \in Nat, m < Ends(s)[Len(s)]
    PROVE  \E i \in 1 .. Len(s) : Ends(s)[i - 1] <= m /\ m < Ends(s)[i]
<1>1. Len(s) \in Nat /\ Ends(s) \in [0 .. Len(s) -> Nat] /\ Ends(s)[0] <= m
  BY EndsSteps
<1> QED
  BY <1>1, StepsCover

LEMMA SpecTypes ==
    ASSUME FrameTypes
    PROVE  SpecLens \in Seq(Nat) /\ SpecCount = Len(SpecLens) /\ SpecCount \in Nat
<1>1. \A i \in 1 .. Len(regions) : regions[i].sectors \in Nat
  <2> DEFINE R == [type : Spans, sectors : Nat]
  <2>1. \A r \in R : r.sectors \in Nat
    OBVIOUS
  <2>2. regions \in Seq(R)
    BY DEF FrameTypes
  <2> HIDE DEF R
  <2> QED
    BY <2>1, <2>2, ElementOfSeq
<1>2. Len(regions) \in Nat /\ DOMAIN regions = 1 .. Len(regions)
  BY LenProperties DEF FrameTypes
<1>3. <<sectors>> \in Seq(Nat)
  BY DEF FrameTypes
<1>4. [i \in DOMAIN regions |-> regions[i].sectors] \in Seq(Nat)
  BY <1>1, <1>2, IsASeq
<1>5. SpecLens \in Seq(Nat)
  BY <1>3, <1>4 DEF SpecLens
<1> QED
  BY <1>5, LenProperties DEF SpecCount

\* Regions that were accepted end where the disk does.
LEMMA WholeLength ==
    ASSUME FrameTypes, SpecsAccepted
    PROVE  Ends(SpecLens)[SpecCount] = sectors
<1>1. CASE regions # <<>>
  BY <1>1 DEF SpecsAccepted
<1>2. CASE regions = <<>>
  <2>1. SpecLens = <<sectors>> /\ SpecCount = 1 /\ SpecLens[1] = sectors /\ sectors \in Nat
    BY <1>2 DEF SpecLens, SpecCount, FrameTypes
  <2>2. /\ SpecLens \in Seq(Nat) /\ 1 \in 1 .. Len(SpecLens) /\ SpecCount = Len(SpecLens)
    BY <2>1, SpecTypes
  <2>3. Ends(SpecLens)[1] = Ends(SpecLens)[1 - 1] + SpecLens[1] /\ Ends(SpecLens)[0] = 0
    BY <2>2, EndsSteps
  <2> QED
    BY <2>1, <2>3
<1> QED
  BY <1>1, <1>2

LEMMA ThisRegionType ==
    ASSUME FrameTypes, PlaceInv, ThisRegion <= SpecCount
    PROVE  /\ Len(tables) \in Nat /\ ThisRegion \in 1 .. SpecCount /\ RegionLen \in Nat
           /\ at <= RegionLen
           /\ Ends(SpecLens)[ThisRegion] = first + RegionLen
<1>1. Len(tables) \in Nat
  BY LenProperties DEF FrameTypes
<1>2. ThisRegion \in 1 .. SpecCount /\ ThisRegion - 1 = Len(tables)
  BY <1>1, SpecTypes DEF ThisRegion
<1>3. SpecLens \in Seq(Nat) /\ ThisRegion \in 1 .. Len(SpecLens)
  BY <1>2, SpecTypes
<1>4. RegionLen \in Nat
  BY <1>3, ElementOfSeq DEF RegionLen
<1>5. Ends(SpecLens)[ThisRegion] = Ends(SpecLens)[ThisRegion - 1] + SpecLens[ThisRegion]
  BY <1>3, EndsSteps
<1>6. first = Ends(SpecLens)[Len(tables)] /\ at <= RegionLen
  BY DEF PlaceInv
<1> QED
  BY <1>1, <1>2, <1>4, <1>5, <1>6 DEF RegionLen

\* The region that is being written lies on the disk.
LEMMA RegionInside ==
    ASSUME FrameTypes, PlaceInv, pc = "chunks", ThisRegion <= SpecCount
    PROVE  /\ RegionLen \in Nat /\ first \in Nat /\ at \in Nat /\ sectors \in Nat
           /\ at <= RegionLen /\ first + RegionLen <= sectors
<1>1. /\ ThisRegion \in 1 .. SpecCount /\ RegionLen \in Nat /\ at <= RegionLen
      /\ Ends(SpecLens)[ThisRegion] = first + RegionLen
  BY ThisRegionType
<1>2. Ends(SpecLens)[SpecCount] = sectors
  BY WholeLength DEF PlaceInv
<1>3. /\ SpecLens \in Seq(Nat) /\ ThisRegion \in 0 .. Len(SpecLens)
      /\ SpecCount \in 0 .. Len(SpecLens) /\ ThisRegion <= SpecCount
  BY <1>1, SpecTypes
<1>4. Ends(SpecLens)[ThisRegion] <= Ends(SpecLens)[SpecCount]
  BY <1>3, EndsGrow
<1> QED
  BY <1>1, <1>2, <1>4 DEF FrameTypes

\* The next chunk lies in its region and on the disk.
LEMMA ChunkType ==
    ASSUME FrameTypes, PlaceInv, pc = "chunks", ThisRegion <= SpecCount, at < RegionLen
    PROVE  /\ ChunkLen \in Nat \ {0} /\ ChunkLen <= ChunkSectors /\ at + ChunkLen <= RegionLen
           /\ Chunk \in Seq(Contents) /\ Len(Chunk) = ChunkLen /\ DOMAIN Chunk = 1 .. ChunkLen
           /\ \A i \in 1 .. ChunkLen : Chunk[i] = source[first + at + i - 1]
<1>1. /\ RegionLen \in Nat /\ first \in Nat /\ at \in Nat /\ sectors \in Nat
      /\ first + RegionLen <= sectors
  BY RegionInside
<1>3. /\ ChunkLen \in Nat \ {0} /\ ChunkLen <= ChunkSectors /\ at + ChunkLen <= RegionLen
  BY <1>1, FrameAssumption DEF ChunkLen
<1>5. ASSUME NEW i \in 1 .. ChunkLen PROVE source[first + at + i - 1] \in Contents
  <2>1. first + at + i - 1 \in 0 .. sectors - 1
    BY <1>1, <1>3
  <2> QED
    BY <2>1 DEF FrameTypes
<1>6. Chunk = [i \in 1 .. ChunkLen |-> source[first + at + i - 1]]
  BY DEF Chunk
<1>7. Chunk \in Seq(Contents)
  BY <1>3, <1>5, <1>6, IsASeq
<1>8. DOMAIN Chunk = 1 .. ChunkLen /\ \A i \in 1 .. ChunkLen : Chunk[i] = source[first + at + i - 1]
  BY <1>6
<1>9. Len(Chunk) = ChunkLen
  BY <1>3, <1>7, <1>8, LenProperties
<1> QED
  BY <1>3, <1>7, <1>8, <1>9

----------------------------------------------------------------------------
(* The output.                                                              *)

Extends(more, out) ==
    /\ more \in Seq(OutCells) /\ Len(out) \in Nat /\ Len(more) \in Nat
    /\ Len(out) <= Len(more) /\ \A n \in 1 .. Len(out) : more[n] = out[n]

LEMMA FlushedType ==
    ASSUME FrameTypes
    PROVE  Flushed \in Seq(OutCells) /\ Len(Flushed) \in Nat
<1>1. Flushed \in Seq(OutCells)
  BY ConcatProperties DEF FrameTypes, Flushed
<1> QED
  BY <1>1, LenProperties

LEMMA ExtendsAppend ==
    ASSUME NEW out \in Seq(OutCells), NEW cells \in Seq(OutCells)
    PROVE  /\ Extends(out \o cells, out)
           /\ Len(out \o cells) = Len(out) + Len(cells)
           /\ \A n \in 1 .. Len(cells) : (out \o cells)[Len(out) + n] = cells[n]
<1>1. Len(out) \in Nat /\ Len(cells) \in Nat
  BY LenProperties
<1>2. /\ out \o cells \in Seq(OutCells) /\ Len(out \o cells) = Len(out) + Len(cells)
      /\ \A i \in 1 .. Len(out) + Len(cells) :
            (out \o cells)[i] = IF i <= Len(out) THEN out[i] ELSE cells[i - Len(out)]
  BY ConcatProperties
<1> QED
  BY <1>1, <1>2 DEF Extends

LEMMA Joined ==
    ASSUME NEW S, NEW a \in Seq(S), NEW b \in Seq(S), NEW c \in Seq(S)
    PROVE  /\ a \o b \in Seq(S) /\ b \o c \in Seq(S) /\ (a \o b) \o c \in Seq(S)
           /\ a \o (b \o c) = (a \o b) \o c /\ ((a \o b) \o c) \o <<>> = (a \o b) \o c
           /\ (a \o b) \o <<>> = a \o b
<1>1. a \o b \in Seq(S) /\ b \o c \in Seq(S) /\ (a \o b) \o c \in Seq(S)
  BY ConcatProperties
<1>2. a \o (b \o c) = (a \o b) \o c
  BY ConcatAssociative
<1>3. ((a \o b) \o c) \o <<>> = (a \o b) \o c /\ (a \o b) \o <<>> = a \o b
  BY <1>1, ConcatEmptySeq
<1> QED
  BY <1>1, <1>2, <1>3

\* A write that does not fail adds its cells to the output, flushed or not.
LEMMA PutStep ==
    ASSUME FrameTypes, NEW cells \in Seq(OutCells), NEW next, Put(cells, next)
    PROVE  /\ buffer' \in Seq(OutCells) /\ file' \in Seq(OutCells)
           /\ \/ pc' = next /\ Flushed' = Flushed \o cells
              \/ pc' = "failed" /\ UNCHANGED <<buffer, file>>
<1>1. buffer \in Seq(OutCells) /\ file \in Seq(OutCells) /\ <<>> \in Seq(OutCells)
  BY EmptySeq DEF FrameTypes
<1> DEFINE S == Seq(OutCells)
<1>5. /\ buffer \o cells \in S /\ (file \o buffer) \o cells \in S
      /\ file \o (buffer \o cells) = (file \o buffer) \o cells
      /\ ((file \o buffer) \o cells) \o <<>> = (file \o buffer) \o cells
  BY <1>1, Joined
<1>2. CASE buffer' = buffer \o cells /\ pc' = next /\ UNCHANGED file
  <2>1. Flushed' = file \o (buffer \o cells)
    BY <1>2 DEF Flushed
  <2> QED
    BY <1>1, <1>2, <1>5, <2>1 DEF Flushed
<1>3. CASE file' = file \o buffer \o cells /\ buffer' = <<>> /\ pc' = next
  <2>1. Flushed' = ((file \o buffer) \o cells) \o <<>>
    BY <1>3 DEF Flushed
  <2> QED
    BY <1>1, <1>3, <1>5, <2>1 DEF Flushed
<1>4. CASE pc' = "failed" /\ UNCHANGED <<buffer, file>>
  BY <1>1, <1>4
<1> QED
  BY <1>2, <1>3, <1>4 DEF Put

\* What a run holds stays where it is while the output grows.
LEMMA HoldsOn ==
    ASSUME NEW disk, NEW out, NEW more, Extends(more, out), NEW len \in Nat,
           NEW len2 \in Nat, len <= len2, len <= Len(out), NEW f, NEW r \in Runs,
           Holds(disk, out, len, f, r)
    PROVE  Holds(disk, more, len2, f, r)
<1>1. r.offset \in Nat /\ r.length \in Nat
  BY DEF Runs
<1>2. ASSUME r.type = "data"
      PROVE  /\ r.length > 0 /\ r.offset + r.length <= len2
             /\ \A n \in 1 .. r.length : more[r.offset + n] = Cell("data", Body(disk, f, r), n)
  <2>1. /\ r.length > 0 /\ r.offset + r.length <= len
        /\ \A n \in 1 .. r.length : out[r.offset + n] = Cell("data", Body(disk, f, r), n)
    BY <1>2 DEF Holds
  <2>2. \A n \in 1 .. r.length : r.offset + n \in 1 .. Len(out)
    BY <1>1, <2>1 DEF Extends
  <2> QED
    BY <1>1, <2>1, <2>2 DEF Extends
<1> QED
  BY <1>2 DEF Holds

----------------------------------------------------------------------------
(* The initial states.                                                      *)

LEMMA BodiesEmpty == ASSUME NEW disk, NEW f PROVE FlattenSeq(Bodies(disk, f, <<>>)) = <<>>
<1>1. Bodies(disk, f, <<>>) = <<>>
  <2>1. DOMAIN <<>> = {}
    BY EmptySeq
  <2>2. Bodies(disk, f, <<>>) = [i \in {} |-> <<>>]
    BY <2>1 DEF Bodies
  <2>3. [i \in {} |-> <<>>] = <<>>
    OBVIOUS
  <2> QED
    BY <2>2, <2>3
<1> QED
  BY <1>1, FlattenEmpty

LEMMA InitTypes ==
    ASSUME FrameInit
    PROVE  FrameTypes /\ InputInv
<1>1. PICK v \in VolumeSectors, volume \in UNION {[0 .. w - 1 -> {Zero, Vol}] : w \in VolumeSectors} :
         /\ DOMAIN volume = 0 .. v - 1
         /\ sectors = IF framed THEN TotalSectors(v) ELSE v
         /\ source = IF framed THEN Framed(v, volume) ELSE volume
         /\ IF framed
            THEN \E n \in {0, v - 1, v} : regions = [Regions(v) EXCEPT ![5].sectors = n]
            ELSE regions = <<>>
  BY DEF FrameInit
<1>2. v \in Nat \ {0} /\ volume \in [0 .. v - 1 -> {Zero, Vol}]
  <2>1. v \in Nat \ {0}
    BY FrameAssumption
  <2>2. PICK w \in VolumeSectors : volume \in [0 .. w - 1 -> {Zero, Vol}]
    OBVIOUS
  <2>3. 0 .. v - 1 = 0 .. w - 1
    BY <1>1, <2>2
  <2> QED
    BY <2>1, <2>2, <2>3
<1>3. /\ pc = "open" /\ framed \in BOOLEAN /\ first = 0 /\ at = 0 /\ dataForkLen = 0
      /\ runs = <<>> /\ tables = <<>> /\ tableCRC = <<>> /\ dataForkCRC = <<>>
      /\ buffer = <<>> /\ file = <<>>
  BY DEF FrameInit
<1>4. sectors \in Nat /\ source \in [0 .. sectors - 1 -> Contents]
  <2>1. CASE framed
    BY <1>1, <1>2, <2>1, FramedType
  <2>2. CASE ~framed
    BY <1>1, <1>2, <2>2, ContentsOf
  <2> QED
    BY <1>3, <2>1, <2>2
<1>5. CASE framed
  <2>1. PICK n \in {0, v - 1, v} : regions = [Regions(v) EXCEPT ![5].sectors = n]
    BY <1>1, <1>5
  <2>2. n \in Nat
    BY <1>2
  <2>3. regions \in Seq([type : Spans, sectors : Nat])
    BY <1>2, <2>1, <2>2, RegionsType
  <2>4. VolumeLen = v
    BY <1>1, <1>2, <1>5, GptAssumption DEF VolumeLen, TotalSectors, BackupSectors
  <2>5. InputInv
    BY <1>1, <1>2, <1>5, <2>1, <2>2, <2>4 DEF InputInv
  <2> QED
    BY <1>3, <1>4, <2>3, <2>5, EmptySeq DEF FrameTypes
<1>6. CASE ~framed
  BY <1>1, <1>3, <1>4, <1>6, EmptySeq DEF FrameTypes, InputInv
<1> QED
  BY <1>3, <1>5, <1>6

LEMMA InitInv ==
    ASSUME FrameInit
    PROVE  FrameInv
<1>1. FrameTypes /\ InputInv
  BY InitTypes
<1>2. /\ pc = "open" /\ first = 0 /\ at = 0 /\ dataForkLen = 0
      /\ runs = <<>> /\ tables = <<>> /\ tableCRC = <<>> /\ dataForkCRC = <<>>
      /\ buffer = <<>> /\ file = <<>>
  BY DEF FrameInit
<1>3. Len(tables) = 0 /\ DOMAIN tables = {} /\ DOMAIN runs = {}
  BY <1>2
<1>4. /\ SpecLens \in Seq(Nat) /\ SpecCount \in Nat /\ SpecCount = Len(SpecLens)
      /\ Ends(SpecLens)[0] = 0
  BY <1>1, SpecTypes, EndsSteps
<1>5. PlaceInv
  <2>1. ThisRegion <= SpecCount => RegionLen \in Nat
    BY <1>3, <1>4, ElementOfSeq DEF ThisRegion, RegionLen
  <2> QED
    BY <1>2, <1>3, <1>4, <2>1 DEF PlaceInv, Finished
<1>6. RunsInv
  BY <1>2, <1>3 DEF RunsInv, Covers
<1>7. SumInv
  <2>1. Sums(tables) = <<>>
    BY <1>2 DEF Sums
  <2>2. FlattenSeq(Bodies(source, first, runs)) = <<>>
    BY <1>2, BodiesEmpty
  <2> QED
    BY <1>2, <1>3, <2>1, <2>2, FlattenEmpty DEF SumInv
<1>8. OutInv
  BY <1>2 DEF OutInv, Finished, Flushed
<1> QED
  BY <1>1, <1>5, <1>6, <1>7, <1>8 DEF FrameInv

----------------------------------------------------------------------------
(* Steps that finish no chunk and no region.                                *)

Phases == {"open", "specs", "chunks", "koly", "flush", "close", "done", "failed"}
Quiet == UNCHANGED <<input, first, at, runs, tables, dataForkLen, tableCRC, dataForkCRC>>
Grows == Flushed' = Flushed \/ (pc # "failed" /\ Extends(Flushed', Flushed))

LEMMA SpecsSame ==
    ASSUME UNCHANGED input
    PROVE  /\ SpecLens' = SpecLens /\ SpecCount' = SpecCount
           /\ SpecsAccepted' <=> SpecsAccepted
<1>1. SpecLens' = SpecLens
  BY DEF input, SpecLens
<1>2. SpecCount' = SpecCount
  BY <1>1 DEF SpecCount
<1> QED
  BY <1>1, <1>2 DEF input, SpecsAccepted

LEMMA ForkInside ==
    ASSUME FrameTypes, OutInv, pc # "failed"
    PROVE  dataForkLen <= Len(Flushed)
<1>1. dataForkLen \in Nat
  BY DEF FrameTypes
<1>2. CASE pc \in {"open", "specs", "chunks"}
  BY <1>1, <1>2 DEF OutInv
<1>3. CASE pc = "koly"
  BY <1>1, <1>3 DEF OutInv
<1>4. CASE pc \in {"flush", "close", "done"}
  BY <1>1, <1>4 DEF OutInv, Finished
<1> QED
  BY <1>2, <1>3, <1>4 DEF FrameTypes

\* Everything but the output and the phase is as it was, and the runs find their
\* bytes where they were.
LEMMA QuietStep ==
    ASSUME FrameInv, Quiet, Grows, buffer' \in Seq(OutCells), file' \in Seq(OutCells),
           pc' \in Phases,
           pc' \in {"chunks"} \cup Finished => SpecsAccepted,
           pc' \in Finished => Len(tables) = SpecCount
    PROVE  FrameTypes' /\ InputInv' /\ PlaceInv' /\ RunsInv' /\ SumInv'
<1> USE DEF FrameInv
<1>0. /\ UNCHANGED input /\ first' = first /\ at' = at /\ runs' = runs /\ tables' = tables
      /\ dataForkLen' = dataForkLen /\ tableCRC' = tableCRC /\ dataForkCRC' = dataForkCRC
      /\ framed' = framed /\ sectors' = sectors /\ source' = source /\ regions' = regions
  BY DEF Quiet, input
<1>1. FrameTypes'
  BY <1>0 DEF FrameTypes, Phases
<1>2. InputInv'
  <2>1. VolumeLen' = VolumeLen
    BY <1>0 DEF VolumeLen
  <2> QED
    BY <1>0, <2>1 DEF InputInv
<1>3. SpecLens' = SpecLens /\ SpecCount' = SpecCount /\ (SpecsAccepted' <=> SpecsAccepted)
  BY <1>0, SpecsSame
<1>4. ThisRegion' = ThisRegion /\ RegionLen' = RegionLen
  BY <1>0, <1>3 DEF ThisRegion, RegionLen
<1>5. PlaceInv'
  BY <1>0, <1>3, <1>4 DEF PlaceInv, Finished
<1>6. RunsInv'
  <2>1. CASE Flushed' = Flushed
    BY <1>0, <2>1 DEF RunsInv
  <2>2. CASE pc # "failed" /\ Extends(Flushed', Flushed)
    <3>1. dataForkLen <= Len(Flushed) /\ dataForkLen \in Nat
      BY <2>2, ForkInside DEF FrameTypes
    <3>2. \A f : \A r \in Runs : Holds(source, Flushed, dataForkLen, f, r) =>
             Holds(source, Flushed', dataForkLen, f, r)
      BY <2>2, <3>1, HoldsOn
    <3>3. \A i \in DOMAIN runs : runs[i] \in Runs
      BY ElementOfSeq, LenProperties DEF FrameTypes
    <3>4. \A i \in DOMAIN tables : \A j \in DOMAIN tables[i].runs : tables[i].runs[j] \in Runs
      <4>1. \A i \in DOMAIN tables : tables[i] \in Tables
        BY ElementOfSeq, LenProperties DEF FrameTypes
      <4>2. \A t \in Tables : t.runs \in Seq(Runs)
        BY DEF Tables
      <4> QED
        BY <4>1, <4>2, ElementOfSeq, LenProperties
    <3>5. \A i \in DOMAIN runs : Holds(source, Flushed', dataForkLen, first, runs[i])
      BY <3>2, <3>3 DEF RunsInv
    <3>6. \A i \in DOMAIN tables : \A j \in DOMAIN tables[i].runs :
             Holds(source, Flushed', dataForkLen, tables[i].first, tables[i].runs[j])
      BY <3>2, <3>4 DEF RunsInv
    <3> QED
      BY <1>0, <3>5, <3>6 DEF RunsInv
  <2> QED
    BY <2>1, <2>2 DEF Grows
<1>7. SumInv'
  BY <1>0, <1>3, <1>4 DEF SumInv
<1> QED
  BY <1>1, <1>2, <1>5, <1>6, <1>7

LEMMA OutputSame ==
    ASSUME Quiet, UNCHANGED <<buffer, file>>
    PROVE  /\ Flushed' = Flushed /\ Koly' = Koly /\ Grows /\ dataForkLen' = dataForkLen
           /\ tables' = tables
BY DEF Quiet, input, Flushed, Koly, Master, Grows

\* A step that writes nothing.
LEMMA SilentStep ==
    ASSUME FrameInv, Quiet, UNCHANGED <<buffer, file>>,
           \/ pc' = "failed"
           \/ pc' = pc
           \/ pc = "open" /\ pc' = "specs"
           \/ pc = "specs" /\ pc' = "chunks" /\ SpecsAccepted
           \/ pc = "close" /\ pc' = "done"
    PROVE  FrameInv'
<1>1. /\ Flushed' = Flushed /\ Koly' = Koly /\ Grows /\ dataForkLen' = dataForkLen
      /\ tables' = tables /\ buffer' = buffer
  BY OutputSame
<1>2. pc \in Phases /\ buffer \in Seq(OutCells) /\ file \in Seq(OutCells)
  BY DEF FrameInv, FrameTypes, Phases
<1>3. /\ pc' \in Phases /\ (pc' \in {"chunks"} \cup Finished => SpecsAccepted)
      /\ (pc' \in Finished => Len(tables) = SpecCount)
  BY <1>2 DEF FrameInv, PlaceInv, Finished, Phases
<1>4. FrameTypes' /\ InputInv' /\ PlaceInv' /\ RunsInv' /\ SumInv'
  BY <1>1, <1>2, <1>3, QuietStep
<1>5. OutInv'
  BY <1>1 DEF FrameInv, OutInv, Finished
<1> QED
  BY <1>4, <1>5 DEF FrameInv

LEMMA OneCell ==
    ASSUME FrameTypes, NEW cell \in OutCells, Flushed' = Flushed \o <<cell>>
    PROVE  /\ Extends(Flushed', Flushed) /\ Len(Flushed') = Len(Flushed) + 1
           /\ Flushed'[Len(Flushed) + 1] = cell
<1> DEFINE cells == <<cell>>
<1>1. cells \in Seq(OutCells) /\ Len(cells) = 1 /\ cells[1] = cell /\ 1 \in 1 .. Len(cells)
  OBVIOUS
<1>2. Flushed \in Seq(OutCells) /\ Flushed' = Flushed \o cells
  BY FlushedType
<1> HIDE DEF cells
<1>3. /\ Extends(Flushed \o cells, Flushed)
      /\ Len(Flushed \o cells) = Len(Flushed) + Len(cells)
      /\ \A n \in 1 .. Len(cells) : (Flushed \o cells)[Len(Flushed) + n] = cells[n]
  BY <1>1, <1>2, ExtendsAppend
<1> QED
  BY <1>1, <1>2, <1>3

LEMMA XmlStep ==
    ASSUME FrameInv, WriteXml
    PROVE  FrameInv'
<1> DEFINE cell == Cell("xml", tables, 1)
<1>1. /\ pc = "chunks" /\ ThisRegion > SpecCount /\ Put(<<cell>>, "koly") /\ Quiet
  BY DEF WriteXml, Quiet
<1>2. FrameTypes /\ tables \in Seq(Tables) /\ Len(tables) \in Nat
  BY LenProperties DEF FrameInv, FrameTypes
<1>3. cell \in OutCells /\ <<cell>> \in Seq(OutCells)
  BY <1>2 DEF Cell, OutCells
<1> HIDE DEF cell
<1>4. /\ buffer' \in Seq(OutCells) /\ file' \in Seq(OutCells)
      /\ \/ pc' = "koly" /\ Flushed' = Flushed \o <<cell>>
         \/ pc' = "failed" /\ UNCHANGED <<buffer, file>>
  BY <1>1, <1>2, <1>3, PutStep
<1>5. CASE pc' = "failed" /\ UNCHANGED <<buffer, file>>
  BY <1>1, <1>5, SilentStep
<1>6. CASE pc' = "koly" /\ Flushed' = Flushed \o <<cell>>
  <2>1. /\ Extends(Flushed', Flushed) /\ Len(Flushed') = Len(Flushed) + 1
        /\ Flushed'[Len(Flushed) + 1] = cell
    BY <1>2, <1>3, <1>6, OneCell
  <2>2. Len(Flushed) = dataForkLen /\ dataForkLen' = dataForkLen /\ tables' = tables
    BY <1>1 DEF FrameInv, OutInv, Quiet
  <2>3. Len(tables) = SpecCount /\ SpecsAccepted
    BY <1>1, <1>2, SpecTypes DEF FrameInv, PlaceInv, ThisRegion
  <2>4. Grows /\ pc' \in Phases
    BY <1>1, <1>6, <2>1 DEF Grows, Phases
  <2>5. FrameTypes' /\ InputInv' /\ PlaceInv' /\ RunsInv' /\ SumInv'
    BY <1>1, <1>4, <2>3, <2>4, QuietStep
  <2>6. OutInv'
    BY <1>6, <2>1, <2>2 DEF OutInv, Finished, cell
  <2> QED
    BY <2>5, <2>6 DEF FrameInv
<1> QED
  BY <1>4, <1>5, <1>6

LEMMA KolyStep ==
    ASSUME FrameInv, WriteKoly
    PROVE  FrameInv'
<1> DEFINE cell == Cell("koly", Koly, 1)
<1>1. pc = "koly" /\ Put(<<cell>>, "flush") /\ Quiet
  BY DEF WriteKoly, Quiet
<1>2. /\ FrameTypes /\ tables \in Seq(Tables) /\ Len(tables) \in Nat
      /\ dataForkLen \in Nat /\ sectors \in Nat /\ dataForkCRC \in Seq(Contents)
  BY LenProperties DEF FrameInv, FrameTypes
<1>3. Master \in Seq(Seq(Contents))
  <2>1. \A t \in Tables : t.crc \in Seq(Contents)
    BY DEF Tables
  <2>2. \A i \in 1 .. Len(tables) : tables[i].crc \in Seq(Contents)
    BY <1>2, <2>1, ElementOfSeq
  <2>3. DOMAIN tables = 1 .. Len(tables)
    BY <1>2, LenProperties
  <2> QED
    BY <1>2, <2>2, <2>3, IsASeq DEF Master
<1>4. Koly \in Trailers
  BY <1>2, <1>3 DEF Koly, Trailers
<1>5. cell \in OutCells /\ <<cell>> \in Seq(OutCells)
  <2>1. \A body \in Trailers : Cell("koly", body, 1) \in OutCells
    BY DEF Cell, OutCells
  <2>2. cell \in OutCells
    BY <1>4, <2>1
  <2> HIDE DEF cell
  <2> QED
    BY <2>2
<1> HIDE DEF cell
<1>6. /\ buffer' \in Seq(OutCells) /\ file' \in Seq(OutCells)
      /\ \/ pc' = "flush" /\ Flushed' = Flushed \o <<cell>>
         \/ pc' = "failed" /\ UNCHANGED <<buffer, file>>
  BY <1>1, <1>2, <1>5, PutStep
<1>7. CASE pc' = "failed" /\ UNCHANGED <<buffer, file>>
  BY <1>1, <1>7, SilentStep
<1>8. CASE pc' = "flush" /\ Flushed' = Flushed \o <<cell>>
  <2>1. /\ Extends(Flushed', Flushed) /\ Len(Flushed') = Len(Flushed) + 1
        /\ Flushed'[Len(Flushed) + 1] = cell
    BY <1>2, <1>5, <1>8, OneCell
  <2>2. /\ Len(Flushed) = dataForkLen + 1 /\ dataForkLen' = dataForkLen /\ tables' = tables
        /\ Flushed[dataForkLen + 1] = Cell("xml", tables, 1) /\ Koly' = Koly
    BY <1>1 DEF FrameInv, OutInv, Finished, Quiet, Koly, Master, input
  <2>3. Flushed'[dataForkLen + 1] = Cell("xml", tables, 1)
    BY <1>2, <2>1, <2>2 DEF Extends
  <2>4. Len(tables) = SpecCount /\ SpecsAccepted
    BY <1>1 DEF FrameInv, PlaceInv, Finished
  <2>5. Grows /\ pc' \in Phases
    BY <1>1, <1>8, <2>1 DEF Grows, Phases
  <2>6. FrameTypes' /\ InputInv' /\ PlaceInv' /\ RunsInv' /\ SumInv'
    BY <1>1, <1>6, <2>4, <2>5, QuietStep
  <2>7. Len(Flushed') = dataForkLen + 2 /\ Flushed'[dataForkLen + 2] = cell
    BY <1>2, <2>1, <2>2
  <2>8. OutInv'
    BY <1>8, <2>2, <2>3, <2>7 DEF OutInv, Finished, cell
  <2> QED
    BY <2>6, <2>8 DEF FrameInv
<1> QED
  BY <1>6, <1>7, <1>8

LEMMA FlushStep ==
    ASSUME FrameInv, Flush
    PROVE  FrameInv'
<1>1. pc = "flush" /\ Quiet
  BY DEF Flush, Quiet
<1>2. Flushed \in Seq(OutCells) /\ <<>> \in Seq(OutCells)
  BY FlushedType, EmptySeq DEF FrameInv
<1>3. CASE pc' = "failed" /\ UNCHANGED <<buffer, file>>
  BY <1>1, <1>3, SilentStep
<1>4. CASE file' = Flushed /\ buffer' = <<>> /\ pc' = "close"
  <2>1. Flushed' = Flushed \o <<>> /\ Flushed \o <<>> = Flushed
    BY <1>2, <1>4, ConcatEmptySeq DEF Flushed
  <2>2. Flushed' = Flushed
    BY <2>1
  <2>3. Koly' = Koly /\ dataForkLen' = dataForkLen /\ tables' = tables
    BY <1>1 DEF Quiet, input, Koly, Master
  <2>4. Len(tables) = SpecCount /\ SpecsAccepted
    BY <1>1 DEF FrameInv, PlaceInv, Finished
  <2>5. Grows /\ pc' \in Phases
    BY <1>4, <2>2 DEF Grows, Phases
  <2>6. FrameTypes' /\ InputInv' /\ PlaceInv' /\ RunsInv' /\ SumInv'
    BY <1>1, <1>2, <1>4, <2>4, <2>5, QuietStep
  <2>7. OutInv'
    BY <1>1, <1>4, <2>2, <2>3 DEF FrameInv, OutInv, Finished
  <2> QED
    BY <2>6, <2>7 DEF FrameInv
<1> QED
  BY <1>3, <1>4 DEF Flush

----------------------------------------------------------------------------
(* A chunk.                                                                 *)

BodyOf(disk, f, r) == IF r.type = "data" THEN Body(disk, f, r) ELSE <<>>

\* The sectors of a run of the region that is being written.
LEMMA BodyType ==
    ASSUME FrameTypes, PlaceInv, pc = "chunks", ThisRegion <= SpecCount,
           NEW r \in Runs, r.start + r.count <= RegionLen
    PROVE  Body(source, first, r) \in Seq(Contents) /\ BodyOf(source, first, r) \in Seq(Contents)
<1>1. r.start \in Nat /\ r.count \in Nat
  BY DEF Runs
<1>2. RegionLen \in Nat /\ first \in Nat /\ sectors \in Nat /\ first + RegionLen <= sectors
  BY RegionInside
<1>3. ASSUME NEW i \in 1 .. r.count PROVE source[first + r.start + i - 1] \in Contents
  <2>1. first + r.start + i - 1 \in 0 .. sectors - 1
    BY <1>1, <1>2
  <2> QED
    BY <2>1 DEF FrameTypes
<1>4. Body(source, first, r) \in Seq(Contents)
  BY <1>1, <1>3, IsASeq DEF Body
<1> QED
  BY <1>4, EmptySeq DEF BodyOf

LEMMA AppendBodies ==
    ASSUME NEW disk, NEW f, NEW rs \in Seq(Runs), NEW r \in Runs,
           \A i \in 1 .. Len(rs) : BodyOf(disk, f, rs[i]) \in Seq(Contents),
           BodyOf(disk, f, r) \in Seq(Contents)
    PROVE  /\ Bodies(disk, f, rs) \in Seq(Seq(Contents))
           /\ FlattenSeq(Bodies(disk, f, Append(rs, r)))
                = FlattenSeq(Bodies(disk, f, rs)) \o BodyOf(disk, f, r)
<1> DEFINE b == Bodies(disk, f, rs)
           c == Bodies(disk, f, Append(rs, r))
           e == BodyOf(disk, f, r)
<1>1. /\ Len(rs) \in Nat /\ DOMAIN rs = 1 .. Len(rs)
      /\ Append(rs, r) \in Seq(Runs) /\ Len(Append(rs, r)) = Len(rs) + 1
      /\ \A i \in 1 .. Len(rs) : Append(rs, r)[i] = rs[i]
      /\ Append(rs, r)[Len(rs) + 1] = r
  BY LenProperties, AppendProperties
<1>2. DOMAIN Append(rs, r) = 1 .. Len(rs) + 1
  BY <1>1, LenProperties
<1>3. b = [i \in 1 .. Len(rs) |-> BodyOf(disk, f, rs[i])]
  BY <1>1 DEF Bodies, BodyOf
<1>4. c = [i \in 1 .. Len(rs) + 1 |-> BodyOf(disk, f, Append(rs, r)[i])]
  BY <1>2 DEF Bodies, BodyOf
<1> HIDE DEF b, c, e
<1>5. b \in Seq(Seq(Contents))
  BY <1>1, <1>3, IsASeq
<1>6. Len(b) = Len(rs)
  BY <1>1, <1>3, <1>5, LenProperties
<1>7. /\ Append(b, e) \in Seq(Seq(Contents)) /\ Len(Append(b, e)) = Len(rs) + 1
      /\ \A i \in 1 .. Len(rs) : Append(b, e)[i] = b[i]
      /\ Append(b, e)[Len(rs) + 1] = e
  <2>1. e \in Seq(Contents)
    BY DEF e
  <2>2. /\ Append(b, e) \in Seq(Seq(Contents)) /\ Len(Append(b, e)) = Len(b) + 1
        /\ \A i \in 1 .. Len(b) : Append(b, e)[i] = b[i]
        /\ Append(b, e)[Len(b) + 1] = e
    <3>1. ASSUME NEW S, NEW g \in Seq(S), NEW h \in S
          PROVE  /\ Append(g, h) \in Seq(S) /\ Len(Append(g, h)) = Len(g) + 1
                 /\ \A i \in 1 .. Len(g) : Append(g, h)[i] = g[i]
                 /\ Append(g, h)[Len(g) + 1] = h
      BY AppendProperties
    <3> QED
      BY <1>5, <2>1, <3>1, Zenon
  <2> QED
    BY <1>6, <2>2, Zenon
<1>8. Append(b, e) \in [1 .. Len(rs) + 1 -> Seq(Contents)]
  <2> DEFINE d == Append(b, e)
  <2>1. d \in Seq(Seq(Contents)) /\ Len(d) = Len(rs) + 1
    BY <1>7
  <2> HIDE DEF d
  <2>2. d \in [1 .. Len(d) -> Seq(Contents)]
    BY <2>1, LenProperties
  <2>3. d \in [1 .. Len(rs) + 1 -> Seq(Contents)]
    BY <2>1, <2>2
  <2> QED
    BY <2>3 DEF d
<1>9. \A i \in 1 .. Len(rs) + 1 : c[i] = Append(b, e)[i]
  <2>1. ASSUME NEW i \in 1 .. Len(rs) PROVE c[i] = Append(b, e)[i]
    <3>1. i \in 1 .. Len(rs) + 1
      BY <1>1
    <3>2. c[i] = BodyOf(disk, f, Append(rs, r)[i]) /\ b[i] = BodyOf(disk, f, rs[i])
      BY <1>3, <1>4, <3>1, Zenon
    <3>3. Append(rs, r)[i] = rs[i] /\ Append(b, e)[i] = b[i]
      BY <1>1, <1>7, Zenon
    <3> QED
      BY <3>2, <3>3, Zenon
  <2>2. c[Len(rs) + 1] = Append(b, e)[Len(rs) + 1]
    <3>1. Len(rs) + 1 \in 1 .. Len(rs) + 1
      BY <1>1
    <3>2. c[Len(rs) + 1] = BodyOf(disk, f, Append(rs, r)[Len(rs) + 1])
      BY <1>4, <3>1, Zenon
    <3> QED
      BY <1>1, <1>7, <3>2, Zenon DEF e
  <2>3. \A i \in 1 .. Len(rs) + 1 : i \in 1 .. Len(rs) \/ i = Len(rs) + 1
    BY <1>1
  <2> QED
    BY <2>1, <2>2, <2>3, Zenon
<1>10. c = Append(b, e)
  BY <1>4, <1>8, <1>9
<1>11. FlattenSeq(Append(b, e)) = FlattenSeq(b) \o e
  BY <1>5, FlattenAppend DEF e
<1> QED
  BY <1>5, <1>10, <1>11 DEF b, c, e

LEMMA AppendRun ==
    ASSUME NEW rs \in Seq(Runs), NEW r \in Runs
    PROVE  /\ Len(rs) \in Nat /\ DOMAIN rs = 1 .. Len(rs)
           /\ Append(rs, r) \in Seq(Runs) /\ DOMAIN Append(rs, r) = 1 .. Len(rs) + 1
           /\ \A i \in 1 .. Len(rs) : Append(rs, r)[i] = rs[i]
           /\ Append(rs, r)[Len(rs) + 1] = r
           /\ \A i \in 1 .. Len(rs) + 1 : i \in 1 .. Len(rs) \/ i = Len(rs) + 1
           /\ \A i \in 1 .. Len(rs) : rs[i] \in Runs
<1>1. /\ Len(rs) \in Nat /\ DOMAIN rs = 1 .. Len(rs)
      /\ Append(rs, r) \in Seq(Runs) /\ Len(Append(rs, r)) = Len(rs) + 1
      /\ \A i \in 1 .. Len(rs) : Append(rs, r)[i] = rs[i]
      /\ Append(rs, r)[Len(rs) + 1] = r
  BY LenProperties, AppendProperties
<1>2. DOMAIN Append(rs, r) = 1 .. Len(rs) + 1
  BY <1>1, LenProperties
<1>3. \A i \in 1 .. Len(rs) + 1 : i \in 1 .. Len(rs) \/ i = Len(rs) + 1
  BY <1>1
<1>4. \A i \in 1 .. Len(rs) : rs[i] \in Runs
  BY ElementOfSeq
<1> QED
  BY <1>1, <1>2, <1>3, <1>4

LEMMA Associates ==
    \A a, b, c \in Seq(Contents) : (a \o b) \o c = a \o (b \o c)
BY ConcatAssociative

LEMMA SumUnder ==
    ASSUME NEW x \in Nat, NEW y \in Nat, NEW a \in Nat, NEW b \in Nat \ {0}, x + y <= a
    PROVE  x + y <= a + b
OBVIOUS

LEMMA AppendCovers ==
    ASSUME NEW rs \in Seq(Runs), NEW r \in Runs, NEW a \in Nat, Covers(rs, a), r.start = a
    PROVE  Covers(Append(rs, r), a + r.count)
<1>1. r.count \in Nat
  BY DEF Runs
<1> DEFINE q == Append(rs, r)
<1> SUFFICES ASSUME NEW s \in 0 .. (a + r.count) - 1
             PROVE  \E i \in DOMAIN q : s \in q[i].start .. q[i].start + q[i].count - 1
  <2> HIDE DEF q
  <2> SUFFICES Covers(q, a + r.count)
    BY DEF q
  <2> QED
    BY Zenon DEF Covers
<1>2. CASE s < a
  <2>1. PICK i \in DOMAIN rs : s \in rs[i].start .. rs[i].start + rs[i].count - 1
    BY <1>1, <1>2 DEF Covers
  <2>2. i \in DOMAIN Append(rs, r) /\ Append(rs, r)[i] = rs[i]
    BY <2>1, AppendRun
  <2> QED
    BY <2>1, <2>2
<1>3. CASE ~(s < a)
  <2>1. s \in r.start .. r.start + r.count - 1
    BY <1>1, <1>3
  <2>2. Len(rs) + 1 \in DOMAIN Append(rs, r) /\ Append(rs, r)[Len(rs) + 1] = r
    BY AppendRun
  <2> QED
    BY <2>1, <2>2
<1> QED
  BY <1>2, <1>3

\* One more run r, with its bytes in the output and its sectors in the checksums.
LEMMA ChunkStep ==
    ASSUME FrameInv, pc = "chunks", pc' = "chunks", ThisRegion <= SpecCount, at < RegionLen,
           UNCHANGED <<input, first, tables>>,
           NEW r \in Runs, r.start = at, r.count = ChunkLen,
           runs' = Append(runs, r), at' = at + ChunkLen,
           dataForkLen' \in Nat, dataForkLen <= dataForkLen',
           Extends(Flushed', Flushed), Len(Flushed') = dataForkLen',
           buffer' \in Seq(OutCells), file' \in Seq(OutCells),
           Holds(source, Flushed', dataForkLen', first, r),
           tableCRC' = tableCRC \o BodyOf(source, first, r),
           dataForkCRC' = dataForkCRC \o BodyOf(source, first, r)
    PROVE  FrameInv'
<1> USE DEF FrameInv
<1> DEFINE body == BodyOf(source, first, r)
<1>0. /\ UNCHANGED input /\ first' = first /\ tables' = tables /\ framed' = framed
      /\ sectors' = sectors /\ source' = source /\ regions' = regions
  BY DEF input
<1>1. /\ RegionLen \in Nat /\ first \in Nat /\ at \in Nat /\ dataForkLen \in Nat
      /\ ChunkLen \in Nat \ {0} /\ ChunkLen <= ChunkSectors /\ at + ChunkLen <= RegionLen
  BY RegionInside, ChunkType DEF FrameTypes
<1>2. /\ runs \in Seq(Runs) /\ tables \in Seq(Tables) /\ Len(tables) \in Nat
      /\ tableCRC \in Seq(Contents) /\ dataForkCRC \in Seq(Contents)
  BY LenProperties DEF FrameTypes
<1>3. body \in Seq(Contents)
  BY <1>1, BodyType
<1>4. SpecLens' = SpecLens /\ SpecCount' = SpecCount /\ (SpecsAccepted' <=> SpecsAccepted)
  BY <1>0, SpecsSame
<1>5. ThisRegion' = ThisRegion /\ RegionLen' = RegionLen
  BY <1>0, <1>4 DEF ThisRegion, RegionLen
<1>6. FrameTypes'
  <2>1. tableCRC' \in Seq(Contents) /\ dataForkCRC' \in Seq(Contents)
    BY <1>2, <1>3, ConcatProperties
  <2>2. runs' \in Seq(Runs) /\ at' \in Nat
    BY <1>1, <1>2, AppendRun
  <2> QED
    BY <1>0, <2>1, <2>2 DEF FrameTypes
<1>7. InputInv'
  <2>1. VolumeLen' = VolumeLen
    BY <1>0 DEF VolumeLen
  <2> QED
    BY <1>0, <2>1 DEF InputInv
<1>8. PlaceInv'
  BY <1>0, <1>1, <1>4, <1>5 DEF PlaceInv, Finished
<1>9. RunsInv'
  <2>1. Covers(runs', at')
    BY <1>1, <1>2, AppendCovers DEF RunsInv
  <2>2. dataForkLen <= Len(Flushed)
    BY ForkInside
  <2>3. \A f : \A q \in Runs : Holds(source, Flushed, dataForkLen, f, q) =>
           Holds(source, Flushed', dataForkLen', f, q)
    BY <1>1, <2>2, HoldsOn
  <2>4. ASSUME NEW i \in DOMAIN runs'
        PROVE  /\ Holds(source, Flushed', dataForkLen', first, runs'[i])
               /\ runs'[i].count <= ChunkSectors /\ runs'[i].start + runs'[i].count <= at'
    <3>1. i \in 1 .. Len(runs) \/ i = Len(runs) + 1
      BY <1>2, AppendRun
    <3>2. CASE i \in 1 .. Len(runs)
      <4>1. i \in DOMAIN runs /\ runs'[i] = runs[i] /\ runs[i] \in Runs
        BY <1>2, <3>2, AppendRun
      <4>2. /\ Holds(source, Flushed, dataForkLen, first, runs[i])
            /\ runs[i].count <= ChunkSectors /\ runs[i].start + runs[i].count <= at
        BY <4>1 DEF RunsInv
      <4>3. runs[i].start \in Nat /\ runs[i].count \in Nat
        BY <4>1 DEF Runs
      <4>4. runs[i].start + runs[i].count <= at'
        <5>1. runs[i].start + runs[i].count <= at + ChunkLen
          BY <1>1, <4>2, <4>3, SumUnder, Zenon
        <5> QED
          BY <5>1, Zenon
      <4> QED
        BY <2>3, <4>1, <4>2, <4>4
    <3>3. CASE i = Len(runs) + 1
      <4>1. runs'[i] = r
        BY <1>2, <3>3, AppendRun
      <4> QED
        BY <1>1, <4>1
    <3> QED
      BY <3>1, <3>2, <3>3
  <2>5. ASSUME NEW i \in DOMAIN tables, NEW j \in DOMAIN tables[i].runs
        PROVE  Holds(source, Flushed', dataForkLen', tables[i].first, tables[i].runs[j])
    <3>1. tables[i] \in Tables
      BY <1>2, ElementOfSeq, LenProperties
    <3>2. tables[i].runs \in Seq(Runs)
      BY <3>1 DEF Tables
    <3>3. tables[i].runs[j] \in Runs
      BY <3>2, ElementOfSeq, LenProperties
    <3> QED
      BY <2>3, <3>3 DEF RunsInv
  <2> QED
    BY <1>0, <2>1, <2>4, <2>5 DEF RunsInv
<1>10. SumInv'
  <2>1. /\ tableCRC = FlattenSeq(Bodies(source, first, runs))
        /\ dataForkCRC = FlattenSeq(Sums(tables)) \o tableCRC
    BY DEF SumInv
  <2>2. \A i \in 1 .. Len(runs) : BodyOf(source, first, runs[i]) \in Seq(Contents)
    <3> SUFFICES ASSUME NEW i \in 1 .. Len(runs)
                 PROVE  BodyOf(source, first, runs[i]) \in Seq(Contents)
      OBVIOUS
    <3>1. runs[i] \in Runs /\ i \in DOMAIN runs
      BY <1>2, AppendRun
    <3>2. runs[i].start \in Nat /\ runs[i].count \in Nat
      BY <3>1 DEF Runs
    <3>3. \A j \in DOMAIN runs : runs[j].start + runs[j].count <= at
      BY DEF RunsInv
    <3>4. runs[i].start + runs[i].count <= RegionLen
      <4> DEFINE start == runs[i].start
                 count == runs[i].count
      <4>1. start \in Nat /\ count \in Nat /\ start + count <= at
        BY <3>1, <3>2, <3>3
      <4>2. at \in Nat /\ RegionLen \in Nat /\ at <= RegionLen
        BY <1>1
      <4> HIDE DEF start, count
      <4>3. start + count <= RegionLen
        BY <4>1, <4>2
      <4> QED
        BY <4>3 DEF start, count
    <3> QED
      BY <3>1, <3>4, BodyType
  <2>3. FlattenSeq(Bodies(source, first, Append(runs, r)))
          = FlattenSeq(Bodies(source, first, runs)) \o body
    BY <1>2, <1>3, <2>2, AppendBodies
  <2>4. tableCRC' = FlattenSeq(Bodies(source', first', runs'))
    BY <1>0, <2>1, <2>3
  <2>5. dataForkCRC' = FlattenSeq(Sums(tables)) \o tableCRC'
    <3>1. FlattenSeq(Sums(tables)) \in Seq(Contents)
      <4>1. \A t \in Tables : t.crc \in Seq(Contents)
        BY DEF Tables
      <4>2. \A i \in 1 .. Len(tables) : tables[i].crc \in Seq(Contents)
        BY <1>2, <4>1, ElementOfSeq
      <4>3. DOMAIN tables = 1 .. Len(tables)
        BY <1>2, LenProperties
      <4>4. Sums(tables) \in Seq(Seq(Contents))
        BY <1>2, <4>2, <4>3, IsASeq DEF Sums
      <4> QED
        BY <4>4, FlattenType
    <3>2. dataForkCRC' = (FlattenSeq(Sums(tables)) \o tableCRC) \o body
      BY <2>1
    <3>3. (FlattenSeq(Sums(tables)) \o tableCRC) \o body
            = FlattenSeq(Sums(tables)) \o (tableCRC \o body)
      <4> DEFINE sums == FlattenSeq(Sums(tables))
      <4>1. sums \in Seq(Contents)
        BY <3>1
      <4> HIDE DEF FrameInv, body, sums
      <4>2. (sums \o tableCRC) \o body = sums \o (tableCRC \o body)
        <5>1. tableCRC \in Seq(Contents) /\ body \in Seq(Contents)
          BY <1>2, <1>3
        <5> QED
          BY <4>1, <5>1, Associates
      <4> QED
        BY <4>2 DEF sums
    <3> QED
      BY <3>2, <3>3
  <2>6. ~(ThisRegion' > SpecCount')
    <3>1. ThisRegion \in Nat /\ SpecCount \in Nat
      BY <1>2, SpecTypes DEF ThisRegion
    <3> QED
      BY <1>4, <1>5, <3>1
  <2> QED
    BY <1>0, <2>4, <2>5, <2>6 DEF SumInv
<1>11. OutInv'
  BY DEF OutInv, Finished
<1> QED
  BY <1>6, <1>7, <1>8, <1>9, <1>10, <1>11

LEMMA ZerosStep ==
    ASSUME FrameInv, EncodeZeros
    PROVE  FrameInv'
<1> DEFINE r == BlockRun("zero", ChunkLen, 0)
<1>1. /\ pc = "chunks" /\ pc' = "chunks" /\ ThisRegion <= SpecCount /\ at < RegionLen
      /\ UNCHANGED <<input, first, tables>> /\ UNCHANGED <<buffer, file>>
      /\ runs' = Append(runs, r) /\ at' = at + ChunkLen /\ dataForkLen' = dataForkLen
      /\ tableCRC' = tableCRC /\ dataForkCRC' = dataForkCRC
      /\ \A i \in DOMAIN Chunk : Chunk[i] = Zero
  BY DEF EncodeZeros
<1>2. /\ FrameTypes /\ PlaceInv /\ OutInv
  BY DEF FrameInv
<1>3. /\ ChunkLen \in Nat \ {0} /\ DOMAIN Chunk = 1 .. ChunkLen
      /\ \A i \in 1 .. ChunkLen : Chunk[i] = source[first + at + i - 1]
  BY <1>1, <1>2, ChunkType
<1>4. /\ dataForkLen \in Nat /\ at \in Nat /\ tableCRC \in Seq(Contents)
      /\ dataForkCRC \in Seq(Contents) /\ buffer \in Seq(OutCells) /\ file \in Seq(OutCells)
  BY <1>2 DEF FrameTypes
<1>5. /\ r.type = "zero" /\ r.start = at /\ r.count = ChunkLen /\ r \in Runs
  BY <1>3, <1>4 DEF BlockRun, RunStart, RunOffset, Runs
<1> HIDE DEF r
<1>6. Flushed' = Flushed /\ Len(Flushed) = dataForkLen
  BY <1>1, <1>2 DEF Flushed, OutInv
<1>7. Extends(Flushed', Flushed)
  BY <1>2, <1>6, FlushedType DEF Extends
<1>8. Holds(source, Flushed', dataForkLen', first, r)
  BY <1>1, <1>3, <1>5 DEF Holds
<1>9. BodyOf(source, first, r) = <<>>
  BY <1>5 DEF BodyOf
<1>10. tableCRC \o <<>> = tableCRC /\ dataForkCRC \o <<>> = dataForkCRC
  BY <1>4, ConcatEmptySeq
<1>11. /\ buffer' \in Seq(OutCells) /\ file' \in Seq(OutCells) /\ dataForkLen' \in Nat
       /\ dataForkLen <= dataForkLen' /\ Len(Flushed') = dataForkLen'
  BY <1>1, <1>4, <1>6
<1>12. /\ tableCRC' = tableCRC \o BodyOf(source, first, r)
       /\ dataForkCRC' = dataForkCRC \o BodyOf(source, first, r)
  BY <1>1, <1>9, <1>10
<1> QED
  BY <1>1, <1>5, <1>7, <1>8, <1>11, <1>12, ChunkStep

LEMMA CellsType ==
    ASSUME NEW body \in Seq(Contents), NEW len \in Nat
    PROVE  /\ Cells("data", body, len) \in Seq(OutCells) /\ Len(Cells("data", body, len)) = len
           /\ \A n \in 1 .. len : Cells("data", body, len)[n] = Cell("data", body, n)
<1>1. \A n \in 1 .. len : Cell("data", body, n) \in OutCells
  BY DEF Cell, OutCells
<1>2. Cells("data", body, len) \in Seq(OutCells)
  BY <1>1, IsASeq DEF Cells
<1>3. DOMAIN Cells("data", body, len) = 1 .. len
  BY DEF Cells
<1>4. Len(Cells("data", body, len)) = len
  BY <1>2, <1>3, LenProperties
<1> QED
  BY <1>2, <1>4 DEF Cells

LEMMA DataStep ==
    ASSUME FrameInv, NEW len \in PayloadLens, EncodeData(len)
    PROVE  FrameInv'
<1> DEFINE r == BlockRun("data", ChunkLen, len)
           cells == Cells("data", Chunk, len)
<1>1. /\ pc = "chunks" /\ ThisRegion <= SpecCount /\ at < RegionLen
      /\ UNCHANGED <<input, first, tables>> /\ Put(cells, pc)
      /\ IF pc' = "failed"
         THEN UNCHANGED <<runs, at, dataForkLen, tableCRC, dataForkCRC>>
         ELSE /\ runs' = Append(runs, r) /\ at' = at + ChunkLen
              /\ dataForkLen' = dataForkLen + len
              /\ tableCRC' = tableCRC \o Chunk /\ dataForkCRC' = dataForkCRC \o Chunk
  BY DEF EncodeData
<1>2. /\ FrameTypes /\ PlaceInv /\ OutInv
  BY DEF FrameInv
<1>3. /\ ChunkLen \in Nat \ {0} /\ DOMAIN Chunk = 1 .. ChunkLen /\ Chunk \in Seq(Contents)
      /\ \A i \in 1 .. ChunkLen : Chunk[i] = source[first + at + i - 1]
  BY <1>1, <1>2, ChunkType
<1>4. dataForkLen \in Nat /\ at \in Nat /\ len \in Nat \ {0}
  BY <1>2, FrameAssumption DEF FrameTypes
<1>5. /\ r.type = "data" /\ r.start = at /\ r.count = ChunkLen /\ r.offset = dataForkLen
      /\ r.length = len /\ r \in Runs
  BY <1>3, <1>4 DEF BlockRun, RunStart, RunOffset, Runs
<1>6. /\ cells \in Seq(OutCells) /\ Len(cells) = len
      /\ \A n \in 1 .. len : cells[n] = Cell("data", Chunk, n)
  BY <1>3, <1>4, CellsType
<1> HIDE DEF r, cells
<1>7. /\ buffer' \in Seq(OutCells) /\ file' \in Seq(OutCells)
      /\ \/ pc' = pc /\ Flushed' = Flushed \o cells
         \/ pc' = "failed" /\ UNCHANGED <<buffer, file>>
  BY <1>1, <1>2, <1>6, PutStep
<1>8. CASE pc' = "failed" /\ UNCHANGED <<buffer, file>>
  <2>1. Quiet
    BY <1>1, <1>8 DEF Quiet
  <2> QED
    BY <1>8, <2>1, SilentStep
<1>9. CASE pc' = pc /\ Flushed' = Flushed \o cells
  <2>1. /\ runs' = Append(runs, r) /\ at' = at + ChunkLen /\ dataForkLen' = dataForkLen + len
        /\ tableCRC' = tableCRC \o Chunk /\ dataForkCRC' = dataForkCRC \o Chunk
        /\ pc' = "chunks"
    BY <1>1, <1>9
  <2>2. Flushed \in Seq(OutCells) /\ Len(Flushed) = dataForkLen
    BY <1>1, <1>2, FlushedType DEF OutInv
  <2>3. /\ Extends(Flushed', Flushed) /\ Len(Flushed') = dataForkLen + len
        /\ \A n \in 1 .. len : Flushed'[dataForkLen + n] = cells[n]
    BY <1>6, <1>9, <2>2, ExtendsAppend
  <2>4. Body(source, first, r) = Chunk
    BY <1>5 DEF Body, Chunk
  <2>5. Holds(source, Flushed', dataForkLen', first, r)
    BY <1>4, <1>5, <1>6, <2>1, <2>3, <2>4 DEF Holds
  <2>6. BodyOf(source, first, r) = Chunk
    BY <1>5, <2>4 DEF BodyOf
  <2>7. /\ dataForkLen' \in Nat /\ dataForkLen <= dataForkLen'
        /\ Len(Flushed') = dataForkLen'
    BY <1>4, <2>1, <2>3
  <2>8. /\ tableCRC' = tableCRC \o BodyOf(source, first, r)
        /\ dataForkCRC' = dataForkCRC \o BodyOf(source, first, r)
    BY <2>1, <2>6
  <2> QED
    BY <1>1, <1>5, <1>7, <2>1, <2>3, <2>5, <2>7, <2>8, ChunkStep
<1> QED
  BY <1>7, <1>8, <1>9

----------------------------------------------------------------------------
(* The end of a region.                                                     *)

LEMMA Product ==
    ASSUME NEW a \in Nat, NEW b \in Nat, NEW d \in Nat, a <= b
    PROVE  d * a \in Nat /\ d * a <= d * b
<1>1. b - a \in Nat
  OBVIOUS
<1>2. d * (b - a) \in Nat /\ d * a \in Nat
  BY <1>1
<1>3. d * b = d * a + d * (b - a)
  BY <1>1
<1> QED
  BY <1>2, <1>3

\* Rounding a multiple up does nothing.
LEMMA Rounded ==
    ASSUME NEW k \in Nat, NEW d \in Nat \ {0}
    PROVE  (k * d + d - 1) \div d = k
<1> DEFINE n == k * d + d - 1
           q == n \div d
<1>1. n \in Nat /\ k * d = d * k /\ k * d \in Nat
  OBVIOUS
<1>2. n = d * k + d - 1
  BY <1>1
<1> HIDE DEF n
<1>3. q \in Nat /\ d * q <= n /\ n < d * q + d
  BY <1>1
<1> HIDE DEF q
<1>4. ~(q < k)
  <2> SUFFICES ASSUME q < k PROVE FALSE
    OBVIOUS
  <2>1. q + 1 \in Nat /\ q + 1 <= k
    BY <1>3
  <2>2. d * (q + 1) <= d * k
    BY <2>1, Product
  <2>3. d * (q + 1) = d * q + d
    BY <1>3
  <2> QED
    BY <1>1, <1>2, <1>3, <2>2, <2>3
<1>5. ~(k < q)
  <2> SUFFICES ASSUME k < q PROVE FALSE
    OBVIOUS
  <2>1. k + 1 \in Nat /\ k + 1 <= q
    BY <1>3
  <2>2. d * (k + 1) <= d * q
    BY <1>3, <2>1, Product
  <2>3. d * (k + 1) = d * k + d
    OBVIOUS
  <2> QED
    BY <1>1, <1>2, <1>3, <2>2, <2>3
<1>6. q = k
  BY <1>3, <1>4, <1>5
<1> QED
  BY <1>6 DEF q, n

LEMMA NoWrap ==
    ASSUME NEW n \in Nat, NEW w \in Nat \ {0}, n < w
    PROVE  n % w = n
OBVIOUS

\* The buffer a table asks for holds a chunk, or its region if that is shorter, unless
\* the bytes of a chunk do not fit the word they are cut to.
LEMMA Requested ==
    ASSUME RegionLen \in Nat
    PROVE  /\ BufferRequested \in Nat
           /\ ChunksFit => BufferRequested
                             = IF RegionLen < ChunkSectors THEN RegionLen ELSE ChunkSectors
<1> DEFINE chunkBytes == ChunkSectors * SectorBytes
           regionBytes == RegionLen * SectorBytes
           largest == IF chunkBytes > regionBytes THEN regionBytes % Word ELSE chunkBytes % Word
           padded == (largest + SectorBytes - 1) % Word
<1>0. ChunkSectors \in Nat \ {0} /\ SectorBytes \in Nat \ {0} /\ Word \in Nat \ {0}
  BY FrameAssumption
<1>1. /\ chunkBytes \in Nat /\ regionBytes \in Nat
      /\ chunkBytes = SectorBytes * ChunkSectors /\ regionBytes = SectorBytes * RegionLen
  BY <1>0
<1> HIDE DEF chunkBytes, regionBytes
<1>2. largest \in Nat
  BY <1>0, <1>1
<1> HIDE DEF largest
<1>3. padded \in Nat
  BY <1>0, <1>2
<1> HIDE DEF padded
<1>4. BufferRequested = padded \div SectorBytes
  BY DEF BufferRequested, padded, largest, chunkBytes, regionBytes
<1>5. BufferRequested \in Nat
  BY <1>0, <1>3, <1>4
<1>6. ASSUME ChunksFit
      PROVE  BufferRequested = IF RegionLen < ChunkSectors THEN RegionLen ELSE ChunkSectors
  <2>1. chunkBytes + SectorBytes - 1 < Word /\ chunkBytes < Word
    BY <1>0, <1>1, <1>6 DEF ChunksFit, chunkBytes
  <2>2. CASE RegionLen < ChunkSectors
    <3>1. RegionLen + 1 \in Nat /\ RegionLen + 1 <= ChunkSectors
      BY <1>0, <2>2
    <3>2. SectorBytes * (RegionLen + 1) <= SectorBytes * ChunkSectors
      BY <1>0, <3>1, Product
    <3>3. SectorBytes * (RegionLen + 1) = SectorBytes * RegionLen + SectorBytes
      BY <1>0
    <3>4. regionBytes < chunkBytes
      BY <1>0, <1>1, <3>2, <3>3
    <3>5. largest = regionBytes
      <4>1. regionBytes < Word /\ chunkBytes > regionBytes
        BY <1>0, <1>1, <2>1, <3>4
      <4>2. largest = regionBytes % Word
        BY <4>1 DEF largest
      <4> QED
        BY <1>0, <1>1, <4>1, <4>2, NoWrap, Zenon
    <3>6. padded = regionBytes + SectorBytes - 1
      <4>1. /\ regionBytes + SectorBytes - 1 \in Nat
            /\ regionBytes + SectorBytes - 1 < Word
        BY <1>0, <1>1, <2>1, <3>4
      <4>2. padded = (regionBytes + SectorBytes - 1) % Word
        BY <3>5 DEF padded
      <4> QED
        BY <1>0, <4>1, <4>2, NoWrap, Zenon
    <3>7. (RegionLen * SectorBytes + SectorBytes - 1) \div SectorBytes = RegionLen
      BY <1>0, Rounded
    <3> QED
      BY <1>4, <2>2, <3>6, <3>7 DEF regionBytes
  <2>3. CASE ~(RegionLen < ChunkSectors)
    <3>1. SectorBytes * ChunkSectors <= SectorBytes * RegionLen
      BY <1>0, <2>3, Product
    <3>2. ~(chunkBytes > regionBytes)
      BY <1>1, <3>1
    <3>3. largest = chunkBytes
      <4>1. largest = chunkBytes % Word
        BY <3>2 DEF largest
      <4> QED
        BY <1>0, <1>1, <2>1, <4>1, NoWrap, Zenon
    <3>4. padded = chunkBytes + SectorBytes - 1
      <4>1. chunkBytes + SectorBytes - 1 \in Nat
        BY <1>0, <1>1
      <4>2. padded = (chunkBytes + SectorBytes - 1) % Word
        BY <3>3 DEF padded
      <4> QED
        BY <1>0, <2>1, <4>1, <4>2, NoWrap, Zenon
    <3>5. (ChunkSectors * SectorBytes + SectorBytes - 1) \div SectorBytes = ChunkSectors
      BY <1>0, Rounded
    <3> QED
      BY <1>4, <2>3, <3>4, <3>5 DEF chunkBytes
  <2> QED
    BY <2>2, <2>3
<1> QED
  BY <1>5, <1>6

LEMMA AppendTable ==
    ASSUME NEW ts \in Seq(Tables), NEW t \in Tables
    PROVE  /\ Len(ts) \in Nat /\ DOMAIN ts = 1 .. Len(ts)
           /\ Append(ts, t) \in Seq(Tables) /\ DOMAIN Append(ts, t) = 1 .. Len(ts) + 1
           /\ Len(Append(ts, t)) = Len(ts) + 1
           /\ \A i \in 1 .. Len(ts) : Append(ts, t)[i] = ts[i]
           /\ Append(ts, t)[Len(ts) + 1] = t
           /\ \A i \in 1 .. Len(ts) + 1 : i \in 1 .. Len(ts) \/ i = Len(ts) + 1
<1>1. /\ Len(ts) \in Nat /\ DOMAIN ts = 1 .. Len(ts)
      /\ Append(ts, t) \in Seq(Tables) /\ Len(Append(ts, t)) = Len(ts) + 1
      /\ \A i \in 1 .. Len(ts) : Append(ts, t)[i] = ts[i]
      /\ Append(ts, t)[Len(ts) + 1] = t
  BY LenProperties, AppendProperties
<1>2. DOMAIN Append(ts, t) = 1 .. Len(ts) + 1
  BY <1>1, LenProperties
<1> QED
  BY <1>1, <1>2

LEMMA SumsType ==
    ASSUME NEW ts \in Seq(Tables)
    PROVE  /\ Sums(ts) \in Seq(Seq(Contents)) /\ Len(Sums(ts)) = Len(ts)
           /\ \A i \in 1 .. Len(ts) : Sums(ts)[i] = ts[i].crc
<1>1. \A t \in Tables : t.crc \in Seq(Contents)
  BY DEF Tables
<1>2. \A i \in 1 .. Len(ts) : ts[i].crc \in Seq(Contents)
  BY <1>1, ElementOfSeq
<1>3. DOMAIN ts = 1 .. Len(ts) /\ Len(ts) \in Nat
  BY LenProperties
<1>4. Sums(ts) = [i \in 1 .. Len(ts) |-> ts[i].crc]
  BY <1>3 DEF Sums
<1>5. Sums(ts) \in Seq(Seq(Contents))
  BY <1>2, <1>3, <1>4, IsASeq
<1>6. Len(Sums(ts)) = Len(ts)
  BY <1>3, <1>4, <1>5, LenProperties
<1> QED
  BY <1>4, <1>5, <1>6

LEMMA SumsAppend ==
    ASSUME NEW ts \in Seq(Tables), NEW t \in Tables
    PROVE  FlattenSeq(Sums(Append(ts, t))) = FlattenSeq(Sums(ts)) \o t.crc
<1> DEFINE a == Sums(Append(ts, t))
           b == Append(Sums(ts), t.crc)
<1>1. /\ Append(ts, t) \in Seq(Tables) /\ Len(ts) \in Nat
      /\ Len(Append(ts, t)) = Len(ts) + 1
      /\ \A i \in 1 .. Len(ts) : Append(ts, t)[i] = ts[i]
      /\ Append(ts, t)[Len(ts) + 1] = t
      /\ \A i \in 1 .. Len(ts) + 1 : i \in 1 .. Len(ts) \/ i = Len(ts) + 1
  BY AppendTable
<1>2. t.crc \in Seq(Contents)
  BY DEF Tables
<1>3. /\ Sums(ts) \in Seq(Seq(Contents)) /\ Len(Sums(ts)) = Len(ts)
      /\ \A i \in 1 .. Len(ts) : Sums(ts)[i] = ts[i].crc
  BY SumsType
<1>4. /\ b \in Seq(Seq(Contents)) /\ Len(b) = Len(ts) + 1
      /\ \A i \in 1 .. Len(ts) : b[i] = ts[i].crc
      /\ b[Len(ts) + 1] = t.crc
  <2>1. /\ b \in Seq(Seq(Contents)) /\ Len(b) = Len(Sums(ts)) + 1
        /\ \A i \in 1 .. Len(Sums(ts)) : b[i] = Sums(ts)[i]
        /\ b[Len(Sums(ts)) + 1] = t.crc
    BY <1>2, <1>3, AppendProperties
  <2> HIDE DEF b
  <2> QED
    BY <1>3, <2>1
<1>5. /\ a \in Seq(Seq(Contents)) /\ Len(a) = Len(ts) + 1
      /\ \A i \in 1 .. Len(ts) + 1 : a[i] = Append(ts, t)[i].crc
  BY <1>1, SumsType
<1> HIDE DEF a, b
<1>6. \A i \in 1 .. Len(a) : a[i] = b[i]
  <2> SUFFICES ASSUME NEW i \in 1 .. Len(ts) + 1 PROVE a[i] = b[i]
    BY <1>5
  <2>1. CASE i \in 1 .. Len(ts)
    BY <1>1, <1>4, <1>5, <2>1
  <2>2. CASE i = Len(ts) + 1
    BY <1>1, <1>4, <1>5, <2>2
  <2> QED
    BY <1>1, <2>1, <2>2
<1>7. a = b
  BY <1>4, <1>5, <1>6, SeqEqual
<1>8. FlattenSeq(b) = FlattenSeq(Sums(ts)) \o t.crc
  BY <1>2, <1>3, FlattenAppend DEF b
<1> QED
  BY <1>7, <1>8 DEF a

LEMMA PartUnder ==
    ASSUME NEW x \in Nat, NEW y \in Nat, NEW a \in Nat, x + y <= a
    PROVE  y <= a
OBVIOUS

\* The next table is made from the runs and the checksum of the region that ends.
LEMMA RegionStep ==
    ASSUME FrameInv, EndRegion
    PROVE  FrameInv'
<1> DEFINE last == BlockRun("terminator", 0, 0)
           d == IF regions = <<>> THEN -2 ELSE ThisRegion - 1
           t == [first |-> first, count |-> RegionLen, crc |-> tableCRC, descriptor |-> d,
                 bufferRequested |-> BufferRequested, runs |-> Append(runs, last)]
<1>1. /\ pc = "chunks" /\ pc' = "chunks" /\ ThisRegion <= SpecCount /\ at = RegionLen
      /\ tables' = Append(tables, t) /\ first' = first + RegionLen /\ at' = 0
      /\ runs' = <<>> /\ tableCRC' = <<>> /\ UNCHANGED input
      /\ dataForkLen' = dataForkLen /\ dataForkCRC' = dataForkCRC
      /\ buffer' = buffer /\ file' = file
  BY DEF EndRegion, NextAt, NextCRC
<1>2. /\ FrameTypes /\ InputInv /\ PlaceInv /\ RunsInv /\ SumInv /\ OutInv
  BY DEF FrameInv
<1>3. /\ framed' = framed /\ sectors' = sectors /\ source' = source /\ regions' = regions
  BY <1>1 DEF input
<1>4. /\ first \in Nat /\ at \in Nat /\ dataForkLen \in Nat /\ runs \in Seq(Runs)
      /\ tables \in Seq(Tables) /\ tableCRC \in Seq(Contents) /\ dataForkCRC \in Seq(Contents)
  BY <1>2 DEF FrameTypes
<1>5. /\ Len(tables) \in Nat /\ ThisRegion \in 1 .. SpecCount /\ RegionLen \in Nat
      /\ Ends(SpecLens)[ThisRegion] = first + RegionLen
  BY <1>1, <1>2, ThisRegionType
<1>6. /\ last.type = "terminator" /\ last.start = at /\ last.count = 0 /\ last \in Runs
  BY <1>4 DEF BlockRun, RunStart, RunOffset, Runs
<1> HIDE DEF last
<1>7. /\ Len(runs) \in Nat /\ DOMAIN runs = 1 .. Len(runs)
      /\ Append(runs, last) \in Seq(Runs)
      /\ DOMAIN Append(runs, last) = 1 .. Len(runs) + 1
      /\ \A i \in 1 .. Len(runs) : Append(runs, last)[i] = runs[i]
      /\ Append(runs, last)[Len(runs) + 1] = last
      /\ \A i \in 1 .. Len(runs) + 1 : i \in 1 .. Len(runs) \/ i = Len(runs) + 1
      /\ \A i \in 1 .. Len(runs) : runs[i] \in Runs
  BY <1>4, <1>6, AppendRun
<1>8. /\ BufferRequested \in Nat
      /\ ChunksFit => BufferRequested
                        = IF RegionLen < ChunkSectors THEN RegionLen ELSE ChunkSectors
  BY <1>5, Requested
<1>9. d \in Int
  BY <1>5, SpecTypes, <1>2
<1> HIDE DEF d
<1>10. /\ t \in Tables /\ t.first = first /\ t.count = RegionLen /\ t.crc = tableCRC
       /\ t.bufferRequested = BufferRequested /\ t.runs = Append(runs, last)
  BY <1>4, <1>5, <1>7, <1>8, <1>9 DEF Tables
<1> HIDE DEF t
<1>11. /\ DOMAIN tables = 1 .. Len(tables)
       /\ tables' \in Seq(Tables) /\ DOMAIN tables' = 1 .. Len(tables) + 1
       /\ Len(tables') = Len(tables) + 1
       /\ \A i \in 1 .. Len(tables) : tables'[i] = tables[i]
       /\ tables'[Len(tables) + 1] = t
       /\ \A i \in 1 .. Len(tables) + 1 : i \in 1 .. Len(tables) \/ i = Len(tables) + 1
  BY <1>1, <1>4, <1>10, AppendTable
<1>12. SpecLens' = SpecLens /\ SpecCount' = SpecCount /\ (SpecsAccepted' <=> SpecsAccepted)
  BY <1>1, SpecsSame
<1>13. FrameTypes'
  BY <1>1, <1>2, <1>3, <1>4, <1>5, <1>11, EmptySeq DEF FrameTypes
<1>14. InputInv'
  <2>1. VolumeLen' = VolumeLen
    BY <1>3 DEF VolumeLen
  <2> QED
    BY <1>2, <1>3, <2>1 DEF InputInv
<1>15. PlaceInv'
  <2>1. SpecsAccepted'
    BY <1>1, <1>2, <1>12 DEF PlaceInv
  <2>2. Len(tables') <= SpecCount' /\ first' = Ends(SpecLens')[Len(tables')]
    BY <1>1, <1>5, <1>11, <1>12 DEF ThisRegion
  <2>3. ThisRegion' <= SpecCount' => RegionLen' \in Nat
    <3>1. SpecLens' \in Seq(Nat) /\ SpecCount' = Len(SpecLens')
      BY <1>2, <1>12, SpecTypes
    <3>2. ThisRegion' \in Nat \ {0}
      BY <1>5, <1>11 DEF ThisRegion
    <3>3. RegionLen' = SpecLens'[ThisRegion']
      BY DEF RegionLen
    <3> QED
      BY <3>1, <3>2, <3>3, ElementOfSeq
  <2>4. ASSUME NEW i \in DOMAIN tables'
        PROVE  tables'[i].first = Ends(SpecLens')[i - 1] /\ tables'[i].count = SpecLens'[i]
    <3>1. CASE i \in 1 .. Len(tables)
      BY <1>2, <1>11, <1>12, <3>1 DEF PlaceInv
    <3>2. CASE i = Len(tables) + 1
      <4>1. i - 1 = Len(tables) /\ i = ThisRegion /\ tables'[i] = t
        BY <1>5, <1>11, <3>2 DEF ThisRegion
      <4>2. first = Ends(SpecLens)[Len(tables)]
        BY <1>2 DEF PlaceInv
      <4> QED
        BY <1>10, <1>12, <4>1, <4>2 DEF RegionLen
    <3> QED
      BY <1>11, <3>1, <3>2
  <2> QED
    BY <1>1, <2>1, <2>2, <2>3, <2>4 DEF PlaceInv, Finished
<1>16. RunsInv'
  <2>1. Flushed' = Flushed
    BY <1>1 DEF Flushed
  <2>2. Covers(t.runs, t.count)
    <3>1. Covers(Append(runs, last), at + last.count)
      BY <1>2, <1>4, <1>6, AppendCovers DEF RunsInv
    <3>2. at + last.count = RegionLen
      BY <1>1, <1>4, <1>6
    <3> QED
      BY <1>10, <3>1, <3>2
  <2>3. ASSUME NEW j \in DOMAIN t.runs
        PROVE  /\ Holds(source, Flushed, dataForkLen, t.first, t.runs[j])
               /\ ChunksFit => t.runs[j].count <= t.bufferRequested
    <3>1. CASE j \in 1 .. Len(runs)
      <4>1. t.runs[j] = runs[j] /\ runs[j] \in Runs /\ j \in DOMAIN runs
        BY <1>7, <1>10, <3>1
      <4>2. /\ Holds(source, Flushed, dataForkLen, first, runs[j])
            /\ runs[j].count <= ChunkSectors /\ runs[j].start + runs[j].count <= at
        BY <1>2, <4>1 DEF RunsInv
      <4>3. runs[j].start \in Nat /\ runs[j].count \in Nat
        BY <4>1 DEF Runs
      <4>4. runs[j].count <= RegionLen
        <5>1. runs[j].count <= at
          BY <1>4, <4>2, <4>3, PartUnder, Zenon
        <5> QED
          BY <1>1, <5>1
      <4> QED
        BY <1>8, <1>10, <4>1, <4>2, <4>4
    <3>2. CASE j = Len(runs) + 1
      <4>1. t.runs[j] = last
        BY <1>7, <1>10, <3>2
      <4>2. Holds(source, Flushed, dataForkLen, first, last)
        BY <1>6 DEF Holds
      <4>3. 0 <= BufferRequested
        BY <1>8
      <4> QED
        BY <1>6, <1>10, <4>1, <4>2, <4>3
    <3> QED
      BY <1>7, <1>10, <3>1, <3>2
  <2>4. ASSUME NEW i \in DOMAIN tables'
        PROVE  /\ Covers(tables'[i].runs, tables'[i].count)
               /\ \A j \in DOMAIN tables'[i].runs :
                    /\ Holds(source', Flushed', dataForkLen', tables'[i].first,
                             tables'[i].runs[j])
                    /\ ChunksFit => tables'[i].runs[j].count <= tables'[i].bufferRequested
    <3>1. CASE i \in 1 .. Len(tables)
      BY <1>1, <1>2, <1>3, <1>11, <2>1, <3>1 DEF RunsInv
    <3>2. CASE i = Len(tables) + 1
      BY <1>1, <1>3, <1>11, <2>1, <2>2, <2>3, <3>2
    <3> QED
      BY <1>11, <3>1, <3>2
  <2>5. Covers(runs', at') /\ DOMAIN runs' = {}
    BY <1>1 DEF Covers
  <2> QED
    BY <2>4, <2>5 DEF RunsInv
<1>17. SumInv'
  <2>1. /\ tableCRC = FlattenSeq(Bodies(source, first, runs))
        /\ dataForkCRC = FlattenSeq(Sums(tables)) \o tableCRC
    BY <1>2 DEF SumInv
  <2>2. t.crc = FlattenSeq(Bodies(source, t.first, t.runs))
    <3>1. BodyOf(source, first, last) = <<>> /\ <<>> \in Seq(Contents)
      BY <1>6, EmptySeq DEF BodyOf
    <3>2. ASSUME NEW i \in 1 .. Len(runs)
          PROVE  BodyOf(source, first, runs[i]) \in Seq(Contents)
      <4>1. runs[i] \in Runs /\ i \in DOMAIN runs
        BY <1>7
      <4>2. runs[i].start + runs[i].count <= RegionLen
        <5>1. runs[i].start + runs[i].count <= at
          BY <1>2, <4>1 DEF RunsInv
        <5> QED
          BY <1>1, <5>1
      <4> QED
        BY <1>1, <1>2, <4>1, <4>2, BodyType
    <3>3. FlattenSeq(Bodies(source, first, Append(runs, last)))
            = FlattenSeq(Bodies(source, first, runs)) \o BodyOf(source, first, last)
      BY <1>4, <1>6, <3>1, <3>2, AppendBodies
    <3>4. tableCRC \o <<>> = tableCRC
      BY <1>4, ConcatEmptySeq
    <3> QED
      BY <1>10, <2>1, <3>1, <3>3, <3>4
  <2>3. ASSUME NEW i \in DOMAIN tables'
        PROVE  tables'[i].crc = FlattenSeq(Bodies(source', tables'[i].first, tables'[i].runs))
    <3>1. CASE i \in 1 .. Len(tables)
      BY <1>2, <1>3, <1>11, <3>1 DEF SumInv
    <3>2. CASE i = Len(tables) + 1
      BY <1>3, <1>11, <2>2, <3>2
    <3> QED
      BY <1>11, <3>1, <3>2
  <2>4. dataForkCRC' = FlattenSeq(Sums(tables')) \o tableCRC'
    <3>1. FlattenSeq(Sums(tables')) = FlattenSeq(Sums(tables)) \o tableCRC
      BY <1>1, <1>4, <1>10, SumsAppend
    <3>2. FlattenSeq(Sums(tables')) = dataForkCRC
      BY <2>1, <3>1
    <3>3. dataForkCRC \o <<>> = dataForkCRC
      BY <1>4, ConcatEmptySeq
    <3> QED
      BY <1>1, <3>2, <3>3
  <2>5. tableCRC' = FlattenSeq(Bodies(source', first', runs'))
    BY <1>1, BodiesEmpty
  <2> QED
    BY <1>1, <2>3, <2>4, <2>5 DEF SumInv
<1>18. OutInv'
  BY <1>1, <1>2 DEF OutInv, Flushed, Finished
<1> QED
  BY <1>13, <1>14, <1>15, <1>16, <1>17, <1>18 DEF FrameInv

----------------------------------------------------------------------------
(* The invariant.                                                           *)

\* The type of every variable; where the tables and the runs lie; what the output
\* holds for each run; what the checksums have seen; how far the output is.
THEOREM FrameInvCorrect == FrameSpec => []FrameInv
<1>1. FrameInit => FrameInv
  BY InitInv
<1>2. FrameInv /\ [FrameNext \/ FrameOver]_vars => FrameInv'
  <2> SUFFICES ASSUME FrameInv, [FrameNext \/ FrameOver]_vars PROVE FrameInv'
    OBVIOUS
  <2>1. CASE Open
    <3>1. pc = "open" /\ pc' \in {"specs", "failed"} /\ Quiet /\ UNCHANGED <<buffer, file>>
      BY <2>1 DEF Open, Quiet
    <3> QED
      BY <3>1, SilentStep
  <2>2. CASE CheckSpecs
    <3>1. /\ Quiet /\ UNCHANGED <<buffer, file>> /\ pc = "specs"
          /\ pc' = "failed" \/ (SpecsAccepted /\ pc' = "chunks")
      BY <2>2 DEF CheckSpecs, Quiet
    <3> QED
      BY <3>1, SilentStep
  <2>3. CASE EncodeZeros
    BY <2>3, ZerosStep
  <2>4. CASE \E len \in PayloadLens : EncodeData(len)
    BY <2>4, DataStep
  <2>5. CASE ChunkFails
    <3>1. Quiet /\ UNCHANGED <<buffer, file>> /\ pc' = "failed"
      BY <2>5 DEF ChunkFails, Quiet
    <3> QED
      BY <3>1, SilentStep
  <2>6. CASE EndRegion
    BY <2>6, RegionStep
  <2>7. CASE WriteXml
    BY <2>7, XmlStep
  <2>8. CASE WriteKoly
    BY <2>8, KolyStep
  <2>9. CASE Flush
    BY <2>9, FlushStep
  <2>10. CASE Close
    <3>1. /\ Quiet /\ UNCHANGED <<buffer, file>> /\ pc = "close"
          /\ pc' \in {"done", "failed"}
      BY <2>10 DEF Close, Quiet
    <3> QED
      BY <3>1, SilentStep
  <2>11. CASE UNCHANGED vars
    <3>1. Quiet /\ UNCHANGED <<buffer, file>> /\ pc' = pc
      BY <2>11 DEF vars, Quiet, input
    <3> QED
      BY <3>1, SilentStep
  <2> QED
    BY <2>1, <2>2, <2>3, <2>4, <2>5, <2>6, <2>7, <2>8, <2>9, <2>10, <2>11
    DEF FrameNext, FrameOver
<1> QED
  BY <1>1, <1>2, PTL DEF FrameSpec

----------------------------------------------------------------------------
(* What a reader of a finished image finds.                                 *)

LEMMA Done ==
    ASSUME FrameInv, pc = "done"
    PROVE  /\ file = Flushed /\ file \in Seq(OutCells) /\ dataForkLen \in Nat
           /\ Len(file) = dataForkLen + 2 /\ file[Len(file)].kind = "koly"
           /\ file[dataForkLen + 1].kind = "xml"
           /\ Trailer = Koly /\ XmlTables = tables /\ Trailer.xmlOffset = dataForkLen
           /\ Trailer.xmlLen = 1 /\ Trailer.dataForkLen = dataForkLen
           /\ Trailer.sectors = sectors /\ Trailer.dataCRC = dataForkCRC
           /\ Trailer.master = Sums(tables)
           /\ SpecsAccepted /\ Len(tables) = SpecCount
           /\ tables \in Seq(Tables) /\ DOMAIN tables = 1 .. SpecCount
<1>1. /\ buffer = <<>> /\ file \in Seq(OutCells) /\ dataForkLen \in Nat
      /\ tables \in Seq(Tables)
  BY DEF FrameInv, FrameTypes, OutInv
<1>2. file \o <<>> = file
  BY <1>1, ConcatEmptySeq
<1>3. file = Flushed
  BY <1>1, <1>2 DEF Flushed
<1>4. /\ Len(file) = dataForkLen + 2 /\ file[dataForkLen + 2] = Cell("koly", Koly, 1)
      /\ file[dataForkLen + 1] = Cell("xml", tables, 1)
  BY <1>3 DEF FrameInv, OutInv, Finished
<1>5. /\ file[Len(file)].kind = "koly" /\ file[dataForkLen + 1].kind = "xml"
      /\ Trailer = Koly
  BY <1>4 DEF Cell, Trailer
<1>6. /\ Koly.xmlOffset = dataForkLen /\ Koly.xmlLen = 1 /\ Koly.dataForkLen = dataForkLen
      /\ Koly.sectors = sectors /\ Koly.dataCRC = dataForkCRC /\ Koly.master = Sums(tables)
  BY DEF Koly, Master, Sums
<1>7. XmlTables = tables
  BY <1>4, <1>5, <1>6 DEF Cell, XmlTables
<1>8. SpecsAccepted /\ Len(tables) = SpecCount
  BY DEF FrameInv, PlaceInv, Finished
<1>9. DOMAIN tables = 1 .. SpecCount
  BY <1>1, <1>8, LenProperties
<1> QED
  BY <1>1, <1>3, <1>4, <1>5, <1>6, <1>7, <1>8, <1>9

\* Each sector is in the table of one region and of no other.
LEMMA OneTable ==
    ASSUME FrameInv, pc = "done", NEW s \in 0 .. sectors - 1
    PROVE  \E i \in DOMAIN tables :
              /\ s \in tables[i].first .. tables[i].first + tables[i].count - 1
              /\ \A j \in DOMAIN tables \ {i} :
                    ~(s \in tables[j].first .. tables[j].first + tables[j].count - 1)
<1> DEFINE E == Ends(SpecLens)
           N == SpecCount
<1>1. FrameTypes /\ PlaceInv
  BY DEF FrameInv
<1>2. DOMAIN tables = 1 .. N /\ SpecsAccepted
  BY Done
<1>3. SpecLens \in Seq(Nat) /\ N = Len(SpecLens) /\ N \in Nat
  BY <1>1, SpecTypes
<1>4. E[N] = sectors
  BY <1>1, <1>2, WholeLength
<1>5. /\ E \in [0 .. N -> Nat] /\ E[0] = 0
      /\ \A i \in 1 .. N : E[i] = E[i - 1] + SpecLens[i]
      /\ \A i, j \in 0 .. N : i <= j => E[i] <= E[j]
  BY <1>3, EndsSteps, EndsGrow
<1>6. s \in Nat /\ s < E[N]
  BY <1>1, <1>4 DEF FrameTypes
<1>7. PICK i \in 1 .. N : E[i - 1] <= s /\ s < E[i]
  <2>1. SpecLens \in Seq(Nat) /\ N = Len(SpecLens) /\ s \in Nat /\ s < Ends(SpecLens)[Len(SpecLens)]
    BY <1>3, <1>6
  <2>2. \E i \in 1 .. Len(SpecLens) : Ends(SpecLens)[i - 1] <= s /\ s < Ends(SpecLens)[i]
    BY <2>1, EndsCover
  <2> HIDE DEF N
  <2> QED
    BY <2>1, <2>2
<1> HIDE DEF E, N
<1>8. ASSUME NEW j \in 1 .. N
      PROVE  /\ tables[j].first = E[j - 1] /\ tables[j].first + tables[j].count = E[j]
             /\ tables[j].first \in Nat /\ tables[j].count \in Nat
  <2>1. tables[j] \in Tables
    BY <1>2, Done, ElementOfSeq DEF N
  <2>2. tables[j].first \in Nat /\ tables[j].count \in Nat
    BY <2>1 DEF Tables
  <2> QED
    BY <1>1, <1>2, <1>5, <2>2 DEF PlaceInv, E
<1>9. ASSUME NEW j \in 1 .. N
      PROVE  /\ j - 1 \in 0 .. N /\ j \in 0 .. N /\ E[j] \in Nat /\ E[j - 1] \in Nat
  <2>1. j - 1 \in 0 .. N /\ j \in 0 .. N
    BY <1>3
  <2>2. E \in [0 .. N -> Nat]
    BY <1>5
  <2> QED
    BY <2>1, <2>2
<1>10. s \in tables[i].first .. tables[i].first + tables[i].count - 1
  BY <1>6, <1>7, <1>8, <1>9
<1>11. ASSUME NEW j \in 1 .. N, j # i
       PROVE  ~(s \in tables[j].first .. tables[j].first + tables[j].count - 1)
  <2>1. CASE j < i
    <3>1. j <= i - 1
      BY <1>3, <2>1
    <3>2. E[j] <= E[i - 1]
      BY <1>5, <1>9, <3>1
    <3> QED
      BY <1>6, <1>7, <1>8, <1>9, <3>2
  <2>2. CASE i < j
    <3>1. i <= j - 1
      BY <1>3, <2>2
    <3>2. E[i] <= E[j - 1]
      BY <1>5, <1>9, <3>1
    <3> QED
      BY <1>6, <1>7, <1>8, <1>9, <3>2
  <2> QED
    BY <1>3, <1>11, <2>1, <2>2
<1> QED
  BY <1>2, <1>10, <1>11

\* A data run of a finished image decodes to the sectors it stands for.
LEMMA RunDecodes ==
    ASSUME FrameInv, pc = "done", NEW i \in DOMAIN tables,
           NEW j \in DOMAIN tables[i].runs, tables[i].runs[j].type = "data"
    PROVE  LET t == tables[i]
               r == t.runs[j]
           IN  /\ Decodes(r)
               /\ file[r.offset + 1].body = Body(source, t.first, r)
<1> DEFINE t == tables[i]
           r == t.runs[j]
           body == Body(source, t.first, r)
<1>1. /\ file = Flushed /\ file \in Seq(OutCells) /\ Len(file) = dataForkLen + 2
      /\ Trailer.dataForkLen = dataForkLen /\ dataForkLen \in Nat /\ tables \in Seq(Tables)
  BY Done
<1>2. t \in Tables
  BY <1>1, ElementOfSeq, LenProperties
<1>3. t.runs \in Seq(Runs)
  BY <1>2 DEF Tables
<1>4. r \in Runs
  BY <1>3, ElementOfSeq, LenProperties
<1>5. r.offset \in Nat /\ r.length \in Nat /\ r.count \in Nat
  BY <1>4 DEF Runs
<1>6. Holds(source, Flushed, dataForkLen, t.first, r)
  BY DEF FrameInv, RunsInv
<1>7. /\ r.length > 0 /\ r.offset + r.length <= dataForkLen
      /\ \A n \in 1 .. r.length : file[r.offset + n] = Cell("data", body, n)
  BY <1>1, <1>6 DEF Holds
<1> HIDE DEF r, t, body
<1>8. 1 \in 1 .. r.length /\ r.offset + 1 \in 1 .. Len(file)
  BY <1>1, <1>5, <1>7
<1>9. file[r.offset + 1] = Cell("data", body, 1) /\ file[r.offset + 1] \in OutCells
  BY <1>1, <1>7, <1>8, ElementOfSeq
<1>10. file[r.offset + 1].body = body /\ body \in Seq(Contents)
  BY <1>9 DEF Cell, OutCells
<1>11. DOMAIN body = 1 .. r.count
  BY DEF body, Body
<1>12. Len(body) = r.count
  BY <1>5, <1>10, <1>11, LenProperties
<1>13. Decodes(r)
  BY <1>1, <1>5, <1>6, <1>7, <1>10, <1>12 DEF Decodes
<1> QED
  BY <1>10, <1>13 DEF r, t, body

LEMMA SectorFound ==
    ASSUME FrameInv, pc = "done", NEW s \in 0 .. sectors - 1,
           NEW i \in DOMAIN tables,
           s \in tables[i].first .. tables[i].first + tables[i].count - 1
    PROVE  SectorFrom(tables[i], s)
<1> DEFINE t == tables[i]
<1>1. tables \in Seq(Tables)
  BY Done
<1>2. t \in Tables
  BY <1>1, ElementOfSeq, LenProperties
<1>3. t.first \in Nat /\ t.count \in Nat /\ t.runs \in Seq(Runs)
  BY <1>2 DEF Tables
<1>4. s - t.first \in 0 .. t.count - 1
  BY <1>3
<1>5. Covers(t.runs, t.count)
  BY DEF FrameInv, RunsInv
<1>6. PICK j \in DOMAIN t.runs :
         s - t.first \in t.runs[j].start .. t.runs[j].start + t.runs[j].count - 1
  BY <1>4, <1>5 DEF Covers
<1> DEFINE r == t.runs[j]
           k == s - t.first - r.start + 1
<1>7. r \in Runs
  BY <1>3, <1>6, ElementOfSeq, LenProperties
<1>8. /\ r.start \in Nat /\ r.count \in Nat /\ r.offset \in Nat
      /\ r.type \in {"zero", "data", "terminator"}
  BY <1>7 DEF Runs
<1>9. Holds(source, Flushed, dataForkLen, t.first, r)
  BY <1>6 DEF FrameInv, RunsInv
<1>10. r.type = "data" =>
          Decodes(r) /\ file[r.offset + 1].body = Body(source, t.first, r)
  BY <1>6, RunDecodes
<1>11. s - t.first \in r.start .. r.start + r.count - 1
  BY <1>6
<1> HIDE DEF r
<1>12. k \in 1 .. r.count /\ t.first + r.start + k - 1 = s
  <2>1. s \in Int
    OBVIOUS
  <2> DEFINE a == t.first
             b == r.start
             c == r.count
  <2>2. a \in Nat /\ b \in Nat /\ c \in Nat /\ s - a \in b .. b + c - 1
    BY <1>3, <1>8, <1>11
  <2> HIDE DEF a, b, c
  <2>3. s - a - b + 1 \in 1 .. c /\ a + b + (s - a - b + 1) - 1 = s
    BY <2>1, <2>2
  <2> QED
    BY <2>3 DEF a, b, c
<1>13. r.type # "terminator"
  BY <1>8, <1>9, <1>12 DEF Holds
<1>14. CASE r.type = "zero"
  <2>1. source[t.first + r.start + k - 1] = Zero
    BY <1>9, <1>12, <1>14 DEF Holds
  <2>2. source[s] = Zero
    BY <1>12, <2>1
  <2> QED
    BY <1>6, <1>11, <1>14, <2>2 DEF SectorFrom, r
<1>15. CASE r.type = "data"
  <2>1. Body(source, t.first, r)[k] = source[t.first + r.start + k - 1]
    BY <1>12 DEF Body
  <2>2. file[r.offset + 1].body[k] = source[s]
    BY <1>10, <1>12, <1>15, <2>1
  <2>3. Decodes(r) /\ r.type # "zero"
    BY <1>10, <1>15
  <2> QED
    BY <1>6, <1>11, <2>2, <2>3 DEF SectorFrom, r
<1> QED
  BY <1>8, <1>13, <1>14, <1>15

\* A finished image gives back what the source held, sector by sector, for every disk
\* and every set of regions that was accepted.
THEOREM ReadsBackCorrect == FrameSpec => []ReadsBack
<1>1. FrameInv => ReadsBack
  <2> SUFFICES ASSUME FrameInv, pc = "done"
               PROVE  /\ file # <<>> /\ file[Len(file)].kind = "koly"
                      /\ Len(file) = Trailer.xmlOffset + Trailer.xmlLen + 1
                      /\ file[Trailer.xmlOffset + 1].kind = "xml"
                      /\ Trailer.sectors = sectors
                      /\ \A s \in 0 .. sectors - 1 :
                            \E i \in DOMAIN XmlTables :
                               LET t == XmlTables[i] IN
                               /\ s \in t.first .. t.first + t.count - 1
                               /\ \A j \in DOMAIN XmlTables \ {i} :
                                     ~(s \in XmlTables[j].first
                                               .. XmlTables[j].first + XmlTables[j].count - 1)
                               /\ SectorFrom(t, s)
    BY DEF ReadsBack
  <2>1. /\ dataForkLen \in Nat /\ Len(file) = dataForkLen + 2
        /\ file[Len(file)].kind = "koly" /\ file[dataForkLen + 1].kind = "xml"
        /\ Trailer.xmlOffset = dataForkLen /\ Trailer.xmlLen = 1
        /\ Trailer.sectors = sectors /\ XmlTables = tables
    BY Done
  <2>2. file # <<>> /\ Len(file) = Trailer.xmlOffset + Trailer.xmlLen + 1
    BY <2>1
  <2>3. ASSUME NEW s \in 0 .. sectors - 1
        PROVE  \E i \in DOMAIN tables :
                  /\ s \in tables[i].first .. tables[i].first + tables[i].count - 1
                  /\ \A j \in DOMAIN tables \ {i} :
                        ~(s \in tables[j].first .. tables[j].first + tables[j].count - 1)
                  /\ SectorFrom(tables[i], s)
    <3>1. PICK i \in DOMAIN tables :
             /\ s \in tables[i].first .. tables[i].first + tables[i].count - 1
             /\ \A j \in DOMAIN tables \ {i} :
                   ~(s \in tables[j].first .. tables[j].first + tables[j].count - 1)
      BY OneTable
    <3>2. SectorFrom(tables[i], s)
      BY <3>1, SectorFound
    <3> QED
      BY <3>1, <3>2
  <2> QED
    BY <2>1, <2>2, <2>3
<1> QED
  BY <1>1, FrameInvCorrect, PTL

\* For a finished image, the buffer a table requests, in sectors as the code stores it,
\* holds each of its runs, as long as the bytes of a chunk fit the word the code cuts
\* them to: a chunk of 2^23 sectors or more makes the field too small, or 0.
THEOREM BufferHoldsRunsCorrect ==
    ASSUME ChunksFit
    PROVE  FrameSpec => []BufferHoldsRuns
<1>1. ChunksFit /\ FrameInv => BufferHoldsRuns
  BY Done DEF FrameInv, RunsInv, BufferHoldsRuns
<1> QED
  BY <1>1, FrameInvCorrect, PTL

\* Every checksum of a finished image is the one a reader computes from it.
THEOREM ChecksumsAgreeCorrect == FrameSpec => []ChecksumsAgree
<1>1. FrameInv => ChecksumsAgree
  <2> SUFFICES ASSUME FrameInv, pc = "done"
               PROVE  /\ \A i \in DOMAIN XmlTables :
                            XmlTables[i].crc = RunSum(XmlTables[i].runs)
                      /\ Trailer.dataCRC = FlattenSeq(Sums(XmlTables))
                      /\ Trailer.master = Sums(XmlTables)
    BY DEF ChecksumsAgree
  <2>1. /\ XmlTables = tables /\ Trailer.dataCRC = dataForkCRC /\ Trailer.master = Sums(tables)
        /\ Len(tables) = SpecCount /\ tables \in Seq(Tables) /\ file = Flushed
    BY Done
  <2>2. tableCRC = <<>>
    <3>1. SpecCount \in Nat /\ ThisRegion = Len(tables) + 1
      BY SpecTypes DEF FrameInv, ThisRegion
    <3>2. ThisRegion > SpecCount
      BY <2>1, <3>1
    <3> QED
      BY <3>2 DEF FrameInv, SumInv
  <2>3. dataForkCRC = FlattenSeq(Sums(tables))
    <3>1. dataForkCRC = FlattenSeq(Sums(tables)) \o <<>>
      BY <2>2 DEF FrameInv, SumInv
    <3>2. Sums(tables) \in Seq(Seq(Contents))
      BY <2>1, SumsType
    <3>3. FlattenSeq(Sums(tables)) \in Seq(Contents)
      BY <3>2, FlattenType
    <3> QED
      BY <3>1, <3>3, ConcatEmptySeq
  <2>4. ASSUME NEW i \in DOMAIN tables PROVE tables[i].crc = RunSum(tables[i].runs)
    <3> DEFINE rs == tables[i].runs
               f == tables[i].first
    <3>1. tables[i].crc = FlattenSeq(Bodies(source, f, rs))
      BY DEF FrameInv, SumInv
    <3>2. tables[i] \in Tables
      BY <2>1, ElementOfSeq, LenProperties
    <3>3. rs \in Seq(Runs)
      BY <3>2 DEF Tables
    <3>4. ASSUME NEW j \in DOMAIN rs, rs[j].type = "data"
          PROVE  file[rs[j].offset + 1].body = Body(source, f, rs[j])
      <4>1. rs[j] \in Runs
        BY <3>3, ElementOfSeq, LenProperties
      <4>2. Holds(source, Flushed, dataForkLen, f, rs[j])
        BY DEF FrameInv, RunsInv
      <4>3. /\ rs[j].length > 0 /\ rs[j].length \in Nat
            /\ \A n \in 1 .. rs[j].length :
                 file[rs[j].offset + n] = Cell("data", Body(source, f, rs[j]), n)
        BY <2>1, <3>4, <4>1, <4>2 DEF Holds, Runs
      <4>4. file[rs[j].offset + 1] = Cell("data", Body(source, f, rs[j]), 1)
        BY <4>3
      <4> QED
        BY <4>4 DEF Cell
    <3> HIDE DEF rs, f
    <3>5. [j \in DOMAIN rs |-> IF rs[j].type = "data" THEN file[rs[j].offset + 1].body ELSE <<>>]
            = Bodies(source, f, rs)
      BY <3>4 DEF Bodies
    <3>6. RunSum(rs) = FlattenSeq(Bodies(source, f, rs))
      BY <3>5 DEF RunSum
    <3> QED
      BY <3>1, <3>6 DEF rs
  <2> QED
    BY <2>1, <2>3, <2>4
<1> QED
  BY <1>1, FrameInvCorrect, PTL

----------------------------------------------------------------------------
(* The regions of a partition map.                                          *)

\* The regions Create passes: those of the map, but n sectors said of the volume.
Given(v, n) == [Regions(v) EXCEPT ![5].sectors = n]

GivenAs(g, n) ==
    /\ DOMAIN g = 1 .. 7 /\ g # <<>>
    /\ g[1].sectors = 1 /\ g[2].sectors = 1 /\ g[3].sectors = EntryArraySectors
    /\ g[4].sectors = PartitionStartLBA - 2 - EntryArraySectors
    /\ g[5].sectors = n /\ g[6].sectors = EntryArraySectors /\ g[7].sectors = 1
TypesAs(g) ==
    /\ DOMAIN g = 1 .. 7
    /\ g[1].type = "MBR" /\ g[2].type = "Primary GPT Header"
    /\ g[3].type = "Primary GPT Table" /\ g[4].type = "Apple_Free"
    /\ g[5].type = "Apple_HFSX" /\ g[6].type = "Backup GPT Table"
    /\ g[7].type = "Backup GPT Header"

LEMMA GivenRegions ==
    ASSUME NEW v \in Nat, NEW n \in Nat
    PROVE  GivenAs(Given(v, n), n) /\ TypesAs(Given(v, n))
<1> DEFINE R == Regions(v)
           g == Given(v, n)
<1>1. /\ R[1] = Region("MBR", 1) /\ R[2] = Region("Primary GPT Header", 1)
      /\ R[3] = Region("Primary GPT Table", EntryArraySectors)
      /\ R[4] = Region("Apple_Free", FreeSectors) /\ R[5] = Region("Apple_HFSX", v)
      /\ R[6] = Region("Backup GPT Table", EntryArraySectors)
      /\ R[7] = Region("Backup GPT Header", 1) /\ DOMAIN R = 1 .. 7
  BY DEF Regions
<1> HIDE DEF R
<1>2. DOMAIN g = 1 .. 7
  BY <1>1 DEF Given, R
<1>3. \A i \in 1 .. 7 : i # 5 => g[i] = R[i]
  BY <1>1 DEF Given, R
<1>4. g[5] = [R[5] EXCEPT !.sectors = n]
  <2>1. DOMAIN R = 1 .. 7
    BY <1>1, Zenon
  <2>2. 5 \in DOMAIN R
    BY <2>1
  <2> QED
    BY <2>2 DEF Given, R
<1> HIDE DEF g
<1>5. \A type, k : Region(type, k).type = type /\ Region(type, k).sectors = k
  BY DEF Region
<1>6. g[5].sectors = n /\ g[5].type = R[5].type
  <2>1. \A type, k : /\ [Region(type, k) EXCEPT !.sectors = n].sectors = n
                     /\ [Region(type, k) EXCEPT !.sectors = n].type = type
    BY DEF Region
  <2>2. R[5] = Region("Apple_HFSX", v)
    BY <1>1, Zenon
  <2>3. g[5] = [Region("Apple_HFSX", v) EXCEPT !.sectors = n]
    BY <1>4, <2>2, Zenon
  <2>4. R[5].type = "Apple_HFSX"
    BY <1>5, <2>2, Zenon
  <2>5. /\ [Region("Apple_HFSX", v) EXCEPT !.sectors = n].sectors = n
        /\ [Region("Apple_HFSX", v) EXCEPT !.sectors = n].type = "Apple_HFSX"
    BY <2>1
  <2> HIDE DEF R
  <2> QED
    BY <2>3, <2>4, <2>5, Zenon
<1>7. /\ 1 \in 1 .. 7 /\ 2 \in 1 .. 7 /\ 3 \in 1 .. 7 /\ 4 \in 1 .. 7 /\ 6 \in 1 .. 7
      /\ 7 \in 1 .. 7 /\ 1 # 5 /\ 2 # 5 /\ 3 # 5 /\ 4 # 5 /\ 6 # 5 /\ 7 # 5
  OBVIOUS
<1>8. /\ g[1] = Region("MBR", 1) /\ g[2] = Region("Primary GPT Header", 1)
      /\ g[3] = Region("Primary GPT Table", EntryArraySectors)
      /\ g[4] = Region("Apple_Free", FreeSectors)
      /\ g[6] = Region("Backup GPT Table", EntryArraySectors)
      /\ g[7] = Region("Backup GPT Header", 1)
  BY <1>1, <1>3, <1>7, Zenon
<1>9. /\ g[1].sectors = 1 /\ g[2].sectors = 1 /\ g[3].sectors = EntryArraySectors
      /\ g[4].sectors = FreeSectors /\ g[6].sectors = EntryArraySectors /\ g[7].sectors = 1
      /\ g[1].type = "MBR" /\ g[2].type = "Primary GPT Header"
      /\ g[3].type = "Primary GPT Table" /\ g[4].type = "Apple_Free"
      /\ g[5].type = "Apple_HFSX" /\ g[6].type = "Backup GPT Table"
      /\ g[7].type = "Backup GPT Header"
  <2>1. /\ g[1].sectors = Region("MBR", 1).sectors
        /\ g[2].sectors = Region("Primary GPT Header", 1).sectors
        /\ g[3].sectors = Region("Primary GPT Table", EntryArraySectors).sectors
        /\ g[4].sectors = Region("Apple_Free", FreeSectors).sectors
        /\ g[6].sectors = Region("Backup GPT Table", EntryArraySectors).sectors
        /\ g[7].sectors = Region("Backup GPT Header", 1).sectors
    BY <1>8, Zenon
  <2>2. /\ g[1].type = Region("MBR", 1).type
        /\ g[2].type = Region("Primary GPT Header", 1).type
        /\ g[3].type = Region("Primary GPT Table", EntryArraySectors).type
        /\ g[4].type = Region("Apple_Free", FreeSectors).type
        /\ g[5].type = Region("Apple_HFSX", v).type
        /\ g[6].type = Region("Backup GPT Table", EntryArraySectors).type
        /\ g[7].type = Region("Backup GPT Header", 1).type
    BY <1>1, <1>6, <1>8, Zenon
  <2>3. /\ Region("MBR", 1).sectors = 1 /\ Region("Primary GPT Header", 1).sectors = 1
        /\ Region("Primary GPT Table", EntryArraySectors).sectors = EntryArraySectors
        /\ Region("Apple_Free", FreeSectors).sectors = FreeSectors
        /\ Region("Backup GPT Table", EntryArraySectors).sectors = EntryArraySectors
        /\ Region("Backup GPT Header", 1).sectors = 1
    BY <1>5, Zenon
  <2>4. /\ Region("MBR", 1).type = "MBR"
        /\ Region("Primary GPT Header", 1).type = "Primary GPT Header"
        /\ Region("Primary GPT Table", EntryArraySectors).type = "Primary GPT Table"
        /\ Region("Apple_Free", FreeSectors).type = "Apple_Free"
        /\ Region("Apple_HFSX", v).type = "Apple_HFSX"
        /\ Region("Backup GPT Table", EntryArraySectors).type = "Backup GPT Table"
        /\ Region("Backup GPT Header", 1).type = "Backup GPT Header"
    BY <1>5, Zenon
  <2> QED
    BY <2>1, <2>2, <2>3, <2>4, Zenon
<1>10. FreeSectors = PartitionStartLBA - 2 - EntryArraySectors
  BY GptAssumption DEF FreeSectors, FirstUsableLBA, EntryArrayLBA
<1>11. g # <<>>
  BY <1>2, EmptySeq
<1>12. GivenAs(g, n)
  BY <1>2, <1>6, <1>9, <1>10, <1>11, Zenon DEF GivenAs
<1>13. TypesAs(g)
  BY <1>2, <1>9, Zenon DEF TypesAs
<1> QED
  BY <1>12, <1>13, Zenon DEF g

\* Where they end.
LEMMA GivenEnds ==
    ASSUME FrameTypes, NEW v \in Nat, NEW n \in Nat, regions = Given(v, n)
    PROVE  /\ SpecCount = 7 /\ Ends(SpecLens)[0] = 0
           /\ Ends(SpecLens)[4] = PartitionStartLBA
           /\ Ends(SpecLens)[5] = PartitionStartLBA + n
           /\ Ends(SpecLens)[6] = PartitionStartLBA + n + EntryArraySectors
           /\ Ends(SpecLens)[7] = PartitionStartLBA + n + EntryArraySectors + 1
           /\ SpecLens[5] = n
<1> DEFINE l == SpecLens
<1>1. /\ DOMAIN regions = 1 .. 7 /\ regions # <<>>
      /\ regions[1].sectors = 1 /\ regions[2].sectors = 1
      /\ regions[3].sectors = EntryArraySectors
      /\ regions[4].sectors = PartitionStartLBA - 2 - EntryArraySectors
      /\ regions[5].sectors = n /\ regions[6].sectors = EntryArraySectors
      /\ regions[7].sectors = 1
  <2>1. GivenAs(regions, n)
    BY GivenRegions, Zenon
  <2> QED
    BY <2>1 DEF GivenAs
<1>2. l = [i \in 1 .. 7 |-> regions[i].sectors]
  BY <1>1 DEF SpecLens
<1>3. /\ l[1] = 1 /\ l[2] = 1 /\ l[3] = EntryArraySectors
      /\ l[4] = PartitionStartLBA - 2 - EntryArraySectors /\ l[5] = n
      /\ l[6] = EntryArraySectors /\ l[7] = 1
  BY <1>1, <1>2
<1>4. l \in Seq(Nat) /\ SpecCount = Len(l) /\ Len(l) \in Nat
  BY SpecTypes
<1>5. Len(l) = 7
  BY <1>2, <1>4, LenProperties
<1>6. /\ Ends(l) \in [0 .. 7 -> Nat] /\ Ends(l)[0] = 0
      /\ \A i \in 1 .. 7 : Ends(l)[i] = Ends(l)[i - 1] + l[i]
  BY <1>4, <1>5, EndsSteps
<1> HIDE DEF l
<1>7. /\ Ends(l)[1] = Ends(l)[0] + l[1] /\ Ends(l)[2] = Ends(l)[1] + l[2]
      /\ Ends(l)[3] = Ends(l)[2] + l[3] /\ Ends(l)[4] = Ends(l)[3] + l[4]
      /\ Ends(l)[5] = Ends(l)[4] + l[5] /\ Ends(l)[6] = Ends(l)[5] + l[6]
      /\ Ends(l)[7] = Ends(l)[6] + l[7]
  BY <1>6
<1> QED
  BY <1>3, <1>4, <1>5, <1>6, <1>7, GptAssumption DEF l

LEMMA GivenTotal ==
    ASSUME FrameInv, framed
    PROVE  /\ VolumeLen \in Nat \ {0}
           /\ sectors = PartitionStartLBA + VolumeLen + EntryArraySectors + 1
<1>1. VolumeLen \in Nat \ {0} /\ sectors \in Nat
  BY DEF FrameInv, FrameTypes, InputInv
<1> QED
  BY <1>1, GptAssumption DEF VolumeLen, BackupSectors

LEMMA WholeMap ==
    ASSUME NEW v \in Nat
    PROVE  Given(v, v) = Regions(v)
<1> DEFINE R == Regions(v)
<1>1. DOMAIN R = 1 .. 7 /\ R[5] = Region("Apple_HFSX", v) /\ R = [i \in 1 .. 7 |-> R[i]]
  BY DEF Regions
<1>2. [Region("Apple_HFSX", v) EXCEPT !.sectors = v] = Region("Apple_HFSX", v)
  BY DEF Region
<1> HIDE DEF R
<1>3. [R EXCEPT ![5] = R[5]] = R
  BY <1>1
<1>4. Given(v, v) = [R EXCEPT ![5] = [R[5] EXCEPT !.sectors = v]]
  BY DEF Given, R
<1> QED
  BY <1>1, <1>2, <1>3, <1>4 DEF R

\* The writer accepts the regions of every map.
THEOREM MapAcceptedCorrect == FrameSpec => []MapAccepted
<1>1. FrameInv => MapAccepted
  <2> SUFFICES ASSUME FrameInv, pc = "specs", framed, regions = Regions(VolumeLen)
               PROVE  SpecsAccepted
    BY DEF MapAccepted, VolumeLen
  <2> DEFINE v == VolumeLen
  <2>1. FrameTypes
    BY DEF FrameInv
  <2>2. v \in Nat \ {0} /\ sectors = PartitionStartLBA + v + EntryArraySectors + 1
    BY GivenTotal
  <2> HIDE DEF v
  <2>3. regions = Given(v, v)
    BY <2>2, WholeMap DEF v
  <2>4. SpecCount = 7 /\ Ends(SpecLens)[7] = PartitionStartLBA + v + EntryArraySectors + 1
    BY <2>1, <2>2, <2>3, GivenEnds
  <2>5. GivenAs(regions, v)
    BY <2>2, <2>3, GivenRegions, Zenon
  <2>6. ASSUME NEW i \in DOMAIN regions PROVE regions[i].sectors > 0
    <3>1. EntryArraySectors > 0 /\ PartitionStartLBA - 2 - EntryArraySectors > 0 /\ v > 0
      BY <2>2, GptAssumption DEF FirstUsableLBA, EntryArrayLBA
    <3>2. i = 1 \/ i = 2 \/ i = 3 \/ i = 4 \/ i = 5 \/ i = 6 \/ i = 7
      BY <2>5 DEF GivenAs
    <3> QED
      BY <2>5, <3>1, <3>2 DEF GivenAs
  <2> QED
    BY <2>2, <2>4, <2>6 DEF SpecsAccepted
<1> QED
  BY <1>1, FrameInvCorrect, PTL

LEMMA SpanFound ==
    ASSUME NEW g, TypesAs(g)
    PROVE  /\ (CHOOSE i \in DOMAIN g : g[i].type = "Apple_HFSX") = 5
           /\ (CHOOSE i \in DOMAIN g : g[i].type = "Backup GPT Table") = 6
           /\ (CHOOSE i \in DOMAIN g : g[i].type = "Backup GPT Header") = 7
<1> DEFINE a == CHOOSE i \in DOMAIN g : g[i].type = "Apple_HFSX"
           b == CHOOSE i \in DOMAIN g : g[i].type = "Backup GPT Table"
           c == CHOOSE i \in DOMAIN g : g[i].type = "Backup GPT Header"
<1>1. DOMAIN g = 1 .. 7
  BY Zenon DEF TypesAs
<1>2. 5 \in DOMAIN g /\ 6 \in DOMAIN g /\ 7 \in DOMAIN g
  BY <1>1
<1>3. /\ a \in DOMAIN g /\ g[a].type = "Apple_HFSX"
      /\ b \in DOMAIN g /\ g[b].type = "Backup GPT Table"
      /\ c \in DOMAIN g /\ g[c].type = "Backup GPT Header"
  BY <1>2, Zenon DEF TypesAs
<1> HIDE DEF a, b, c
<1>4. \A i \in DOMAIN g : i = 1 \/ i = 2 \/ i = 3 \/ i = 4 \/ i = 5 \/ i = 6 \/ i = 7
  BY <1>1
<1>5. a = 5
  BY <1>3, <1>4, Zenon DEF TypesAs
<1>6. b = 6
  BY <1>3, <1>4, Zenon DEF TypesAs
<1>7. c = 7
  BY <1>3, <1>4, Zenon DEF TypesAs
<1> QED
  BY <1>5, <1>6, <1>7 DEF a, b, c

\* The headers, the entry arrays and the volume lie where the partition map names
\* them, and the tables of the image count from there.
THEOREM MapLeadsToVolumeCorrect == FrameSpec => []MapLeadsToVolume
<1>1. FrameInv => MapLeadsToVolume
  <2> SUFFICES ASSUME FrameInv, pc = "done", framed PROVE MapLeadsToVolume
    BY DEF MapLeadsToVolume
  <2> DEFINE v == VolumeLen
             p == GptHeader("primary", v)
             q == GptHeader("backup", v)
             a == CHOOSE i \in DOMAIN regions : regions[i].type = "Apple_HFSX"
             b == CHOOSE i \in DOMAIN regions : regions[i].type = "Backup GPT Table"
             c == CHOOSE i \in DOMAIN regions : regions[i].type = "Backup GPT Header"
  <2>1. FrameTypes /\ PlaceInv /\ InputInv
    BY DEF FrameInv
  <2>2. v \in Nat \ {0} /\ sectors = PartitionStartLBA + v + EntryArraySectors + 1
    BY GivenTotal
  <2>3. PICK n \in Nat : regions = Given(v, n)
    BY <2>1 DEF InputInv, Given
  <2>4. PICK volume : source = Framed(v, volume)
    BY <2>1 DEF InputInv
  <2> HIDE DEF v
  <2>5. /\ SpecCount = 7 /\ Ends(SpecLens)[4] = PartitionStartLBA
        /\ Ends(SpecLens)[5] = PartitionStartLBA + n
        /\ Ends(SpecLens)[6] = PartitionStartLBA + n + EntryArraySectors
        /\ Ends(SpecLens)[7] = PartitionStartLBA + n + EntryArraySectors + 1
        /\ SpecLens[5] = n
    BY <2>1, <2>2, <2>3, GivenEnds
  <2>6. /\ XmlTables = tables /\ SpecsAccepted /\ DOMAIN tables = 1 .. SpecCount
    BY Done
  <2>7. n = v
    <3>1. Ends(SpecLens)[7] = sectors
      BY <2>1, <2>5, <2>6, WholeLength
    <3> QED
      BY <2>2, <2>5, <3>1, GptAssumption
  <2>8. /\ tables[5].first = PartitionStartLBA /\ tables[5].count = v
        /\ tables[6].first = PartitionStartLBA + v
        /\ tables[7].first = PartitionStartLBA + v + EntryArraySectors
    <3>1. 5 \in DOMAIN tables /\ 6 \in DOMAIN tables /\ 7 \in DOMAIN tables
      BY <2>5, <2>6
    <3>2. /\ tables[5].first = Ends(SpecLens)[5 - 1] /\ tables[5].count = SpecLens[5]
          /\ tables[6].first = Ends(SpecLens)[6 - 1] /\ tables[7].first = Ends(SpecLens)[7 - 1]
      BY <2>1, <3>1 DEF PlaceInv
    <3> QED
      BY <2>5, <2>7, <3>2
  <2>9. a = 5 /\ b = 6 /\ c = 7
    <3>1. TypesAs(regions)
      BY <2>2, <2>3, GivenRegions, Zenon
    <3> QED
      BY <3>1, SpanFound, Zenon
  <2> HIDE DEF a, b, c
  <2>10. /\ p.alternate = PartitionStartLBA + v + EntryArraySectors
         /\ q.entries = PartitionStartLBA + v
         /\ Entry(v).first = PartitionStartLBA
         /\ Entry(v).last - Entry(v).first + 1 = v
    BY <2>2, GptAssumption
    DEF GptHeader, Entry, LastLBA, LastUsableLBA, PartitionLastLBA, TotalSectors, BackupSectors
  <2>11. /\ source[p.my] = Content("primary", 0) /\ source[p.alternate] = Content("backup", 0)
         /\ source[p.entries] = Content("entries", 0)
         /\ source[q.entries] = Content("entries", 0)
    <3>1. v \in Nat
      BY <2>2
    <3> DEFINE end == Ends(Lens(v))
               disk == Framed(v, volume)
    <3>2. /\ disk[end[1]] = Content("primary", 0) /\ disk[end[2]] = Content("entries", 0)
          /\ disk[end[5]] = Content("entries", 0) /\ disk[end[6]] = Content("backup", 0)
      BY <3>1, StreamAgrees, Zenon
    <3>3. /\ end[1] = 1 /\ end[2] = 2 /\ end[5] = PartitionStartLBA + v
          /\ end[6] = PartitionStartLBA + v + EntryArraySectors
      BY <3>1, LensEnds, Zenon
    <3>4. p.my = 1 /\ p.entries = 2
      BY DEF GptHeader, EntryArrayLBA
    <3> HIDE DEF end, disk, p, q
    <3>5. /\ disk[p.my] = Content("primary", 0) /\ disk[p.entries] = Content("entries", 0)
          /\ disk[q.entries] = Content("entries", 0)
          /\ disk[p.alternate] = Content("backup", 0)
      BY <2>10, <3>2, <3>3, <3>4, Zenon
    <3>6. source = disk
      BY <2>4 DEF disk
    <3> QED
      BY <3>5, <3>6, Zenon
  <2>12. GeometryAgrees(v)
    BY <2>2, GeometryCorrect
  <2>13. /\ XmlTables[a].first = Entry(v).first
         /\ XmlTables[a].count = Entry(v).last - Entry(v).first + 1
         /\ XmlTables[b].first = q.entries /\ XmlTables[c].first = p.alternate
    BY <2>6, <2>8, <2>9, <2>10
  <2> QED
    BY <2>11, <2>12, <2>13, Zenon DEF MapLeadsToVolume, v, VolumeLen, a, b, c
<1> QED
  BY <1>1, FrameInvCorrect, PTL
=============================================================================
