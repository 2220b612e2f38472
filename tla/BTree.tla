------------------------------- MODULE BTree --------------------------------
(* BuildTree and PadToBlocks of internal/hfsplus/btree.go: sorted records  *)
(* are packed greedily into leaves, index levels are built until one node  *)
(* is left, map nodes are added until the map describes the tree and its   *)
(* own nodes, and the nodes are numbered and emitted.  A record is the     *)
(* sizes of its key and data, and its key is its position; sizes that the  *)
(* format fixes are constants, with their values in the code.              *)
EXTENDS Integers, Sequences, FiniteSets

CONSTANTS
    NodeSize,
    Descriptor,         \* 14, the node descriptor
    HeaderRecords,      \* 106 + 128, header record and user data
    Slot,               \* 2, an entry of the offset table
    KeyLength,          \* 2, the length in front of a key
    Pointer,            \* 4, a child's node number
    ByteBits,           \* 8
    KeySizes, DataSizes,
    MaxRecords,         \* bound on the number of records
    BlockSizes          \* the block sizes the tree may be padded for

\* The data of a catalog or an attribute record is wider than a node number.
ASSUME BTreeAssumption ==
    /\ NodeSize \in Nat /\ Descriptor \in Nat /\ HeaderRecords \in Nat
    /\ Slot \in Nat \ {0} /\ KeyLength \in Nat /\ Pointer \in Nat
    /\ ByteBits \in Nat \ {0}
    /\ NodeSize > Descriptor + HeaderRecords + 4 * Slot
    /\ KeySizes \subseteq Nat /\ DataSizes \subseteq Nat
    /\ \A d \in DataSizes : d >= Pointer
    /\ MaxRecords \in Nat
    /\ BlockSizes \subseteq Nat \ {0}

VARIABLES
    pc,
    records,
    pos, cur, used, nodes,      \* the level being packed
    levels,                     \* the levels built, leaves first
    totalNodes, mapNodes,
    assigned, nextNode,         \* the node numbers of each level
    image,                      \* the bytes, node by node
    blockSize                   \* 0 until PadToBlocks is called

vars == <<pc, records, pos, cur, used, nodes, levels, totalNodes, mapNodes,
          assigned, nextNode, image, blockSize>>

----------------------------------------------------------------------------
(* The sizes.                                                              *)

mapBitsInHeaderNode == (NodeSize - Descriptor - 4 * Slot - HeaderRecords) * ByteBits
mapBitsInMapNode == (NodeSize - Descriptor - 2 * Slot) * ByteBits
MapCoverage == mapBitsInHeaderNode + mapNodes * mapBitsInMapNode

\* A record with its slot in the offset table.  Mutant: without it.
LeafSize_NoSlot(r) == KeyLength + records[r].key + records[r].data
LeafSize(r) == KeyLength + records[r].key + records[r].data + Slot
IndexSize(r) == KeyLength + records[r].key + Pointer + Slot
EmptyNode == Descriptor + Slot

----------------------------------------------------------------------------
(* Packing.  A level has the items of its nodes, records or positions in   *)
(* the level below, and the first record under each node.                  *)

BTreeInit ==
    /\ pc = "leaves"
    /\ \E n \in 0 .. MaxRecords : records \in [1 .. n -> [key : KeySizes, data : DataSizes]]
    /\ pos = 1 /\ cur = <<>> /\ used = EmptyNode /\ nodes = <<>>
    /\ levels = <<>>
    /\ totalNodes = 1 /\ mapNodes = 0
    /\ assigned = <<>> /\ nextNode = 1
    /\ image = <<>>
    /\ blockSize = 0

Top == levels[Len(levels)]

Closes(size) == used + size > NodeSize /\ cur # <<>>

Put(size) ==
    /\ \/ /\ Closes(size)
          /\ nodes' = Append(nodes, cur) /\ cur' = <<pos>> /\ used' = EmptyNode + size
       \/ /\ ~Closes(size)
          /\ cur' = Append(cur, pos) /\ used' = used + size
          /\ UNCHANGED nodes
    /\ pos' = pos + 1

Closed == IF cur = <<>> THEN nodes ELSE Append(nodes, cur)

Reset == pos' = 1 /\ cur' = <<>> /\ used' = EmptyNode /\ nodes' = <<>>

PackLeaf ==
    /\ pc = "leaves" /\ pos <= Len(records)
    /\ \/ /\ LeafSize(pos) + EmptyNode > NodeSize
          /\ pc' = "error" /\ UNCHANGED <<pos, cur, used, nodes>>
       \/ /\ LeafSize(pos) + EmptyNode <= NodeSize
          /\ Put(LeafSize(pos)) /\ UNCHANGED pc
    /\ UNCHANGED <<records, levels, totalNodes, mapNodes, assigned, nextNode, image, blockSize>>

LeavesPacked ==
    /\ pc = "leaves" /\ pos > Len(records)
    /\ Reset
    /\ \/ /\ records = <<>> /\ pc' = "emitHeader" /\ UNCHANGED levels
       \/ /\ records # <<>> /\ pc' = "levels"
          /\ levels' = <<[nodes |-> Closed,
                          firstKey |-> [i \in DOMAIN Closed |-> Closed[i][1]]]>>
    /\ UNCHANGED <<records, totalNodes, mapNodes, assigned, nextNode, image, blockSize>>

PackIndex ==
    /\ pc = "levels" /\ Len(Top.firstKey) > 1 /\ pos <= Len(Top.firstKey)
    /\ Put(IndexSize(Top.firstKey[pos]))
    /\ UNCHANGED <<pc, records, levels, totalNodes, mapNodes, assigned, nextNode,
                   image, blockSize>>

\* A level that is no smaller than the one below it would never end in a root.
\* Mutant: the guard only catches a level that grows.
Shrinks_OrStays == Len(Closed) <= Len(Top.firstKey)
Shrinks == Len(Closed) < Len(Top.firstKey)

LevelPacked ==
    /\ pc = "levels" /\ Len(Top.firstKey) > 1 /\ pos > Len(Top.firstKey)
    /\ \/ /\ ~Shrinks
          /\ pc' = "error" /\ UNCHANGED <<pos, cur, used, nodes, levels>>
       \/ /\ Shrinks
          /\ levels' = Append(levels,
                [nodes |-> Closed,
                 firstKey |-> [i \in DOMAIN Closed |-> Top.firstKey[Closed[i][1]]]])
          /\ Reset /\ UNCHANGED pc
    /\ UNCHANGED <<records, totalNodes, mapNodes, assigned, nextNode, image, blockSize>>

----------------------------------------------------------------------------
(* Counting and numbering.                                                 *)

\* The header node and the nodes of the levels up to l.
Widths(lvs) == [l \in DOMAIN lvs |-> Len(lvs[l].nodes)]
Counted(widths) ==
    LET count[l \in 0 .. Len(widths)] == IF l = 0 THEN 1 ELSE count[l - 1] + widths[l]
    IN  count

LevelsBuilt ==
    /\ pc = "levels" /\ Len(Top.firstKey) <= 1
    /\ totalNodes' = Counted(Widths(levels))[Len(levels)]
    /\ pc' = "map"
    /\ UNCHANGED <<records, pos, cur, used, nodes, levels, mapNodes, assigned,
                   nextNode, image, blockSize>>

\* A map node describes itself too.  Mutant: it is not counted.
TotalWithMap_NotItself == totalNodes
TotalWithMap == totalNodes + 1

AddMapNode ==
    /\ pc = "map" /\ totalNodes > MapCoverage
    /\ mapNodes' = mapNodes + 1 /\ totalNodes' = TotalWithMap
    /\ UNCHANGED <<pc, records, pos, cur, used, nodes, levels, assigned, nextNode,
                   image, blockSize>>

\* The leaves come after the header and the map nodes.
FirstNumber == 1 + mapNodes

MapSettled ==
    /\ pc = "map" /\ totalNodes <= MapCoverage
    /\ nextNode' = FirstNumber
    /\ pc' = "number"
    /\ UNCHANGED <<records, pos, cur, used, nodes, levels, totalNodes, mapNodes,
                   assigned, image, blockSize>>

NumberLevel ==
    LET l == Len(assigned) + 1 IN
    /\ pc = "number" /\ l <= Len(levels)
    /\ assigned' = Append(assigned, [i \in DOMAIN levels[l].nodes |-> nextNode + i - 1])
    /\ nextNode' = nextNode + Len(levels[l].firstKey)
    /\ UNCHANGED <<pc, records, pos, cur, used, nodes, levels, totalNodes, mapNodes,
                   image, blockSize>>

Numbered ==
    /\ pc = "number" /\ Len(assigned) = Len(levels)
    /\ pc' = "emitHeader"
    /\ UNCHANGED <<records, pos, cur, used, nodes, levels, totalNodes, mapNodes,
                   assigned, nextNode, image, blockSize>>

----------------------------------------------------------------------------
(* Emission.  A node has its links, its items and the bits it marks.  The  *)
(* items of a leaf are records; an item of an index node is the record its *)
(* key is taken from and the number of its child.                          *)

Node(kind, height, fLink, bLink, items, marks) ==
    [kind |-> kind, height |-> height, fLink |-> fLink, bLink |-> bLink,
     items |-> items, marks |-> marks]
Blank == Node("blank", 0, 0, 0, <<>>, {})

\* The record of the map ends where the offset table starts.
HeaderMap == (NodeSize - 4 * Slot - (Descriptor + HeaderRecords)) * ByteBits
MapNodeMap == (NodeSize - 2 * Slot - Descriptor) * ByteBits

\* The header record: what a reader of the tree starts from.
Header(total, free) ==
    IF levels = <<>>
    THEN [depth |-> 0, root |-> 0, first |-> 0, last |-> 0, leafRecords |-> 0,
          total |-> total, free |-> free]
    ELSE [depth |-> Len(levels), root |-> assigned[Len(levels)][1],
          first |-> assigned[1][1], last |-> assigned[1][Len(assigned[1])],
          leafRecords |-> Len(records), total |-> total, free |-> free]

\* The header node of a tree of so many nodes in so much room.
HeaderNode(built, total) ==
    Node("header", 0, IF mapNodes > 0 THEN 1 ELSE 0, 0, <<Header(total, total - built)>>,
         {n \in 0 .. built - 1 : n < HeaderMap})

EmitHeader ==
    /\ pc = "emitHeader"
    /\ image' = [n \in 0 .. totalNodes - 1 |-> IF n = 0 THEN HeaderNode(totalNodes, totalNodes)
                                             ELSE Blank]
    /\ pc' = "emitMap"
    /\ UNCHANGED <<records, pos, cur, used, nodes, levels, totalNodes, mapNodes,
                   assigned, nextNode, blockSize>>

\* Map node i goes on where the one before it stopped; a bit of its record is
\* counted from its first one.
FirstBit(i) == mapBitsInHeaderNode + i * mapBitsInMapNode
MapNode(i, built) ==
    Node("map", 0, IF i + 1 < mapNodes THEN i + 2 ELSE 0, 0, <<>>,
         {n - FirstBit(i) : n \in {m \in FirstBit(i) .. built - 1 :
                                      m - FirstBit(i) < MapNodeMap}})

EmitMapNodes ==
    /\ pc = "emitMap"
    /\ image' = [n \in DOMAIN image |->
                   IF n \in 1 .. mapNodes THEN MapNode(n - 1, totalNodes) ELSE image[n]]
    /\ pc' = IF levels = <<>> THEN "pad" ELSE "emitLevels"
    /\ UNCHANGED <<records, pos, cur, used, nodes, levels, totalNodes, mapNodes,
                   assigned, nextNode, blockSize>>

\* Mutant: an index record points at the position of the child, not its number.
Child_Position(l, c) == c
Child(l, c) == assigned[l - 1][c]

\* Mutant: the chain of a level runs into the next one.
NextLink_Runs(l, i) == assigned[l][i] + 1
NextLink(l, i) == IF i < Len(levels[l].nodes) THEN assigned[l][i + 1] ELSE 0

LevelNode(l, i) ==
    LET own == levels[l].nodes[i]
        items == IF l = 1 THEN own
                 ELSE [j \in DOMAIN own |-> [key |-> levels[l - 1].firstKey[own[j]],
                                             child |-> Child(l, own[j])]]
    IN  Node(IF l = 1 THEN "leaf" ELSE "index", l, NextLink(l, i),
             IF i > 1 THEN assigned[l][i - 1] ELSE 0, items, {})

EmitLevels ==
    /\ pc = "emitLevels"
    /\ image' = [n \in DOMAIN image |->
           IF \E l \in DOMAIN levels : \E i \in DOMAIN assigned[l] : assigned[l][i] = n
           THEN LET l == CHOOSE l \in DOMAIN levels :
                              \E i \in DOMAIN assigned[l] : assigned[l][i] = n
                IN  LevelNode(l, CHOOSE i \in DOMAIN assigned[l] : assigned[l][i] = n)
           ELSE image[n]]
    /\ pc' = "pad"
    /\ UNCHANGED <<records, pos, cur, used, nodes, levels, totalNodes, mapNodes,
                   assigned, nextNode, blockSize>>

----------------------------------------------------------------------------
(* PadToBlocks, with the blocks BuildPlan gives a tree of this size.        *)

RoundUp(n, d) == (n + d - 1) \div d
Fork(b) == RoundUp(totalNodes * NodeSize, b) * b
Describes(total) == total <= MapCoverage

Pad(b) ==
    LET total == Fork(b) \div NodeSize IN
    /\ pc = "pad"
    /\ blockSize' = b
    /\ \/ /\ Fork(b) % NodeSize # 0 \/ ~Describes(total)
          /\ pc' = "error" /\ UNCHANGED <<image, totalNodes>>
       \/ /\ Fork(b) % NodeSize = 0 /\ Describes(total)
          /\ image' = [n \in 0 .. total - 1 |->
                IF n = 0 THEN [image[0] EXCEPT !.items = <<Header(total, total - totalNodes)>>]
                ELSE IF n < totalNodes THEN image[n] ELSE Blank]
          /\ totalNodes' = total
          /\ pc' = "done"
    /\ UNCHANGED <<records, pos, cur, used, nodes, levels, mapNodes, assigned, nextNode>>

BTreeStep ==
    \/ PackLeaf \/ LeavesPacked \/ PackIndex \/ LevelPacked \/ LevelsBuilt
    \/ AddMapNode \/ MapSettled \/ NumberLevel \/ Numbered
    \/ EmitHeader \/ EmitMapNodes \/ EmitLevels
    \/ \E b \in BlockSizes : Pad(b)

BTreeOver == pc \in {"done", "error"} /\ UNCHANGED vars

BTreeSpec == BTreeInit /\ [][BTreeStep \/ BTreeOver]_vars

----------------------------------------------------------------------------
(* Properties.                                                             *)

\* Every variable has its type, and the index levels end in a root: the tree is never
\* higher than it has records.
BTreeTypeOK ==
    /\ pc \in {"leaves", "levels", "map", "number", "emitHeader", "emitMap",
               "emitLevels", "pad", "done", "error"}
    /\ pos \in Nat \ {0} /\ used \in EmptyNode .. NodeSize /\ cur \in Seq(Nat)
    /\ \A i \in DOMAIN nodes : nodes[i] \in Seq(Nat) /\ nodes[i] # <<>>
    /\ \A l \in DOMAIN levels : Len(levels[l].firstKey) = Len(levels[l].nodes)
    /\ totalNodes \in Nat \ {0} /\ mapNodes \in 0 .. totalNodes - 1
    /\ Len(assigned) <= Len(levels) /\ nextNode \in Nat \ {0}
    /\ blockSize \in BlockSizes \cup {0}
    /\ image # <<>> => DOMAIN image = 0 .. totalNodes - 1
    /\ Len(levels) <= Len(records)

Emitted == pc \in {"pad", "done"}

\* The header record, where a reader starts.
HeaderRec == image[0].items[1]

\* The child an index node sends a key to: the last one whose key is not greater.
Toward(n, r) ==
    LET items == image[n].items
        below == {j \in DOMAIN items : items[j].key <= r}
    IN  items[CHOOSE j \in below : \A i \in below : i <= j].child

\* What fsck and the kernel do with the tree: from the root, down to a leaf.  Every
\* record is found, whatever the levels, the map nodes and the numbers came to.
Descend(r) ==
    LET at[h \in 1 .. HeaderRec.depth] == IF h = 1 THEN HeaderRec.root ELSE Toward(at[h - 1], r)
    IN  at[HeaderRec.depth]
SearchFinds ==
    Emitted =>
        \A r \in DOMAIN records :
            LET leaf == image[Descend(r)]
            IN  leaf.kind = "leaf" /\ \E j \in DOMAIN leaf.items : leaf.items[j] = r

\* A catalog scan: the leaves from the first to the last hold every record once, in
\* order, and each link has its inverse.
ChainIsSorted ==
    Emitted =>
        LET Leaves == {n \in DOMAIN image : image[n].kind = "leaf"}
            \* one item more for each node, through its last record
            Before(n) == image[n].items[1] - 1
            Last(n) == image[n].items[Len(image[n].items)]
        IN  /\ \A n \in Leaves :
                  /\ \A j \in DOMAIN image[n].items : image[n].items[j] = Before(n) + j
                  /\ IF image[n].fLink = 0
                     THEN n = HeaderRec.last /\ Last(n) = Len(records)
                     ELSE /\ image[n].fLink \in Leaves
                          /\ Before(image[n].fLink) = Last(n)
                          /\ image[image[n].fLink].bLink = n
                  /\ image[n].bLink = 0 => n = HeaderRec.first /\ Before(n) = 0
            /\ records # <<>> => Leaves # {}
            /\ HeaderRec.leafRecords = Len(records)

\* The map as a reader puts it together, along the chain of map nodes and from the
\* lengths of their records: it has a bit for every node, the free ones and its own
\* included; every node of the tree is marked, and none that padding adds; and no map
\* node is there that is not needed.
MapBits ==
    image[0].marks \cup
    UNION {{HeaderMap + (n - 1) * MapNodeMap + b : b \in image[n].marks} :
              n \in {m \in DOMAIN image : image[m].kind = "map"}}
InUse == {n \in DOMAIN image : image[n].kind # "blank"}
MapIsExact ==
    Emitted =>
        /\ MapBits = InUse
        /\ HeaderRec.free = Cardinality(DOMAIN image \ InUse)
        /\ HeaderRec.total = Cardinality(DOMAIN image)
        /\ HeaderRec.total <= HeaderMap + mapNodes * MapNodeMap
        /\ mapNodes > 0 =>
              Cardinality(InUse) - 1 > HeaderMap + (mapNodes - 1) * MapNodeMap
        /\ \A i \in 1 .. mapNodes :
              image[i - 1].fLink = i /\ image[i].kind = "map"
        /\ image[mapNodes].fLink = 0

\* The records of a node end before its offset table starts; the code writes both
\* from the opposite ends of the node and checks neither.  And the numbers given to
\* the nodes fill the tree: none is left out or given twice, although the count, the
\* map chain and the levels are numbered apart.
SizesOf(n) ==
    [j \in DOMAIN image[n].items |->
        IF image[n].kind = "leaf"
        THEN KeyLength + records[image[n].items[j]].key + records[image[n].items[j]].data
        ELSE KeyLength + records[image[n].items[j].key].key + Pointer]
\* A node with items of these sizes, its descriptor and its offset table.
Fill(size) ==
    LET end[j \in 0 .. Len(size)] == IF j = 0 THEN Descriptor ELSE end[j - 1] + size[j]
    IN  end[Len(size)] + (Len(size) + 1) * Slot
NodesTile ==
    /\ pc = "pad" => InUse = 0 .. totalNodes - 1
    /\ Emitted => \A n \in DOMAIN image :
                     image[n].kind \in {"leaf", "index"} => Fill(SizesOf(n)) <= NodeSize

----------------------------------------------------------------------------
(* The inductive invariant.  A level is a partition of the items it is     *)
(* packed from, in order; the counts are sums over the levels; and the     *)
(* image is a function of them.                                            *)

Edge(ns, i) == IF i = 0 THEN 0 ELSE ns[i][Len(ns[i])]
Stretch(a, b) == [j \in 1 .. b - a |-> a + j]
Tiles(ns, n) ==
    /\ ns \in Seq(Seq(Nat))
    /\ \A i \in DOMAIN ns : /\ Edge(ns, i - 1) \in Nat /\ Edge(ns, i) \in Nat
                            /\ Edge(ns, i - 1) < Edge(ns, i)
                            /\ ns[i] = Stretch(Edge(ns, i - 1), Edge(ns, i))
    /\ Edge(ns, Len(ns)) = n

\* Positions of records, in order and from the first one on.
Ascends(keys, n) ==
    /\ keys \in Seq(1 .. n)
    /\ n > 0 => keys # <<>> /\ keys[1] = 1
    /\ \A i, j \in DOMAIN keys : i < j => keys[i] < keys[j]

\* The items level l is packed from, and their bytes.
Keys(recs, lvs, l) == IF l = 1 THEN [r \in DOMAIN recs |-> r] ELSE lvs[l - 1].firstKey
Bytes(recs, keys, l) ==
    [c \in DOMAIN keys |-> KeyLength + recs[keys[c]].key
                             + (IF l = 1 THEN recs[keys[c]].data ELSE Pointer)]
Of(bytes, own) == [j \in DOMAIN own |-> bytes[own[j]]]

Packed(lv, recs, keys, l) ==
    /\ Tiles(lv.nodes, Len(keys))
    /\ lv.firstKey = [i \in DOMAIN lv.nodes |-> keys[lv.nodes[i][1]]]
    /\ Ascends(lv.firstKey, Len(recs))
    /\ \A i \in DOMAIN lv.nodes : Fill(Of(Bytes(recs, keys, l), lv.nodes[i])) <= NodeSize
    /\ Len(lv.nodes) + l <= Len(recs) + 1

Packing == pc \in {"leaves", "levels"}
Settled == pc \notin {"leaves", "levels", "map", "error"}

RecordsInv ==
    /\ records \in Seq([key : KeySizes, data : DataSizes])
    /\ \A r \in DOMAIN records :
          LeafSize(r) + EmptyNode <= NodeSize \/ (pc = "leaves" /\ r >= pos) \/ pc = "error"

LevelsInv ==
    /\ levels \in Seq([nodes : Seq(Seq(Nat)), firstKey : Seq(Nat)])
    /\ \A l \in DOMAIN levels : Packed(levels[l], records, Keys(records, levels, l), l)
    /\ pc = "leaves" => levels = <<>>
    /\ pc \notin {"leaves", "error"} => (levels = <<>>) = (records = <<>>)
    /\ pc \in {"levels", "map", "number", "emitLevels"} => levels # <<>>
    /\ ~Packing /\ pc # "error" /\ levels # <<>> => Len(Top.nodes) = 1

\* Of the items with these bytes, those before p are in closed nodes or in c.
PackedTo(ns, c, p, u, bytes) ==
    /\ p \in 1 .. Len(bytes) + 1 /\ p - 1 - Len(c) \in Nat
    /\ Tiles(ns, p - 1 - Len(c))
    /\ c = Stretch(p - 1 - Len(c), p - 1)
    /\ u = Fill(Of(bytes, c)) /\ EmptyNode <= u /\ u <= NodeSize
    /\ \A i \in DOMAIN ns : Fill(Of(bytes, ns[i])) <= NodeSize

PackInv ==
    /\ cur \in Seq(Nat) /\ nodes \in Seq(Seq(Nat))
    /\ Packing => LET l == Len(levels) + 1
                  IN  PackedTo(nodes, cur, pos, used, Bytes(records, Keys(records, levels, l), l))

TreeNodes(lvs) == Counted(Widths(lvs))[Len(lvs)]
Coverage(n) == mapBitsInHeaderNode + n * mapBitsInMapNode

CountInv ==
    /\ Packing => totalNodes = 1 /\ mapNodes = 0
    /\ Packing \/ pc = "map" => assigned = <<>> /\ nextNode = 1
    /\ pc # "error" /\ mapNodes > 0 => mapNodes + TreeNodes(levels) - 1 > Coverage(mapNodes - 1)
    /\ pc \in {"map", "number", "emitHeader", "emitMap", "emitLevels", "pad"} =>
          totalNodes = mapNodes + TreeNodes(levels)
    /\ Settled => mapNodes + TreeNodes(levels) <= totalNodes /\ totalNodes <= MapCoverage

NumberInv ==
    /\ assigned \in Seq(Seq(Nat))
    /\ \A l \in DOMAIN assigned :
          /\ l \in DOMAIN levels
          /\ assigned[l] = Stretch(mapNodes + Counted(Widths(levels))[l - 1] - 1,
                                   mapNodes + Counted(Widths(levels))[l] - 1)
    /\ Settled => nextNode = mapNodes + Counted(Widths(levels))[Len(assigned)]
    /\ Settled /\ pc # "number" => Len(assigned) = Len(levels)

ImageInv ==
    /\ pc \in {"leaves", "levels", "map", "number", "emitHeader"} => image = <<>>
    /\ pc \in {"emitMap", "emitLevels", "pad", "done"} =>
          /\ DOMAIN image = 0 .. totalNodes - 1
          /\ image[0] = HeaderNode(nextNode, totalNodes)
          /\ \A n \in 1 .. mapNodes :
                image[n] = IF pc = "emitMap" THEN Blank ELSE MapNode(n - 1, nextNode)
          /\ \A l \in DOMAIN levels : \A i \in DOMAIN assigned[l] :
                image[assigned[l][i]] = IF pc \in {"emitMap", "emitLevels"} THEN Blank
                                        ELSE LevelNode(l, i)
          /\ \A n \in nextNode .. totalNodes - 1 : image[n] = Blank

BTreeInv ==
    BTreeTypeOK /\ RecordsInv /\ LevelsInv /\ PackInv /\ CountInv /\ NumberInv /\ ImageInv
=============================================================================
