------------------------------ MODULE KeyOrder ------------------------------
(* The order of the keys of the catalog and of the attributes:             *)
(* compareCatalogKeys of catalog.go, compareAttrKeys of attributes.go and  *)
(* HFSCompare of unicode.go.  A name is the sequence of its UTF-16 code    *)
(* units, and a key is what its encoder puts in the fixed places of the    *)
(* key, where the comparison reads it.  The records of both trees are      *)
(* sorted by these orders, and equal keys are looked for among neighbours. *)
EXTENDS Integers, Sequences

CodeUnits == 0 .. 2^16 - 1
IDs == 0 .. 2^32 - 1

HFSNames == Seq(CodeUnits)
CatalogKeys == [parentID : IDs, name : HFSNames]
AttrKeys == [fileID : IDs, startBlock : IDs, name : HFSNames]

Sign(m, n) == IF m < n THEN -1 ELSE IF m > n THEN 1 ELSE 0

\* Names are compared where they first differ, and by their lengths when the shorter
\* one is the beginning of the other.
Differ(a, b) == {i \in DOMAIN a \cap DOMAIN b : a[i] # b[i]}
First(S) == CHOOSE i \in S : \A j \in S : i <= j
HFSCompare(a, b) ==
    IF Differ(a, b) = {} THEN Sign(Len(a), Len(b))
    ELSE Sign(a[First(Differ(a, b))], b[First(Differ(a, b))])

compareCatalogKeys(k, l) ==
    IF k.parentID # l.parentID THEN Sign(k.parentID, l.parentID)
    ELSE HFSCompare(k.name, l.name)

compareAttrKeys(k, l) ==
    IF k.fileID # l.fileID THEN Sign(k.fileID, l.fileID)
    ELSE IF k.startBlock # l.startBlock THEN Sign(k.startBlock, l.startBlock)
    ELSE HFSCompare(k.name, l.name)

\* sort.Slice leaves no record before one that is less than it.
CatalogOrder == {p \in CatalogKeys \X CatalogKeys : ~(compareCatalogKeys(p[2], p[1]) < 0)}
AttrOrder == {p \in AttrKeys \X AttrKeys : ~(compareAttrKeys(p[2], p[1]) < 0)}

Sorted(keys, order) == \A i, j \in DOMAIN keys : i < j => <<keys[i], keys[j]>> \in order

\* What the builders of the trees refuse when the records are sorted.
CatalogRefuses(keys) == \E i \in 2 .. Len(keys) : compareCatalogKeys(keys[i - 1], keys[i]) = 0
AttrsRefuse(keys) == \E i \in 2 .. Len(keys) : compareAttrKeys(keys[i - 1], keys[i]) = 0

----------------------------------------------------------------------------
(* Properties.                                                             *)

IsTotalOrder(order, S) ==
    /\ \A k, l \in S : <<k, l>> \in order \/ <<l, k>> \in order
    /\ \A k, l \in S : <<k, l>> \in order /\ <<l, k>> \in order => k = l
    /\ \A k, l, m \in S : <<k, l>> \in order /\ <<l, m>> \in order => <<k, m>> \in order

HasEqual(keys) == \E i, j \in DOMAIN keys : i # j /\ keys[i] = keys[j]

Rearranged(s, t) ==
    /\ Len(s) = Len(t)
    /\ \E p \in [1 .. Len(s) -> 1 .. Len(s)] :
          /\ \A i, j \in 1 .. Len(s) : p[i] = p[j] => i = j
          /\ \A j \in 1 .. Len(s) : \E i \in 1 .. Len(s) : p[i] = j
          /\ \A i \in 1 .. Len(s) : t[i] = s[p[i]]
=============================================================================
