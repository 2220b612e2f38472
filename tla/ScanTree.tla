----------------------------- MODULE ScanTree ------------------------------
(* walk of dmg.go: one pass over the source folder gives every object its  *)
(* catalog number, a second one turns the objects into catalog entries,    *)
(* user files and attributes, and BuildCatalogTree makes its records.  The *)
(* folder is not locked: another program may change it at any step.        *)
(* A path is the sequence of the names below the folder.  A symbolic link  *)
(* in the folder does not lead to a directory, and the folder itself may   *)
(* be given by one that does.                                              *)
EXTENDS Integers, Sequences, Bags, FiniteSetsExt, SequencesExt

CONSTANTS
    Names,          \* names of directory entries, numbered in lexical order
    Nfd,            \* NewName: the HFS+ name of each, or TooLong
    TooLong,
    VolumeNames,    \* the HFS+ names the caller may want for the volume, or TooLong
    RootKinds,      \* what the folder given by the caller may be
    MaxDepth, MaxObjects, MaxChanges    \* bounds

NoName == 0         \* the empty name of a thread record

ASSUME ScanAssumption ==
    /\ Names \subseteq Nat /\ IsFiniteSet(Names)     \* a name has at most 255 bytes
    /\ \A n \in Names : Nfd[n] = TooLong \/ Nfd[n] \in Nat \ {NoName}
    /\ \A n \in VolumeNames : n = TooLong \/ n \in Nat \ {NoName}
    /\ RootKinds \subseteq {"dir", "link", "file"}
    /\ MaxDepth \in Nat /\ MaxObjects \in Nat /\ MaxChanges \in Nat

CNIDRootParent == 1
CNIDRootFolder == 2
CNIDFirstUser == 16

VARIABLES
    pc,
    tree, changes,              \* the source folder: a kind for each path
    stack, toRead,              \* the directories being visited, the next to read
    parentMap, nextCNID,
    pending,                    \* what the first pass found
    entries, files, attrs,      \* what the second pass makes of it
    claimed, valence, subFolderCount,
    records,                    \* the records of the catalog
    ever, kept                  \* history: the objects there were at some time, all the time

vars == <<pc, tree, changes, stack, toRead, parentMap, nextCNID, pending, entries,
          files, attrs, claimed, valence, subFolderCount, records, ever, kept>>
source == <<tree, changes, ever, kept>>
walking == <<stack, toRead, parentMap, nextCNID, pending>>
result == <<entries, files, attrs, claimed, valence, subFolderCount, records>>

----------------------------------------------------------------------------
(* The source folder.                                                      *)

Kinds == {"dir", "file", "link", "other"}
Paths == UNION {[1 .. n -> Names] : n \in 0 .. MaxDepth}
Root == <<>>
Inside == Paths \ {Root}
IsTree(t) == \A p \in DOMAIN t \ {Root} :
                Front(p) \in DOMAIN t /\ (Front(p) = Root \/ t[Front(p)] = "dir")
Exists(p) == p \in DOMAIN tree
Objects == {<<p, tree[p]>> : p \in DOMAIN tree \ {Root}}
NamesIn(p) == {Last(q) : q \in {r \in DOMAIN tree \ {Root} : Front(r) = p}}

ScanInit ==
    /\ pc = "stat"
    /\ \E n \in 0 .. MaxObjects : \E D \in kSubset(n, Inside) :
          tree \in {t \in [D \cup {Root} -> Kinds] : 
                       t[Root] \in RootKinds /\ IsTree(t) /\ (t[Root] = "file" => D = {})}
    /\ changes = 0
    /\ stack = <<>> /\ toRead = Root
    /\ parentMap = [p \in {Root} |-> CNIDRootFolder] /\ nextCNID = CNIDFirstUser
    /\ pending = <<>> /\ entries = <<>> /\ files = <<>> /\ attrs = {}
    /\ claimed = {} /\ valence = EmptyBag /\ subFolderCount = EmptyBag
    /\ records = <<>>
    /\ ever = Objects /\ kept = Objects

\* Something below the folder is made, removed or replaced.
SourceChanges ==
    /\ changes < MaxChanges /\ pc \notin {"done", "failed", "refused"}
    /\ \E p \in Inside :
          \/ tree' = [q \in {r \in DOMAIN tree : ~IsPrefix(p, r)} |-> tree[q]]
          \/ \E kind \in Kinds : tree' = [q \in DOMAIN tree \cup {p} |->
                                            IF q = p THEN kind ELSE tree[q]]
    /\ tree' # tree /\ IsTree(tree')
    /\ changes' = changes + 1
    /\ ever' = ever \cup Objects' /\ kept' = kept \cap Objects'
    /\ UNCHANGED <<pc, walking, result>>

----------------------------------------------------------------------------
(* The first pass.  Every step that asks the file system may fail.         *)

Fails(at) == pc = at /\ pc' = "failed" /\ UNCHANGED <<source, walking, result>>

\* Create looks where the folder leads.
Stat ==
    \/ Fails("stat")
    \/ /\ pc = "stat" /\ tree[Root] \in {"dir", "link"}
       /\ pc' = "nameRoot" /\ UNCHANGED <<source, walking, result>>

Entry(cnid, parent, name, kind) ==
    [cnid |-> cnid, parent |-> parent, name |-> name, kind |-> kind,
     valence |-> 0, subFolders |-> 0]

NameRoot ==
    /\ pc = "nameRoot"
    /\ \E name \in VolumeNames :
          \/ name = TooLong /\ pc' = "failed" /\ UNCHANGED entries
          \/ /\ name # TooLong /\ pc' = "lstatRoot"
             /\ entries' = <<Entry(CNIDRootFolder, CNIDRootParent, name, "dir")>>
    /\ UNCHANGED <<source, walking, files, attrs, claimed, valence, subFolderCount, records>>

\* walkSorted looks at the folder itself, and only a directory is walked.
LstatRoot ==
    \/ Fails("lstatRoot")
    \/ /\ pc = "lstatRoot"
       /\ pc' = IF tree[Root] = "dir" THEN "read" ELSE "collect"
       /\ UNCHANGED <<source, walking, result>>

\* Mutant: the entries in the order the file system gives them.
Listing_AsRead(p) == CHOOSE s \in [1 .. Cardinality(NamesIn(p)) -> NamesIn(p)] :
                        \A i, j \in DOMAIN s : i < j => s[i] > s[j]
Listing(p) == CHOOSE s \in [1 .. Cardinality(NamesIn(p)) -> NamesIn(p)] :
                 \A i, j \in DOMAIN s : i < j => s[i] < s[j]

ReadDir ==
    \/ Fails("read")
    \/ /\ pc = "read" /\ Exists(toRead) /\ tree[toRead] = "dir"
       /\ stack' = Append(stack, [dir |-> toRead, left |-> Listing(toRead)])
       /\ pc' = "visit"
       /\ UNCHANGED <<source, toRead, parentMap, nextCNID, pending, result>>

Frame == Last(stack)
Path == Append(Frame.dir, Head(Frame.left))
FramePopped == Front(stack) \o <<[Frame EXCEPT !.left = Tail(@)]>>

\* Mutant: the parent of what is below a directory is that directory's parent.
WithParent_Grand(p) == [q \in DOMAIN parentMap \cup {p} |->
                          IF q = p THEN parentMap[Frame.dir] ELSE parentMap[q]]
WithParent(p) == [q \in DOMAIN parentMap \cup {p} |->
                    IF q = p THEN nextCNID ELSE parentMap[q]]

\* The next entry of the directory gets its number; what is in a directory comes
\* before its next sibling.
Visit ==
    \/ Fails("visit")
    \/ /\ pc = "visit" /\ Frame.left # <<>>
       /\ Exists(Path) /\ tree[Path] # "other"
       /\ Frame.dir \in DOMAIN parentMap
       /\ pending' = Append(pending, [path |-> Path, cnid |-> nextCNID,
                                      parent |-> parentMap[Frame.dir], kind |-> tree[Path]])
       /\ nextCNID' = nextCNID + 1
       /\ stack' = FramePopped
       /\ IF tree[Path] = "dir"
          THEN parentMap' = WithParent(Path) /\ toRead' = Path /\ pc' = "read"
          ELSE UNCHANGED <<parentMap, toRead, pc>>
       /\ UNCHANGED <<source, result>>

\* Sockets, devices and pipes are left out.
VisitOther ==
    /\ pc = "visit" /\ Frame.left # <<>>
    /\ Exists(Path) /\ tree[Path] = "other"
    /\ stack' = FramePopped
    /\ UNCHANGED <<source, pc, toRead, parentMap, nextCNID, pending, result>>

Walked(frames) == frames = <<>>

LeaveDir ==
    /\ pc = "visit" /\ Frame.left = <<>>
    /\ stack' = Front(stack)
    /\ pc' = IF Walked(Front(stack)) THEN "collect" ELSE "visit"
    /\ UNCHANGED <<source, toRead, parentMap, nextCNID, pending, result>>

----------------------------------------------------------------------------
(* The second pass.                                                        *)

This == pending[Len(entries)]       \* the root is the first entry

\* Mutant: the name as it is in the source.
Claim_AsIs(p) == <<p.parent, Last(p.path)>>
Claim(p) == <<p.parent, Nfd[Last(p.path)]>>

\* The counters of the folder.
CountsAsFolder(kind) == kind = "dir"

\* What gets blocks.
HasData(kind) == kind \in {"file", "link"}

\* Two names of a directory that become one are refused.  A link is read again, and
\* the attributes of the others.
Collect ==
    \/ Fails("collect")
    \/ /\ pc = "collect" /\ Len(entries) <= Len(pending)
       /\ Nfd[Last(This.path)] # TooLong /\ Claim(This) \notin claimed
       /\ This.kind = "link" => Exists(This.path) /\ tree[This.path] = "link"
       /\ claimed' = claimed \cup {Claim(This)}
       /\ valence' = valence (+) SetToBag({This.parent})
       /\ subFolderCount' = IF CountsAsFolder(This.kind)
                            THEN subFolderCount (+) SetToBag({This.parent}) ELSE subFolderCount
       /\ entries' = Append(entries, Entry(This.cnid, This.parent, Nfd[Last(This.path)], This.kind))
       /\ files' = IF HasData(This.kind) THEN Append(files, This.cnid) ELSE files
       /\ \/ UNCHANGED attrs
          \/ This.kind # "link" /\ Exists(This.path) /\ attrs' = attrs \cup {This.cnid}
       /\ UNCHANGED <<source, walking, pc, records>>

\* What a map holds for a key: 0 if it does not have it.
Count(cnid, map) == IF BagIn(cnid, map) THEN map[cnid] ELSE 0

\* The counters are filled in.
Backfill ==
    /\ pc = "collect" /\ Len(entries) > Len(pending)
    /\ entries' = [i \in DOMAIN entries |->
          IF entries[i].kind # "dir" THEN entries[i]
          ELSE [entries[i] EXCEPT !.valence = Count(entries[i].cnid, valence),
                                  !.subFolders = Count(entries[i].cnid, subFolderCount)]]
    /\ pc' = "rootInfo"
    /\ UNCHANGED <<source, walking, files, attrs, claimed, valence, subFolderCount, records>>

\* The caller may have given FinderInfo for the root, of a right or a wrong size.
RootInfo ==
    \/ Fails("rootInfo")
    \/ /\ pc = "rootInfo" /\ pc' = "records"
       /\ attrs' \in {attrs, attrs \cup {CNIDRootFolder}}
       /\ UNCHANGED <<source, walking, entries, files, claimed, valence, subFolderCount, records>>

\* A forward record and a thread record for each entry.
Forward(e) == [parent |-> e.parent, name |-> e.name, entry |-> e]
Thread(e) == [parent |-> e.cnid, name |-> NoName, entry |-> e]
Key(r) == <<r.parent, r.name>>

BuildCatalog ==
    /\ pc = "records"
    /\ records' = FlattenSeq([i \in DOMAIN entries |-> <<Forward(entries[i]), Thread(entries[i])>>])
    /\ pc' = IF \E i, j \in DOMAIN records' : i # j /\ Key(records'[i]) = Key(records'[j])
             THEN "refused" ELSE "done"
    /\ UNCHANGED <<source, walking, entries, files, attrs, claimed, valence, subFolderCount>>

ScanStep ==
    \/ Stat \/ NameRoot \/ LstatRoot \/ ReadDir \/ Visit \/ VisitOther \/ LeaveDir
    \/ Collect \/ Backfill \/ RootInfo \/ BuildCatalog

ScanOver == pc \in {"done", "failed", "refused"} /\ UNCHANGED vars

ScanSpec == ScanInit /\ [][ScanStep \/ SourceChanges \/ ScanOver]_vars

----------------------------------------------------------------------------
(* What the plan counts for the header of the volume.                      *)

FileCount == Cardinality({i \in DOMAIN entries : entries[i].kind # "dir"})
\* Mutant: the root folder is counted.
FolderCount_Root == Cardinality({i \in DOMAIN entries : entries[i].kind = "dir"})
FolderCount == Cardinality({i \in DOMAIN entries :
                              entries[i].kind = "dir" /\ entries[i].cnid # CNIDRootFolder})
NextCatalogID == Max({entries[i].cnid : i \in DOMAIN entries}) + 1

----------------------------------------------------------------------------
(* Properties.                                                             *)

\* The records of the catalog under a key, and the numbers a path leads to.
Find(parent, name) == {r \in ToSet(records) : r.parent = parent /\ r.name = name}
Reached(path) ==
    LET at[i \in 0 .. Len(path)] ==
            IF i = 0 THEN {CNIDRootFolder}
            ELSE UNION {{r.entry.cnid : r \in Find(c, Nfd[path[i]])} : c \in at[i - 1]}
    IN  at[Len(path)]

\* The numbers of the first pass and the records of the second lead a reader to each
\* object, whatever changed in between: from the root down the forward records to
\* the object, and from its thread record up to the folder it is in.
PathsResolve ==
    pc = "done" =>
        \A k \in DOMAIN pending :
            LET path == pending[k].path
            IN  /\ Reached(path) = {pending[k].cnid}
                /\ \A r \in Find(pending[k].cnid, NoName) :
                      {r.entry.parent} = Reached(Front(path)) /\ r.entry.name = Nfd[Last(path)]
                /\ Find(pending[k].cnid, NoName) # {}

\* Two names that become one, or a number given twice, are found by walk, which can
\* still name the paths, and never by the catalog.
CatalogAccepts == pc # "refused"

\* A folder's counters are what a scan of the catalog counts, and so are the
\* counters of the volume; the next number it will give is new.
CountsAgree ==
    pc = "done" =>
        /\ \A e \in ToSet(entries) :
              e.kind = "dir" =>
                LET children == {c \in ToSet(entries) : c.parent = e.cnid}
                IN  /\ e.valence = Cardinality(children)
                    /\ e.subFolders = Cardinality({c \in children : c.kind = "dir"})
        /\ 2 * (FileCount + FolderCount + 1) = Len(records)
        /\ \A e \in ToSet(entries) : e.cnid < NextCatalogID

\* "Create writes a DMG to outPath containing every file under srcFolder" (dmg.go).
Listed(p) == \E k \in DOMAIN pending : pending[k].path = p /\ pending[k].kind = tree[p]
ContainsEveryFile ==
    pc = "done" /\ changes = 0 =>
        \A p \in DOMAIN tree \ {Root} : tree[p] # "other" => Listed(p)

----------------------------------------------------------------------------
(* The scan implements Archive.                                            *)

\* What a reader of the catalog finds under a path: a number, the kind in its thread
\* record, and the content by its place among the files.
PlaceOf(cnid) == {i \in DOMAIN files : files[i] = cnid}
Archived(path) ==
    UNION {{[path |-> path, kind |-> r.entry.kind, cnid |-> c,
             data |-> IF PlaceOf(c) = {} THEN 0 ELSE Min(PlaceOf(c))] : r \in Find(c, NoName)}
           : c \in Reached(path)}

\* The scan takes the archive with the last step of the second pass, of the folder when it
\* is a directory itself: a link to one is not followed (see ContainsEveryFile).
IsDirectory == tree[Root] = "dir"
TheArchive == INSTANCE Archive WITH
    folder <- IF IsDirectory THEN tree ELSE <<>>,
    ever <- IF IsDirectory THEN ever ELSE {},
    kept <- IF IsDirectory THEN kept ELSE {},
    status <- CASE pc = "done" -> "archived"
                [] pc \in {"failed", "refused"} -> "refused"
                [] OTHER -> "scanning",
    archive <- IF pc = "done" THEN UNION {Archived(pending[k].path) : k \in DOMAIN pending}
               ELSE {}

\* Whatever changes while it runs, the scan makes an archive of objects that were there,
\* with each that stayed, under the numbers and with the data that follow from the order
\* of the names, or fails.
ImplementsArchive == TheArchive!ArchiveSpec
----------------------------------------------------------------------------
(* The inductive invariant, in parts.                                      *)

Archivable == {"dir", "file", "link"}
Finds == [path : Seq(Names) \ {Root}, cnid : Nat, parent : Nat, kind : Archivable]
Frames == [dir : Seq(Names), left : Seq(Names)]
Entries == [cnid : Nat, parent : Nat, name : Nat, kind : Archivable, valence : Nat,
            subFolders : Nat]

ScanTypes ==
    /\ pc \in {"stat", "nameRoot", "lstatRoot", "read", "visit", "collect", "rootInfo",
               "records", "done", "failed", "refused"}
    /\ stack \in Seq(Frames) /\ toRead \in Seq(Names)
    /\ pending \in Seq(Finds) /\ nextCNID = CNIDFirstUser + Len(pending)
    /\ entries \in Seq(Entries) /\ files \in Seq(Nat)

\* What the folder was at some time and all the time, with the directories it was in.
FolderInv ==
    /\ Root \in DOMAIN tree /\ DOMAIN tree \subseteq Seq(Names) /\ IsTree(tree)
    /\ \A p \in DOMAIN tree : tree[p] \in Kinds
    /\ Objects \subseteq ever /\ kept \subseteq Objects
    /\ \A o \in kept : \A n \in 1 .. Len(o[1]) - 1 : <<SubSeq(o[1], 1, n), "dir">> \in kept

\* How far the call is.
StageInv ==
    /\ pc \in {"stat", "nameRoot"} => entries = <<>>
    /\ pc \in {"stat", "nameRoot", "lstatRoot"} =>
          pending = <<>> /\ stack = <<>> /\ toRead = Root
    /\ pc \in {"lstatRoot", "read", "visit"} => Len(entries) = 1
    /\ pc = "visit" => stack # <<>>
    /\ pc \in {"collect", "rootInfo", "records", "done"} => stack = <<>> /\ entries # <<>>
    /\ pc = "collect" => Len(entries) <= Len(pending) + 1
    /\ pc \in {"rootInfo", "records", "done"} => Len(entries) = Len(pending) + 1
    /\ pc \in {"read", "visit"} \/ pending # <<>> => tree[Root] = "dir"

\* p is q or a directory that q is in.
Above(p, q) == Len(p) <= Len(q) /\ \A m \in 1 .. Len(p) : p[m] = q[m]

\* p comes before q: a directory before what is in it, the rest by the names.
Earlier(p, q) ==
    \/ Len(p) < Len(q) /\ Above(p, q)
    \/ \E i \in 1 .. Len(p) : /\ i <= Len(q) /\ p[i] < q[i]
                              /\ \A m \in 1 .. i - 1 : p[m] = q[m]

\* The directories being visited, with the one to read next.
Depth == Len(stack) + (IF pc = "read" THEN 1 ELSE 0)
Dir(i) == IF i <= Len(stack) THEN stack[i].dir ELSE toRead
Left(i) == stack[i].left

\* Each directory is in the one before it, whose names up to it have been visited.
StackInv ==
    \A i \in 1 .. Depth :
        /\ Len(Dir(i)) = i - 1 /\ Dir(i) \in DOMAIN parentMap
        /\ i <= Len(stack) =>
              /\ \A m, n \in DOMAIN Left(i) : m < n => Left(i)[m] < Left(i)[n]
              /\ \A j \in i + 1 .. Depth :
                    /\ Above(Dir(i), Dir(j))
                    /\ \A m \in DOMAIN Left(i) : Dir(j)[i] < Left(i)[m]

\* What was found is in order, and before what is still to be visited.
OrderInv ==
    /\ \A j, k \in DOMAIN pending : j < k => Earlier(pending[j].path, pending[k].path)
    /\ \A k \in DOMAIN pending : \A i \in DOMAIN stack : \A m \in DOMAIN Left(i) :
          Earlier(pending[k].path, Append(stack[i].dir, Left(i)[m]))
    /\ pc = "read" => \A k \in DOMAIN pending :
                         pending[k].path = toRead \/ Earlier(pending[k].path, toRead)

\* Numbers follow the order, and the parent is the number of the directory.
IsDir(k, p, cnid) == pending[k].path = p /\ pending[k].kind = "dir" /\ pending[k].cnid = cnid
NumberInv ==
    /\ \A k \in DOMAIN pending : pending[k].cnid = CNIDFirstUser - 1 + k
    /\ Root \in DOMAIN parentMap /\ parentMap[Root] = CNIDRootFolder
    /\ \A p \in DOMAIN parentMap \ {Root} : \E k \in DOMAIN pending : IsDir(k, p, parentMap[p])
    /\ \A k \in DOMAIN pending :
          IF Len(pending[k].path) = 1 THEN pending[k].parent = CNIDRootFolder
          ELSE \E j \in 1 .. k - 1 : IsDir(j, Front(pending[k].path), pending[k].parent)

\* What was there all the time has been found or will be.
Found(o) == \E k \in DOMAIN pending : pending[k].path = o[1] /\ pending[k].kind = o[2]
Ahead(p) ==
    \/ pc = "read" /\ Len(toRead) < Len(p) /\ Above(toRead, p)
    \/ \E i \in DOMAIN stack : /\ Len(p) >= i /\ Above(stack[i].dir, p)
                               /\ \E m \in DOMAIN Left(i) : p[i] = Left(i)[m]
SeenInv ==
    /\ \A k \in DOMAIN pending : <<pending[k].path, pending[k].kind>> \in ever
    /\ tree[Root] = "dir" /\ pc \notin {"stat", "nameRoot", "lstatRoot", "failed"} =>
          \A o \in kept : o[2] = "other" \/ Found(o) \/ Ahead(o[1])

\* An entry is an object of the first pass under its new name.
Describes(e, f) == /\ e.cnid = f.cnid /\ e.parent = f.parent /\ e.kind = f.kind
                   /\ e.name = Nfd[Last(f.path)] /\ e.name # NoName
EntriesInv ==
    /\ Len(entries) <= Len(pending) + 1
    /\ entries # <<>> => /\ entries[1].cnid = CNIDRootFolder /\ entries[1].parent = CNIDRootParent
                         /\ entries[1].kind = "dir" /\ entries[1].name # NoName
    /\ \A i \in 2 .. Len(entries) : Describes(entries[i], pending[i - 1])
    /\ \A i, j \in 2 .. Len(entries) :
          entries[i].parent = entries[j].parent /\ entries[i].name = entries[j].name => i = j
    /\ claimed = {<<entries[i].parent, entries[i].name>> : i \in 2 .. Len(entries)}

\* The counters are those of the entries.
ChildrenOf(cnid) == {i \in 2 .. Len(entries) : entries[i].parent = cnid}
FoldersOf(cnid) == {i \in ChildrenOf(cnid) : entries[i].kind = "dir"}
CountInv ==
    /\ \A cnid \in {entries[i].parent : i \in 2 .. Len(entries)} \cup DOMAIN valence
                  \cup DOMAIN subFolderCount :
          /\ Count(cnid, valence) = Cardinality(ChildrenOf(cnid))
          /\ Count(cnid, subFolderCount) = Cardinality(FoldersOf(cnid))
    /\ pc \in {"rootInfo", "records", "done"} =>
          \A i \in DOMAIN entries : entries[i].kind = "dir" =>
              /\ entries[i].valence = Cardinality(ChildrenOf(entries[i].cnid))
              /\ entries[i].subFolders = Cardinality(FoldersOf(entries[i].cnid))

\* The files are those of the entries, in their order.
DataUpTo(i) == {j \in 2 .. i : HasData(entries[j].kind)}
FilesInv ==
    /\ Len(files) = Cardinality(DataUpTo(Len(entries)))
    /\ \A i \in DataUpTo(Len(entries)) :
          /\ Cardinality(DataUpTo(i)) \in DOMAIN files
          /\ files[Cardinality(DataUpTo(i))] = entries[i].cnid
    /\ \A m \in DOMAIN files : \E i \in DataUpTo(Len(entries)) : m = Cardinality(DataUpTo(i))

RecordsInv ==
    pc = "done" => /\ ToSet(records) = {Forward(e) : e \in ToSet(entries)}
                                         \cup {Thread(e) : e \in ToSet(entries)}
                   /\ Len(records) = 2 * Len(entries)

ScanInv ==
    /\ ScanTypes /\ FolderInv /\ StageInv /\ StackInv /\ OrderInv /\ NumberInv /\ SeenInv
    /\ EntriesInv /\ CountInv /\ FilesInv /\ RecordsInv /\ CatalogAccepts
=============================================================================
