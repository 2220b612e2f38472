------------------------------ MODULE Archive -------------------------------
(* What a scan of a folder promises while other programs change the        *)
(* folder: not the folder at one instant, which no scan without a lock can *)
(* promise, but a tree of objects that were there, with every object that  *)
(* was there all the time, in the one order that follows from the names.   *)
(* Folders and archives are what the scan of dmg.go (ScanTree) makes them. *)
EXTENDS Integers, Sequences, FiniteSets, SequencesExt

VARIABLES
    folder,     \* a kind for each path
    ever, kept, \* the objects it had at some time, those it had all the time
    status,     \* "scanning", "archived" or "refused"
    archive     \* the objects archived, with their numbers

archiveVars == <<folder, ever, kept, status, archive>>

ArchiveObjects(t) == {<<p, t[p]>> : p \in DOMAIN t \ {<<>>}}

\* Lexical order, a folder before what is in it.
Before(p, q) ==
    \/ Len(p) < Len(q) /\ IsPrefix(p, q)
    \/ \E i \in DOMAIN p \cap DOMAIN q :
          p[i] < q[i] /\ SubSeq(p, 1, i - 1) = SubSeq(q, 1, i - 1)

HasContent(o) == o.kind \in {"file", "link"}

\* The archives a scan may make: sockets, devices and pipes are never in one, an object
\* comes with the folders it is in, and its numbers follow from its place.
MayHold(objects) ==
    /\ objects \subseteq {o \in ever : o[2] # "other"}
    /\ {o \in kept : o[2] # "other"} \subseteq objects
    /\ \A o \in objects : Len(o[1]) > 1 => <<Front(o[1]), "dir">> \in objects
Rank(o, a) == Cardinality({p \in a : p = o \/ Before(p.path, o.path)})
Numbered(a) ==
    \A o \in a :
        /\ o.cnid = 15 + Rank(o, a)
        /\ o.data = IF HasContent(o) THEN Rank(o, {p \in a : HasContent(p)}) ELSE 0

ArchiveInit ==
    /\ ever = ArchiveObjects(folder) /\ kept = ArchiveObjects(folder)
    /\ status = "scanning" /\ archive = {}

Change ==
    /\ status = "scanning"
    /\ ever' = ever \cup ArchiveObjects(folder')
    /\ kept' = kept \cap ArchiveObjects(folder')
    /\ UNCHANGED <<status, archive>>

Take ==
    /\ status = "scanning" /\ status' = "archived"
    /\ \E a \in {archive'} : MayHold({<<o.path, o.kind>> : o \in a}) /\ Numbered(a)
    /\ UNCHANGED <<folder, ever, kept>>

Refuse ==
    /\ status = "scanning" /\ status' = "refused"
    /\ UNCHANGED <<folder, ever, kept, archive>>

ArchiveSpec == ArchiveInit /\ [][Change \/ Take \/ Refuse]_archiveVars
=============================================================================
