---------------------------- MODULE CreateImage -----------------------------
(* DMG.Create of dmg.go, from its argument checks to its deferred calls:   *)
(* what is on the disk while the source is seen, the volume is built in    *)
(* a scratch file and the image is written around it, each step of which   *)
(* may fail.  The folder holds one file with extended attributes, and the  *)
(* output or the scratch file may be in it as well.                        *)
EXTENDS ReadXattrs, FiniteSets

CONSTANTS
    AttrKeys,       \* the HFS+ names the attributes may get: functions of their names
    Keys, TooLong,
    MaxInline,      \* maxInlineAttrData
    Parts           \* how many writes the image takes

ASSUME CreateAssumption ==
    /\ AttrKeys \subseteq [AttrNames -> Keys \cup {TooLong}] /\ TooLong \notin Keys
    /\ MaxInline \in Nat /\ Parts \in Nat \ {0}

VARIABLES
    cpc, err,           \* the step of Create and the one that failed
    disk, before,       \* the files now and at the call
    inside,             \* those in the source folder
    seen,               \* what walk found in it
    volume,             \* what the volume in the scratch file was made of
    scratchOpen, outOpen,
    written, inFile,    \* the parts of the image written, those that reached the file
    leftover            \* the scratch file could not be removed

vars == <<attrs, xpc, item, buf, attempt, left, out, errs, ever, kept, attrChanges,
          cpc, err, disk, before, inside, seen, volume, scratchOpen, outOpen,
          written, inFile, leftover>>
xattrVars == <<objectVars, readerVars>>
outputs == <<disk, volume, scratchOpen, outOpen, written, inFile, leftover>>
fixed == <<before, inside>>

Files == {"file", "out", "scratch"}

CreateInit ==
    /\ XattrInit
    /\ cpc = "stat" /\ err = "none"
    /\ before \in {[file |-> "user", out |-> o, scratch |-> "absent"] : o \in {"absent", "old"}}
    /\ disk = before
    /\ inside \in {{"file"}, Files}
    /\ seen = <<>> /\ volume = [files |-> <<>>, attrs |-> {}]
    /\ scratchOpen = FALSE /\ outOpen = FALSE /\ written = 0 /\ inFile = 0
    /\ leftover = FALSE

----------------------------------------------------------------------------
(* The order of the steps.  A step that fails leads to the deferred calls. *)

\* Mutant: the output is opened first and the volume built afterwards.
After_OpenFirst ==
    [stat |-> "walk", walk |-> "attrs", attrs |-> "rootInfo", rootInfo |-> "open",
     open |-> "scratch", scratch |-> "build", build |-> "rewind", rewind |-> "map",
     map |-> "wrap", wrap |-> "return"]
After ==
    [stat |-> "walk", walk |-> "attrs", attrs |-> "rootInfo", rootInfo |-> "scratch",
     scratch |-> "build", build |-> "rewind", rewind |-> "map", map |-> "open",
     open |-> "wrap", wrap |-> "return"]

Succeeds(step) == cpc = step /\ cpc' = After[step] /\ UNCHANGED err
Fails(step) == cpc = step /\ cpc' = "return" /\ err' = step

\* Steps that change nothing here: the checks of the source and of the FinderInfo for
\* the root, the rewind of the scratch file, the partition map.
Checks ==
    /\ \E step \in {"stat", "rootInfo", "rewind", "map"} : Succeeds(step) \/ Fails(step)
    /\ UNCHANGED <<xattrVars, fixed, seen, outputs>>

Walk ==
    /\ \/ Fails("walk") /\ UNCHANGED seen
       \/ /\ Succeeds("walk")
          /\ seen' = [p \in {q \in inside : disk[q] # "absent"} |-> disk[p]]
    /\ UNCHANGED <<xattrVars, fixed, outputs>>

\* The attributes of the file are read, and may be changed meanwhile.
ReadAttrs ==
    /\ cpc = "attrs"
    /\ \/ XattrStep /\ UNCHANGED <<cpc, err>>
       \/ xpc = "done" /\ Succeeds("attrs") /\ XattrsReturn
       \/ xpc = "failed" /\ Fails("attrs") /\ XattrsReturn
    /\ UNCHANGED <<fixed, seen, outputs>>

OthersChange ==
    /\ cpc = "attrs" /\ xpc \notin {"done", "failed"} /\ AttrChanges
    /\ UNCHANGED <<cpc, err, fixed, seen, outputs>>

MakeScratch ==
    /\ \/ Fails("scratch") /\ UNCHANGED <<disk, scratchOpen>>
       \/ /\ Succeeds("scratch")
          /\ disk' = [disk EXCEPT !["scratch"] = "empty"] /\ scratchOpen' = TRUE
    /\ UNCHANGED <<xattrVars, fixed, seen, volume, outOpen, written, inFile, leftover>>

----------------------------------------------------------------------------
(* The volume.                                                             *)

\* The attribute records of the file.
Records(key) == {[name |-> a[1], key |-> key[a[1]], len |-> a[2]] : a \in out}

\* A name or a value that is too long is refused, and so are two names that become one.
\* Mutant: the records with equal keys stay.
Accepted_Twice(records) ==
    \A r \in records : r.key # TooLong /\ r.len <= MaxInline
Accepted(records) ==
    /\ \A r \in records : r.key # TooLong /\ r.len <= MaxInline
    /\ \A r, s \in records : r.key = s.key => r = s

\* WriteVolume copies the files it has been given, and checks that they are as they were.
Build ==
    /\ \/ /\ Fails("build") /\ UNCHANGED volume
          /\ disk' = [disk EXCEPT !["scratch"] = "partial"]
       \/ /\ Succeeds("build")
          /\ \A p \in DOMAIN seen : disk[p] = seen[p]
          /\ \E key \in AttrKeys :
                /\ Accepted(Records(key))
                /\ volume' = [files |-> [p \in DOMAIN seen |-> disk[p]], attrs |-> Records(key)]
          /\ disk' = [disk EXCEPT !["scratch"] = "volume"]
    /\ UNCHANGED <<xattrVars, fixed, seen, scratchOpen, outOpen, written, inFile, leftover>>

----------------------------------------------------------------------------
(* The image.                                                              *)

\* os.Create empties a file that exists.
Open ==
    /\ \/ Fails("open") /\ UNCHANGED <<disk, outOpen>>
       \/ /\ Succeeds("open")
          /\ disk' = [disk EXCEPT !["out"] = "new"] /\ outOpen' = TRUE
    /\ UNCHANGED <<xattrVars, fixed, seen, volume, scratchOpen, written, inFile, leftover>>

\* udif.Write reads the scratch file and writes through a buffer, which it flushes.
Write ==
    /\ cpc = "wrap" /\ written < Parts
    /\ \/ Fails("wrap") /\ UNCHANGED written
       \/ written' = written + 1 /\ UNCHANGED <<cpc, err>>
    /\ inFile' \in inFile .. written'
    /\ UNCHANGED <<xattrVars, fixed, seen, disk, volume, scratchOpen, outOpen, leftover>>

Flush ==
    /\ written = Parts
    /\ \/ Fails("wrap") /\ inFile' \in inFile .. Parts
       \/ Succeeds("wrap") /\ inFile' = Parts
    /\ UNCHANGED <<xattrVars, fixed, seen, disk, volume, scratchOpen, outOpen, written, leftover>>

----------------------------------------------------------------------------
(* The deferred calls, the last one first.                                 *)

\* Mutant: the result of the close is dropped.
Closed_Dropped == err
Closed == IF err = "none" THEN "close" ELSE err

\* What the system has accepted and not stored is lost when the close fails.
CloseOut ==
    /\ cpc = "return" /\ outOpen
    /\ outOpen' = FALSE
    /\ \/ UNCHANGED <<err, inFile>>
       \/ err' = Closed /\ inFile' \in 0 .. inFile
    /\ UNCHANGED <<cpc, xattrVars, fixed, seen, disk, volume, scratchOpen, written, leftover>>

\* Mutant: the scratch file is removed when there is an image.
MustRemove_OnSuccess == scratchOpen /\ err = "none"
MustRemove == scratchOpen

\* The results of these two calls are dropped.
RemoveScratch ==
    /\ cpc = "return" /\ ~outOpen /\ MustRemove
    /\ scratchOpen' = FALSE
    /\ \/ disk' = [disk EXCEPT !["scratch"] = "absent"] /\ UNCHANGED leftover
       \/ leftover' = TRUE /\ UNCHANGED disk
    /\ UNCHANGED <<cpc, err, xattrVars, fixed, seen, volume, outOpen, written, inFile>>

Return ==
    /\ cpc = "return" /\ ~outOpen /\ ~MustRemove
    /\ cpc' = "returned"
    /\ UNCHANGED <<err, xattrVars, fixed, seen, outputs>>

CreateStep ==
    \/ Checks \/ Walk \/ ReadAttrs \/ MakeScratch \/ Build
    \/ Open \/ Write \/ Flush \/ CloseOut \/ RemoveScratch \/ Return

CreateOver == cpc = "returned" /\ UNCHANGED vars

CreateNext == CreateStep \/ OthersChange \/ CreateOver
CreateSpec == CreateInit /\ [][CreateNext]_vars /\ WF_vars(CreateStep)

----------------------------------------------------------------------------
(* Properties.                                                             *)

\* The files of the folder as they were at the call.
Source == [p \in {q \in inside : before[q] # "absent"} |-> before[p]]

\* The volume holds the files the folder held at the call and nothing that Create made,
\* and of their attributes those the file had throughout: no two of one name and none
\* too long.
VolumeIsWhole ==
    /\ volume.files = Source
    /\ \A r, s \in volume.attrs : r.key = s.key => r = s
    /\ \A r \in volume.attrs : r.key # TooLong /\ r.len <= MaxInline
    /\ \A p \in kept :
          "unsupported" \notin errs => \E r \in volume.attrs : r.name = p[1] /\ r.len = p[2]

\* The output is touched only when everything it will hold is complete: an error in the
\* scan, the volume or the map "does not clobber a good image from a previous run"
\* (dmg.go), and a folder that holds the previous image archives it as it was.
OldImageSurvives ==
    disk["out"] # before["out"] =>
        VolumeIsWhole /\ err \in {"none", "wrap", "close"}

\* A call that succeeds leaves the whole image, every part of it flushed and closed
\* without an error.
SuccessIsWhole ==
    cpc = "returned" /\ err = "none" =>
        disk["out"] = "new" /\ inFile = Parts /\ VolumeIsWhole

\* "It is removed before Create returns" (DMG.TempDir), whatever failed, unless the
\* removal itself fails; and both files are closed.
ScratchGone ==
    cpc = "returned" =>
        /\ ~scratchOpen /\ ~outOpen
        /\ disk["scratch"] # "absent" => leftover

----------------------------------------------------------------------------
(* The inductive invariant of CreateImage_proofs, in parts.                *)

Steps == DOMAIN After
FromScratch == {"build", "rewind", "map", "open", "wrap"}
FromVolume == FromScratch \ {"build"}
Deferred == {"return", "returned"}

CreateTypeOK ==
    /\ cpc \in Steps \cup Deferred /\ err \in Steps \cup {"none", "close"}
    /\ before \in [Files -> {"absent", "user", "old"}]
    /\ disk \in [Files -> {"absent", "user", "old", "empty", "partial", "volume", "new"}]
    /\ inside \subseteq Files
    /\ scratchOpen \in BOOLEAN /\ outOpen \in BOOLEAN /\ leftover \in BOOLEAN
    /\ written \in 0 .. Parts /\ inFile \in 0 .. written

\* Which files are there and open.
DiskInv ==
    /\ before["scratch"] = "absent" /\ disk["file"] = before["file"]
    /\ cpc \in FromScratch => scratchOpen
    /\ cpc \notin FromScratch \cup Deferred => ~scratchOpen /\ disk["scratch"] = "absent"
    /\ ~scratchOpen /\ disk["scratch"] # "absent" => leftover
    /\ cpc # "wrap" /\ cpc \notin Deferred => ~outOpen /\ disk["out"] = before["out"]
    /\ cpc = "wrap" => disk["out"] = "new"
    /\ cpc = "returned" => ~scratchOpen /\ ~outOpen

\* What is known when a step has been reached.
StageInv ==
    /\ cpc \notin Deferred => err = "none"
    /\ cpc \notin {"stat", "walk"} \cup Deferred => seen = Source
    /\ cpc \notin {"stat", "walk", "attrs"} \cup Deferred => xpc = "done"
    /\ cpc \in FromVolume => VolumeIsWhole
    /\ cpc \in Deferred /\ err = "none" =>
          disk["out"] = "new" /\ inFile = Parts /\ VolumeIsWhole

CreateInv == XattrInv /\ CreateTypeOK /\ DiskInv /\ StageInv /\ OldImageSurvives

----------------------------------------------------------------------------
\* The call returns, whatever fails and however the attributes change.
CreateReturns == <>(cpc = "returned")
=============================================================================
