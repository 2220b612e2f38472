------------------------- MODULE CreateImage_proofs -------------------------
(* Proofs about CreateImage: its invariant, for any attributes, keys, limits *)
(* and number of writes, and what follows from it.  The reader of the        *)
(* attributes keeps its own part, XattrInv, whatever the rest does.          *)
EXTENDS CreateImage, TLAPS

----------------------------------------------------------------------------
(* The reader of the attributes.                                           *)

LEMMA XattrInitHolds == XattrInit => XattrInv
<1> SUFFICES ASSUME XattrInit PROVE XattrInv
  OBVIOUS
<1> USE XattrAssumption DEF XattrInit
<1>1. XattrTypeOK
  BY DEF XattrTypeOK, Pairs, Present, NoAttr
<1>2. LoopInv /\ LeftInv /\ AttrsFaithful
  BY DEF LoopInv, LeftInv, ListTaken, AttrsFaithful
<1>3. QED
  BY <1>1, <1>2 DEF XattrInv

LEMMA XattrStutters == ASSUME XattrInv, UNCHANGED xattrVars PROVE XattrInv'
<1> USE DEF XattrInv, xattrVars, objectVars, readerVars
<1>1. XattrTypeOK'
  BY DEF XattrTypeOK, Pairs, Present
<1>2. LoopInv'
  BY DEF LoopInv, Missing, Size, Present
<1>3. LeftInv' /\ AttrsFaithful'
  BY DEF LeftInv, ListTaken, AttrsFaithful
<1>4. QED
  BY <1>1, <1>2, <1>3

\* What a kept attribute is, and the size of what is there.
LEMMA KeptIsPresent ==
  ASSUME XattrTypeOK, NEW p \in kept
  PROVE  p[1] \in AttrNames /\ attrs[p[1]] # NoAttr /\ p = <<p[1], attrs[p[1]]>>
BY DEF XattrTypeOK, Pairs, Present

LEMMA SizeIsNat == ASSUME XattrTypeOK, ~Missing PROVE Size \in Nat
<1>1. CASE item = List
  <2>1. Present \in SUBSET AttrNames
    BY DEF Present
  <2>2. QED
    BY <1>1, <2>1, XattrAssumption DEF Size
<1>2. CASE item # List
  BY <1>2, XattrAssumption DEF Size, Missing, XattrTypeOK, NoAttr
<1>3. QED
  BY <1>1, <1>2

\* Another program changes the attributes.
LEMMA AttrChangesKeep == ASSUME XattrInv, AttrChanges PROVE XattrInv'
<1> USE DEF XattrInv, AttrChanges, readerVars
<1>1. XattrTypeOK'
  <2>1. attrs' \in [AttrNames -> AttrLens \cup {NoAttr}]
    BY DEF XattrTypeOK
  <2>2. Pairs' \subseteq AttrNames \X AttrLens
    BY <2>1 DEF Pairs, Present
  <2>3. QED
    BY <2>1, <2>2 DEF XattrTypeOK
<1>2. LoopInv'
  BY DEF LoopInv, XattrTypeOK
<1>3. LeftInv'
  BY DEF LeftInv, ListTaken
<1>4. AttrsFaithful'
  BY XattrAssumption DEF AttrsFaithful, XattrTypeOK
<1>5. QED
  BY <1>1, <1>2, <1>3, <1>4

LEMMA CallFailsKeeps == ASSUME XattrInv, CallFails PROVE XattrInv'
<1> USE DEF XattrInv
<1>1. PICK e \in {"denied", "unsupported", "missing"} :
          /\ e = "missing" => Missing
          /\ errs' = errs \cup ({e} \ {"missing"})
          /\ xpc' = IF ~NothingHere(e) THEN "failed"
                    ELSE IF item = List THEN "done" ELSE "next"
  BY DEF CallFails
<1>2. Calling /\ UNCHANGED <<objectVars, item, buf, attempt, left, out>>
  BY DEF CallFails
<1>3. xpc \in {"probe", "read", "grow"} /\ "denied" \notin errs
  BY <1>2 DEF Calling
<1>4. /\ e = "denied" => xpc' = "failed"
      /\ e # "denied" /\ item = List => xpc' = "done" /\ "unsupported" \in errs'
      /\ e # "denied" /\ item # List => xpc' = "next"
  BY <1>1 DEF NothingHere, Missing
<1>5. XattrTypeOK'
  BY <1>1, <1>2, <1>4 DEF XattrTypeOK, Pairs, Present, objectVars
<1>6. LoopInv'
  BY <1>1, <1>4 DEF LoopInv
<1>7. LeftInv'
  <2>1. item # List => item \notin left
    BY DEF LeftInv
  <2>2. xpc' = "done" \/ ~ListTaken' => left = {}
    BY <1>2, <1>3, <1>4 DEF LeftInv, ListTaken
  <2>3. ASSUME ListTaken', errs' \cap {"denied", "unsupported"} = {}, NEW p \in kept
        PROVE  p[1] \in left \/ p \in out
    <3>1. e = "missing" /\ item # List /\ attrs[item] = NoAttr
      BY <1>1, <1>4, <2>3 DEF Missing
    <3>2. p[1] # item
      BY <3>1, KeptIsPresent
    <3>3. QED
      BY <1>1, <2>3, <3>1, <3>2 DEF LeftInv, ListTaken
  <2>4. QED
    BY <1>2, <2>1, <2>2, <2>3 DEF LeftInv, ListTaken, objectVars
<1>8. AttrsFaithful'
  BY <1>1, <1>2, <1>3, <1>4 DEF AttrsFaithful, objectVars
<1>9. "denied" \in errs' => xpc' = "failed"
  BY <1>1, <1>3, <1>4
<1>10. QED
  BY <1>5, <1>6, <1>7, <1>8, <1>9

\* What has been asked for goes to the list of the names or to the result.
LEMMA TakeKeeps ==
  ASSUME XattrInv, Take, ~Missing, xpc \in {"probe", "read"}, xpc' = "next",
         UNCHANGED <<objectVars, item, errs, buf, attempt>>
  PROVE  XattrInv'
<1> USE DEF XattrInv
<1>1. "denied" \notin errs
  OBVIOUS
<1>2. item # List => <<item, attrs[item]>> \in Pairs
  BY DEF Missing, Pairs, Present, XattrTypeOK
<1>3. Present \subseteq AttrNames
  BY DEF Present
<1>4. XattrTypeOK'
  BY <1>2, <1>3 DEF XattrTypeOK, Pairs, Present, objectVars, Take
<1>5. LoopInv' /\ AttrsFaithful'
  BY <1>2 DEF LoopInv, AttrsFaithful, XattrTypeOK, objectVars, Take
<1>6. LeftInv'
  <2>1. ASSUME errs \cap {"denied", "unsupported"} = {}, NEW p \in kept
        PROVE  p[1] \in left' \/ p \in out'
    <3>1. CASE item = List
      BY <3>1, KeptIsPresent DEF Take, Present
    <3>2. CASE item # List
      BY <2>1, <3>2, KeptIsPresent DEF Take, LeftInv, ListTaken
    <3>3. QED
      BY <3>1, <3>2
  <2>2. QED
    BY <2>1 DEF LeftInv, ListTaken, Take, objectVars
<1>7. QED
  BY <1>1, <1>4, <1>5, <1>6

LEMMA ProbeKeeps == ASSUME XattrInv, Probe PROVE XattrInv'
<1>1. CASE Size = 0
  BY <1>1, TakeKeeps DEF Probe
<1>2. CASE Size # 0
  <2> USE DEF XattrInv
  <2>1. /\ xpc = "probe" /\ xpc' = "read" /\ ~Missing /\ buf' = Size /\ attempt' = 0
        /\ UNCHANGED <<objectVars, item, errs, left, out>>
    BY <1>2 DEF Probe
  <2>2. Size \in Nat /\ Size > 0
    BY <1>2, <2>1, SizeIsNat
  <2>3. XattrTypeOK'
    BY <2>1, <2>2 DEF XattrTypeOK, Pairs, Present, objectVars
  <2>4. Size' = Size /\ Missing' = Missing
    BY <2>1 DEF Size, Missing, Present, objectVars
  <2>5. LoopInv'
    BY <2>1, <2>2, <2>4, XattrAssumption DEF LoopInv, XattrTypeOK, objectVars
  <2>6. LeftInv' /\ AttrsFaithful'
    BY <2>1 DEF LeftInv, ListTaken, AttrsFaithful, objectVars
  <2>7. QED
    BY <2>1, <2>3, <2>5, <2>6
<1>3. QED
  BY <1>1, <1>2

LEMMA ReadKeeps == ASSUME XattrInv, Read PROVE XattrInv'
BY TakeKeeps DEF Read

LEMMA ReadTooShortKeeps == ASSUME XattrInv, ReadTooShort PROVE XattrInv'
<1> USE DEF XattrInv
<1>1. /\ xpc = "read" /\ xpc' = "grow" /\ ~Missing
      /\ UNCHANGED <<objectVars, item, buf, attempt, left, out>>
  BY DEF ReadTooShort
<1>2. \/ Size > buf /\ errs' = errs
      \/ errs' = errs \cup {"spurious"}
  BY DEF ReadTooShort
<1>3. XattrTypeOK'
  BY <1>1, <1>2 DEF XattrTypeOK, Pairs, Present, objectVars
<1>4. LoopInv'
  BY <1>1, <1>2 DEF LoopInv, objectVars
<1>5. LeftInv' /\ AttrsFaithful'
  BY <1>1, <1>2 DEF LeftInv, ListTaken, AttrsFaithful, objectVars
<1>6. QED
  BY <1>1, <1>2, <1>3, <1>4, <1>5

\* The new buffer is larger than the one that was too small and holds what is there.
LEMMA GrowKeeps == ASSUME XattrInv, Grow PROVE XattrInv'
<1> USE DEF XattrInv
<1>1. /\ xpc = "grow" /\ ~Missing /\ attempt' = attempt + 1
      /\ buf' = IF Size <= buf THEN 2 * buf ELSE Size
      /\ xpc' = IF attempt' < MaxAttempts THEN "read" ELSE "failed"
      /\ UNCHANGED <<objectVars, item, left, out, errs>>
  BY DEF Grow
<1>2. /\ Size \in Nat /\ buf \in Nat /\ buf > 0 /\ attempt \in Nat /\ attrChanges \in Nat
      /\ "spurious" \notin errs => attempt < attrChanges
  BY <1>1, SizeIsNat DEF LoopInv, XattrTypeOK
<1>3. buf' \in Nat /\ buf' > 0 /\ ~(Size > buf')
  BY <1>1, <1>2
<1>4. XattrTypeOK'
  BY <1>1, <1>2, <1>3 DEF XattrTypeOK, Pairs, Present, objectVars
<1>5. Size' = Size /\ Missing' = Missing
  BY <1>1 DEF Size, Missing, Present, objectVars
<1>6. LoopInv'
  BY <1>1, <1>2, <1>3, <1>5 DEF LoopInv, objectVars
<1>7. LeftInv'
  BY <1>1 DEF LeftInv, ListTaken, objectVars
<1>8. AttrsFaithful'
  BY <1>1, <1>2, XattrAssumption DEF AttrsFaithful, objectVars
<1>9. QED
  BY <1>1, <1>4, <1>6, <1>7, <1>8

LEMMA NextNameKeeps == ASSUME XattrInv, NextName PROVE XattrInv'
<1> USE DEF XattrInv
<1>1. xpc = "next" /\ UNCHANGED <<objectVars, buf, attempt, out, errs>>
  BY DEF NextName
<1>2. \/ left = {} /\ xpc' = "done" /\ UNCHANGED <<item, left>>
      \/ \E n \in left : item' = n /\ left' = left \ {n} /\ xpc' = "probe"
  BY DEF NextName, Rest
<1>3. XattrTypeOK'
  BY <1>1, <1>2 DEF XattrTypeOK, Pairs, Present, objectVars
<1>4. LoopInv'
  BY <1>1, <1>2 DEF LoopInv, objectVars
<1>5. LeftInv'
  BY <1>1, <1>2, XattrAssumption DEF LeftInv, ListTaken, XattrTypeOK, objectVars
<1>6. AttrsFaithful'
  BY <1>1, <1>2, KeptIsPresent DEF AttrsFaithful, LeftInv, ListTaken, objectVars
<1>7. QED
  BY <1>1, <1>2, <1>3, <1>4, <1>5, <1>6

LEMMA XattrStepKeeps == ASSUME XattrInv, XattrStep PROVE XattrInv'
BY CallFailsKeeps, ProbeKeeps, ReadKeeps, ReadTooShortKeeps, GrowKeeps, NextNameKeeps
   DEF XattrStep

LEMMA XattrsReturnKeeps ==
  ASSUME XattrInv, XattrsReturn, xpc \in {"done", "failed"} PROVE XattrInv'
<1> USE DEF XattrInv, XattrsReturn, objectVars
<1>1. XattrTypeOK'
  BY DEF XattrTypeOK, Pairs, Present
<1>2. LoopInv' /\ LeftInv'
  BY DEF LoopInv, LeftInv, ListTaken, AttrsFaithful
<1>3. AttrsFaithful'
  BY DEF AttrsFaithful
<1>4. QED
  BY <1>1, <1>2, <1>3
----------------------------------------------------------------------------
(* The volume and the files.                                               *)

LEMMA VolumeStays ==
  VolumeIsWhole /\ UNCHANGED <<volume, before, inside, kept, errs>> => VolumeIsWhole'
BY DEF VolumeIsWhole, Source

\* The steps that leave every file alone.
LEMMA QuietSteps ==
  ASSUME CreateInv, Checks \/ Walk \/ ReadAttrs \/ OthersChange PROVE CreateInv'
<1> USE DEF CreateInv
<1>1. XattrInv'
  BY XattrStutters, XattrStepKeeps, XattrsReturnKeeps, AttrChangesKeep
     DEF Checks, Walk, ReadAttrs, OthersChange
<1>2. /\ UNCHANGED <<fixed, outputs>>
      /\ \/ cpc = "stat" /\ cpc' = "walk" /\ err' = err
         \/ cpc = "walk" /\ cpc' = "attrs" /\ err' = err
         \/ cpc = "attrs" /\ cpc' \in {"attrs", "rootInfo"} /\ err' = err
         \/ cpc = "rootInfo" /\ cpc' = "scratch" /\ err' = err
         \/ cpc = "rewind" /\ cpc' = "map" /\ err' = err
         \/ cpc = "map" /\ cpc' = "open" /\ err' = err
         \/ /\ cpc \in {"stat", "walk", "attrs", "rootInfo", "rewind", "map"}
            /\ cpc' = "return" /\ err' = cpc
  BY DEF Checks, Walk, ReadAttrs, OthersChange, Succeeds, Fails, After
<1>3. /\ cpc # "attrs" => UNCHANGED xattrVars
      /\ cpc # "walk" => UNCHANGED seen
      /\ cpc = "walk" /\ cpc' # "return" =>
            seen' = [p \in {q \in inside : disk[q] # "absent"} |-> disk[p]]
      /\ cpc = "attrs" /\ cpc' = "rootInfo" => xpc' = "done"
  BY DEF Checks, Walk, ReadAttrs, OthersChange, Succeeds, Fails, XattrsReturn, After
<1>4. cpc # "attrs" /\ VolumeIsWhole => VolumeIsWhole'
  BY <1>2, <1>3, VolumeStays
     DEF fixed, outputs, xattrVars, objectVars, readerVars
<1>5. CreateTypeOK'
  BY <1>2 DEF CreateTypeOK, fixed, outputs, Steps, After, Deferred
<1>6. DiskInv'
  BY <1>2 DEF DiskInv, fixed, outputs, FromScratch, Deferred
<1>7. Source' = Source
  BY <1>2 DEF Source, fixed
<1>8. cpc = "walk" /\ cpc' = "attrs" => seen' = Source
  BY <1>3 DEF Source, DiskInv, CreateTypeOK, Deferred, FromScratch, Files
<1>9. StageInv'
  BY <1>2, <1>3, <1>4, <1>7, <1>8
     DEF StageInv, FromScratch, FromVolume, Deferred, xattrVars, readerVars
<1>10. OldImageSurvives'
  BY <1>2 DEF DiskInv, OldImageSurvives, fixed, outputs, Deferred
<1>11. QED
  BY <1>1, <1>5, <1>6, <1>9, <1>10
LEMMA MakeScratchKeeps == ASSUME CreateInv, MakeScratch PROVE CreateInv'
<1> USE DEF CreateInv
<1>1. UNCHANGED <<xattrVars, fixed, seen>>
  BY DEF MakeScratch
<1>2. XattrInv' /\ Source' = Source
  BY <1>1, XattrStutters DEF Source, fixed
<1>3. UNCHANGED volume /\ VolumeIsWhole => VolumeIsWhole'
  BY <1>1, VolumeStays DEF fixed, xattrVars, objectVars, readerVars
<1>4. /\ cpc = "scratch" /\ UNCHANGED <<volume, outOpen, written, inFile, leftover>>
      /\ \/ cpc' = "return" /\ err' = "scratch" /\ UNCHANGED <<disk, scratchOpen>>
         \/ /\ cpc' = "build" /\ err' = err /\ scratchOpen' = TRUE
            /\ disk' = [disk EXCEPT !["scratch"] = "empty"]
  BY DEF MakeScratch, Succeeds, Fails, After
<1>5. CreateTypeOK'
  BY <1>1, <1>4 DEF CreateTypeOK, fixed, Steps, After, Deferred, Files
<1>6. DiskInv'
  BY <1>1, <1>4 DEF DiskInv, CreateTypeOK, fixed, FromScratch, Deferred, Files
<1>7. StageInv'
  BY <1>1, <1>2, <1>3, <1>4
     DEF StageInv, DiskInv, CreateTypeOK, FromScratch, FromVolume, Deferred, Files,
         xattrVars, readerVars
<1>8. OldImageSurvives'
  BY <1>1, <1>3, <1>4
     DEF OldImageSurvives, DiskInv, StageInv, CreateTypeOK, FromScratch, FromVolume,
         Deferred, Files, fixed
<1>9. QED
  BY <1>2, <1>5, <1>6, <1>7, <1>8

\* What Build accepts is whole: the files are those that were seen, the attributes those
\* that were read, with different keys and none too long.
LEMMA BuiltIsWhole == ASSUME CreateInv, Build, cpc' # "return" PROVE VolumeIsWhole'
<1> USE DEF CreateInv
<1>1. cpc = "build" /\ UNCHANGED <<before, inside, kept, errs, out>>
  BY DEF Build, Succeeds, Fails, fixed, xattrVars, objectVars, readerVars
<1>2. PICK key \in AttrKeys :
          /\ Accepted(Records(key))
          /\ volume' = [files |-> [p \in DOMAIN seen |-> disk[p]], attrs |-> Records(key)]
  BY DEF Build, Fails
<1>3. volume'.files = Source'
  <2>1. \A p \in DOMAIN seen : disk[p] = seen[p]
    BY DEF Build, Fails
  <2>2. seen = Source /\ Source' = Source
    BY <1>1 DEF StageInv, Source, Deferred
  <2>3. QED
    BY <1>2, <2>1, <2>2 DEF Source
<1>4. volume'.attrs = Records(key)
  BY <1>2
<1>5. ASSUME NEW p \in kept, "unsupported" \notin errs
      PROVE  \E r \in Records(key) : r.name = p[1] /\ r.len = p[2]
  <2>1. p \in out
    BY <1>1, <1>5 DEF StageInv, XattrInv, AttrsFaithful, Deferred
  <2>2. [name |-> p[1], key |-> key[p[1]], len |-> p[2]] \in Records(key)
    BY <2>1 DEF Records
  <2>3. QED
    BY <2>2
<1>6. QED
  BY <1>1, <1>2, <1>3, <1>4, <1>5 DEF VolumeIsWhole, Accepted

LEMMA BuildKeeps == ASSUME CreateInv, Build PROVE CreateInv'
<1> USE DEF CreateInv
<1>1. UNCHANGED <<xattrVars, fixed, seen>>
  BY DEF Build
<1>2. XattrInv' /\ Source' = Source
  BY <1>1, XattrStutters DEF Source, fixed
<1>3. UNCHANGED volume /\ VolumeIsWhole => VolumeIsWhole'
  BY <1>1, VolumeStays DEF fixed, xattrVars, objectVars, readerVars
<1>4. /\ cpc = "build" /\ UNCHANGED <<scratchOpen, outOpen, written, inFile, leftover>>
      /\ \/ /\ cpc' = "return" /\ err' = "build"
            /\ disk' = [disk EXCEPT !["scratch"] = "partial"]
         \/ /\ cpc' = "rewind" /\ err' = err /\ VolumeIsWhole'
            /\ disk' = [disk EXCEPT !["scratch"] = "volume"]
  BY BuiltIsWhole DEF Build, Succeeds, Fails, After
<1>5. CreateTypeOK'
  BY <1>1, <1>4 DEF CreateTypeOK, fixed, Steps, After, Deferred, Files
<1>6. DiskInv'
  BY <1>1, <1>4 DEF DiskInv, CreateTypeOK, fixed, FromScratch, Deferred, Files
<1>7. StageInv'
  BY <1>1, <1>2, <1>3, <1>4
     DEF StageInv, DiskInv, CreateTypeOK, FromScratch, FromVolume, Deferred, Files,
         xattrVars, readerVars
<1>8. OldImageSurvives'
  BY <1>1, <1>3, <1>4
     DEF OldImageSurvives, DiskInv, StageInv, CreateTypeOK, FromScratch, FromVolume,
         Deferred, Files, fixed
<1>9. QED
  BY <1>2, <1>5, <1>6, <1>7, <1>8

LEMMA OpenKeeps == ASSUME CreateInv, Open PROVE CreateInv'
<1> USE DEF CreateInv
<1>1. UNCHANGED <<xattrVars, fixed, seen>>
  BY DEF Open
<1>2. XattrInv' /\ Source' = Source
  BY <1>1, XattrStutters DEF Source, fixed
<1>3. UNCHANGED volume /\ VolumeIsWhole => VolumeIsWhole'
  BY <1>1, VolumeStays DEF fixed, xattrVars, objectVars, readerVars
<1>4. /\ cpc = "open" /\ UNCHANGED <<volume, scratchOpen, written, inFile, leftover>>
      /\ \/ cpc' = "return" /\ err' = "open" /\ UNCHANGED <<disk, outOpen>>
         \/ /\ cpc' = "wrap" /\ err' = err /\ outOpen' = TRUE
            /\ disk' = [disk EXCEPT !["out"] = "new"]
  BY DEF Open, Succeeds, Fails, After
<1>5. CreateTypeOK'
  BY <1>1, <1>4 DEF CreateTypeOK, fixed, Steps, After, Deferred, Files
<1>6. DiskInv'
  BY <1>1, <1>4 DEF DiskInv, CreateTypeOK, fixed, FromScratch, Deferred, Files
<1>7. StageInv'
  BY <1>1, <1>2, <1>3, <1>4
     DEF StageInv, DiskInv, CreateTypeOK, FromScratch, FromVolume, Deferred, Files,
         xattrVars, readerVars
<1>8. OldImageSurvives'
  BY <1>1, <1>3, <1>4
     DEF OldImageSurvives, DiskInv, StageInv, CreateTypeOK, FromScratch, FromVolume,
         Deferred, Files, fixed
<1>9. QED
  BY <1>2, <1>5, <1>6, <1>7, <1>8

LEMMA WriteKeeps == ASSUME CreateInv, Write PROVE CreateInv'
<1> USE DEF CreateInv
<1>1. UNCHANGED <<xattrVars, fixed, seen>>
  BY DEF Write
<1>2. XattrInv' /\ Source' = Source
  BY <1>1, XattrStutters DEF Source, fixed
<1>3. UNCHANGED volume /\ VolumeIsWhole => VolumeIsWhole'
  BY <1>1, VolumeStays DEF fixed, xattrVars, objectVars, readerVars
<1>4. /\ cpc = "wrap" /\ UNCHANGED <<disk, volume, scratchOpen, outOpen, leftover>>
      /\ written' \in 0 .. Parts /\ inFile' \in 0 .. written'
      /\ \/ cpc' = "return" /\ err' = "wrap"
         \/ cpc' = "wrap" /\ err' = err
  BY CreateAssumption DEF Write, Succeeds, Fails, After, CreateTypeOK
<1>5. CreateTypeOK'
  BY <1>1, <1>4 DEF CreateTypeOK, fixed, Steps, After, Deferred, Files
<1>6. DiskInv'
  BY <1>1, <1>4 DEF DiskInv, CreateTypeOK, fixed, FromScratch, Deferred, Files
<1>7. StageInv'
  BY <1>1, <1>2, <1>3, <1>4
     DEF StageInv, DiskInv, CreateTypeOK, FromScratch, FromVolume, Deferred, Files,
         xattrVars, readerVars
<1>8. OldImageSurvives'
  BY <1>1, <1>3, <1>4
     DEF OldImageSurvives, DiskInv, StageInv, CreateTypeOK, FromScratch, FromVolume,
         Deferred, Files, fixed
<1>9. QED
  BY <1>2, <1>5, <1>6, <1>7, <1>8

LEMMA FlushKeeps == ASSUME CreateInv, Flush PROVE CreateInv'
<1> USE DEF CreateInv
<1>1. UNCHANGED <<xattrVars, fixed, seen>>
  BY DEF Flush
<1>2. XattrInv' /\ Source' = Source
  BY <1>1, XattrStutters DEF Source, fixed
<1>3. UNCHANGED volume /\ VolumeIsWhole => VolumeIsWhole'
  BY <1>1, VolumeStays DEF fixed, xattrVars, objectVars, readerVars
<1>4. /\ cpc = "wrap" /\ UNCHANGED <<disk, volume, scratchOpen, outOpen, written, leftover>>
      /\ inFile' \in 0 .. written
      /\ \/ cpc' = "return" /\ err' = "wrap"
         \/ cpc' = "return" /\ err' = err /\ inFile' = Parts
  BY CreateAssumption DEF Flush, Succeeds, Fails, After, CreateTypeOK
<1>5. CreateTypeOK'
  BY <1>1, <1>4 DEF CreateTypeOK, fixed, Steps, After, Deferred, Files
<1>6. DiskInv'
  BY <1>1, <1>4 DEF DiskInv, CreateTypeOK, fixed, FromScratch, Deferred, Files
<1>7. StageInv'
  BY <1>1, <1>2, <1>3, <1>4
     DEF StageInv, DiskInv, CreateTypeOK, FromScratch, FromVolume, Deferred, Files,
         xattrVars, readerVars
<1>8. OldImageSurvives'
  BY <1>1, <1>3, <1>4
     DEF OldImageSurvives, DiskInv, StageInv, CreateTypeOK, FromScratch, FromVolume,
         Deferred, Files, fixed
<1>9. QED
  BY <1>2, <1>5, <1>6, <1>7, <1>8

\* The close may lose what was stored, and then it is not a success.
LEMMA CloseOutKeeps == ASSUME CreateInv, CloseOut PROVE CreateInv'
<1> USE DEF CreateInv
<1>1. UNCHANGED <<xattrVars, fixed, seen>>
  BY DEF CloseOut
<1>2. XattrInv' /\ Source' = Source
  BY <1>1, XattrStutters DEF Source, fixed
<1>3. UNCHANGED volume /\ VolumeIsWhole => VolumeIsWhole'
  BY <1>1, VolumeStays DEF fixed, xattrVars, objectVars, readerVars
<1>4. /\ cpc = "return" /\ cpc' = "return" /\ outOpen' = FALSE
      /\ UNCHANGED <<disk, volume, scratchOpen, written, leftover>>
      /\ \/ UNCHANGED <<err, inFile>>
         \/ /\ inFile' \in 0 .. written
            /\ err' = IF err = "none" THEN "close" ELSE err
  BY CreateAssumption DEF CloseOut, Closed, CreateTypeOK
<1>5. CreateTypeOK'
  BY <1>1, <1>4 DEF CreateTypeOK, fixed, Steps, After, Deferred, Files
<1>6. DiskInv'
  BY <1>1, <1>4 DEF DiskInv, CreateTypeOK, fixed, FromScratch, Deferred, Files
<1>7. StageInv'
  BY <1>1, <1>2, <1>3, <1>4
     DEF StageInv, DiskInv, CreateTypeOK, FromScratch, FromVolume, Deferred, Files,
         xattrVars, readerVars
<1>8. OldImageSurvives'
  BY <1>1, <1>3, <1>4
     DEF OldImageSurvives, DiskInv, StageInv, CreateTypeOK, FromScratch, FromVolume,
         Deferred, Files, fixed
<1>9. QED
  BY <1>2, <1>5, <1>6, <1>7, <1>8

LEMMA RemoveScratchKeeps == ASSUME CreateInv, RemoveScratch PROVE CreateInv'
<1> USE DEF CreateInv
<1>1. UNCHANGED <<xattrVars, fixed, seen>>
  BY DEF RemoveScratch
<1>2. XattrInv' /\ Source' = Source
  BY <1>1, XattrStutters DEF Source, fixed
<1>3. UNCHANGED volume /\ VolumeIsWhole => VolumeIsWhole'
  BY <1>1, VolumeStays DEF fixed, xattrVars, objectVars, readerVars
<1>4. /\ cpc = "return" /\ cpc' = "return" /\ err' = err /\ scratchOpen' = FALSE
      /\ UNCHANGED <<volume, outOpen, written, inFile>>
      /\ \/ disk' = [disk EXCEPT !["scratch"] = "absent"] /\ UNCHANGED leftover
         \/ leftover' = TRUE /\ UNCHANGED disk
  BY DEF RemoveScratch
<1>5. CreateTypeOK'
  BY <1>1, <1>4 DEF CreateTypeOK, fixed, Steps, After, Deferred, Files
<1>6. DiskInv'
  BY <1>1, <1>4 DEF DiskInv, CreateTypeOK, fixed, FromScratch, Deferred, Files
<1>7. StageInv'
  BY <1>1, <1>2, <1>3, <1>4
     DEF StageInv, DiskInv, CreateTypeOK, FromScratch, FromVolume, Deferred, Files,
         xattrVars, readerVars
<1>8. OldImageSurvives'
  BY <1>1, <1>3, <1>4
     DEF OldImageSurvives, DiskInv, StageInv, CreateTypeOK, FromScratch, FromVolume,
         Deferred, Files, fixed
<1>9. QED
  BY <1>2, <1>5, <1>6, <1>7, <1>8

LEMMA ReturnKeeps == ASSUME CreateInv, Return PROVE CreateInv'
<1> USE DEF CreateInv
<1>1. UNCHANGED <<xattrVars, fixed, seen>>
  BY DEF Return
<1>2. XattrInv' /\ Source' = Source
  BY <1>1, XattrStutters DEF Source, fixed
<1>3. UNCHANGED volume /\ VolumeIsWhole => VolumeIsWhole'
  BY <1>1, VolumeStays DEF fixed, xattrVars, objectVars, readerVars
<1>4. /\ cpc = "return" /\ ~outOpen /\ ~scratchOpen /\ cpc' = "returned"
      /\ UNCHANGED <<err, outputs>>
  BY DEF Return, MustRemove
<1>5. CreateTypeOK'
  BY <1>1, <1>4 DEF outputs, CreateTypeOK, fixed, Steps, After, Deferred, Files
<1>6. DiskInv'
  BY <1>1, <1>4 DEF outputs, DiskInv, CreateTypeOK, fixed, FromScratch, Deferred, Files
<1>7. StageInv'
  BY <1>1, <1>2, <1>3, <1>4
     DEF outputs, StageInv, DiskInv, CreateTypeOK, FromScratch, FromVolume, Deferred, Files,
         xattrVars, readerVars
<1>8. OldImageSurvives'
  BY <1>1, <1>3, <1>4
     DEF outputs, OldImageSurvives, DiskInv, StageInv, CreateTypeOK, FromScratch, FromVolume,
         Deferred, Files, fixed
<1>9. QED
  BY <1>2, <1>5, <1>6, <1>7, <1>8

----------------------------------------------------------------------------
(* The theorems.                                                           *)

LEMMA CreateInitHolds == CreateInit => CreateInv
<1> SUFFICES ASSUME CreateInit PROVE CreateInv
  OBVIOUS
<1> USE CreateAssumption DEF CreateInit
<1>1. XattrInv
  BY XattrInitHolds
<1>2. CreateTypeOK
  <2>1. PICK o \in {"absent", "old"} :
            before = [file |-> "user", out |-> o, scratch |-> "absent"]
    OBVIOUS
  <2>2. /\ before \in [Files -> {"absent", "user", "old"}]
        /\ disk \in [Files -> {"absent", "user", "old", "empty", "partial", "volume", "new"}]
    BY <2>1 DEF Files
  <2>3. "stat" \in Steps
    BY DEF Steps, After
  <2>4. inside \subseteq Files /\ written \in 0 .. Parts /\ inFile \in 0 .. written
    BY DEF Files
  <2>5. QED
    BY <2>2, <2>3, <2>4 DEF CreateTypeOK
<1>3. DiskInv /\ StageInv /\ OldImageSurvives
  BY DEF DiskInv, StageInv, OldImageSurvives, FromScratch, FromVolume, Deferred, Files
<1>4. QED
  BY <1>1, <1>2, <1>3 DEF CreateInv

LEMMA CreateNextKeeps == CreateInv /\ [CreateNext]_vars => CreateInv'
<1> SUFFICES ASSUME CreateInv, [CreateNext]_vars PROVE CreateInv'
  OBVIOUS
<1>1. CASE CreateStep
  BY <1>1, QuietSteps, MakeScratchKeeps, BuildKeeps, OpenKeeps, WriteKeeps, FlushKeeps,
     CloseOutKeeps, RemoveScratchKeeps, ReturnKeeps DEF CreateStep
<1>2. CASE OthersChange
  BY <1>2, QuietSteps
<1>3. CASE UNCHANGED vars
  <2>1. UNCHANGED <<xattrVars, fixed, seen, outputs, cpc, err>>
    BY <1>3 DEF vars, xattrVars, objectVars, readerVars, fixed, outputs
  <2>2. VolumeIsWhole' <=> VolumeIsWhole
    BY <1>3 DEF vars, VolumeIsWhole, Source
  <2>3. XattrInv' /\ Source' = Source
    BY <2>1, XattrStutters DEF CreateInv, Source, fixed
  <2>4. CreateTypeOK' /\ DiskInv'
    BY <1>3 DEF vars, CreateInv, CreateTypeOK, DiskInv
  <2>5. StageInv' /\ OldImageSurvives'
    BY <1>3, <2>2, <2>3 DEF vars, CreateInv, StageInv, OldImageSurvives
  <2>6. QED
    BY <2>3, <2>4, <2>5 DEF CreateInv
<1>4. QED
  BY <1>1, <1>2, <1>3 DEF CreateNext, CreateOver

\* CreateInv, the inductive invariant of Create (dmg.go) and of ReadXattrs
\* (xattrs_unix.go), holds whatever fails and however the attributes change.
THEOREM CreateInvCorrect == CreateSpec => []CreateInv
<1>1. CreateInit => CreateInv
  BY CreateInitHolds
<1>2. CreateInv /\ [CreateNext]_vars => CreateInv'
  BY CreateNextKeeps
<1>3. QED
  BY <1>1, <1>2, PTL DEF CreateSpec

\* AttrsFaithful: the retries of ReadXattrs (xattrs_unix.go) give up only after as many
\* changes as there are attempts, and lose no attribute and no byte of a value.
THEOREM AttrsFaithfulCorrect == CreateSpec => []AttrsFaithful
<1>1. CreateInv => AttrsFaithful
  BY DEF CreateInv, XattrInv
<1>2. QED
  BY <1>1, CreateInvCorrect, PTL

\* OldImageSurvives: a failure before the image is written leaves the image of a previous
\* run alone, and what is written then is a whole volume.
THEOREM OldImageSurvivesCorrect == CreateSpec => []OldImageSurvives
<1>1. CreateInv => OldImageSurvives
  BY DEF CreateInv
<1>2. QED
  BY <1>1, CreateInvCorrect, PTL

\* SuccessIsWhole: no error means every part of the image flushed and closed.
THEOREM SuccessIsWholeCorrect == CreateSpec => []SuccessIsWhole
<1>1. CreateInv => SuccessIsWhole
  BY DEF CreateInv, StageInv, SuccessIsWhole, Deferred
<1>2. QED
  BY <1>1, CreateInvCorrect, PTL

\* ScratchGone: the deferred calls close both files and remove the scratch file.
THEOREM ScratchGoneCorrect == CreateSpec => []ScratchGone
<1>1. CreateInv => ScratchGone
  BY DEF CreateInv, DiskInv, ScratchGone
<1>2. QED
  BY <1>1, CreateInvCorrect, PTL
=============================================================================
