-------------------------- MODULE SequentialEncode --------------------------
(* What encodeChunks promises: whatever the number of workers, the chunks  *)
(* of a region are summed in input order and written in input order, as a  *)
(* single loop over the region would do, and a call that ends, ends with   *)
(* the complete table or with the error of a step that failed.             *)
(* Options.Workers says it: "Output is byte-identical regardless of        *)
(* Workers".                                                               *)
EXTENDS ChunkFormat, Sequences

CONSTANT Faults   \* the steps that may fail

VARIABLES
    content,       \* the source
    summed,        \* the chunks the CRC has seen, in order
    dst,           \* the bytes appended to the data fork
    runs,          \* the blkx runs
    dataForkLen,   \* length of the data fork
    outcome        \* what the call returned

vars == <<content, summed, dst, runs, dataForkLen, outcome>>

\* The next chunk to write.
Upcoming == Len(runs)

RunOf(i) ==
    LET zero == content[i] = 0 IN
    [Type |-> RunType(zero, ChunkLength(i), content[i]),
     SectorStart |-> i * ChunkSectors,
     SectorCount |-> ChunkLength(i),
     CompOffset |-> dataForkLen,
     CompLength |-> PayloadLen(zero, ChunkLength(i), content[i])]

Init ==
    /\ content \in Contents
    /\ summed = <<>>
    /\ dst = <<>>
    /\ runs = <<>>
    /\ dataForkLen = BaseOffset
    /\ outcome = "none"

\* The next chunk that is not all zero enters the CRC.
Sum(i) ==
    /\ outcome = "none"
    /\ content[i] # 0
    /\ \A j \in Chunks :
          content[j] # 0 =>
             ((\E k \in DOMAIN summed : summed[k] = j) <=> j < i)
    /\ summed' = Append(summed, i)
    /\ UNCHANGED <<content, dst, runs, dataForkLen, outcome>>

\* The next chunk is encoded and appended to the data fork.
Emit ==
    /\ outcome = "none"
    /\ Upcoming \in Chunks
    /\ LET run == RunOf(Upcoming) IN
       /\ runs' = Append(runs, run)
       /\ dst' = dst \o Payload(Upcoming, run.CompLength)
       /\ dataForkLen' = dataForkLen + run.CompLength
    /\ UNCHANGED <<content, summed, outcome>>

\* Every chunk has been written and summed.
Succeed ==
    /\ outcome = "none"
    /\ Len(runs) = NumChunks
    /\ \A i \in Chunks :
          content[i] # 0 => \E k \in DOMAIN summed : summed[k] = i
    /\ outcome' = "ok"
    /\ UNCHANGED <<content, summed, dst, runs, dataForkLen>>

\* A step failed: reading, summing, compressing or writing.
Fail(e) ==
    /\ outcome = "none"
    /\ outcome' = e
    /\ UNCHANGED <<content, summed, dst, runs, dataForkLen>>

Next ==
    \/ \E i \in Chunks : Sum(i)
    \/ Emit
    \/ Succeed
    \/ \E e \in Faults : Fail(e)

Spec == Init /\ [][Next]_vars
=============================================================================
