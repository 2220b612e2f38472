---------------------------- MODULE EncodeChunks ----------------------------
(* encodeChunks of internal/udif/writer.go: a producer (the caller's       *)
(* goroutine) reads and sums chunks and dispatches them on `jobs'; a pool  *)
(* of workers encodes them and sends on `results'; a closer closes         *)
(* `results' when the workers are gone; a drain puts the results back in   *)
(* input order and writes them.  One action is one step of one goroutine   *)
(* between two communications.                                             *)
EXTENDS ChunkFormat, Sequences, FiniteSets

CONSTANTS
    Workers,   \* the compression goroutines
    Faults     \* the steps that may fail in this instance

ASSUME EncodeAssumption ==
    /\ IsFiniteSet(Workers)
    /\ Workers # {}
    /\ Faults \subseteq {"read", "crc", "zlib", "write"}

VARIABLES
    content,                              \* the source: see ChunkFormat
    pc, idx, nextSector, remaining,       \* the producer
    producerErr, summed, outcome,
    jobs, jobsClosed,                     \* the channels
    results, resultsClosed, errCh, done, drainCh,
    work, exited,                         \* the workers
    dpc, pending, nextIdx, writeErr,      \* the drain
    runs, dataForkLen, dst,
    faulted                               \* history: the steps that failed

producerVars == <<pc, idx, nextSector, remaining, producerErr, summed, outcome>>
workerVars == <<work, exited>>
drainVars == <<dpc, pending, nextIdx, writeErr, runs, dataForkLen, dst, drainCh>>
vars == <<content, producerVars, jobs, jobsClosed, results, resultsClosed,
          errCh, done, workerVars, drainVars, faulted>>

----------------------------------------------------------------------------
(* Jobs, results and the capacities of the channels.                       *)

NoJob == [idx |-> -1, sectorStart |-> 0, secCount |-> 0, zero |-> FALSE]
Job == [idx : Chunks, sectorStart : Nat, secCount : Nat, zero : BOOLEAN]
Result == [idx : Chunks, runType : RunTypes, sectorStart : Nat, secCount : Nat,
           len : Nat]
Run == [Type : RunTypes, SectorStart : Nat, SectorCount : Nat,
        CompOffset : Nat, CompLength : Nat]

JobsCap == 2 * Cardinality(Workers)
ResultsCap == 2 * Cardinality(Workers)
ErrCap == Cardinality(Workers) + 1

\* What a worker makes of a job.
Encode(j) ==
    [idx |-> j.idx,
     runType |-> RunType(j.zero, j.secCount, content[j.idx]),
     sectorStart |-> j.sectorStart,
     secCount |-> j.secCount,
     len |-> PayloadLen(j.zero, j.secCount, content[j.idx])]

Init ==
    /\ content \in Contents
    /\ pc = "read" /\ idx = 0 /\ nextSector = 0 /\ remaining = RegionSectors
    /\ producerErr = "none" /\ summed = <<>> /\ outcome = "none"
    /\ jobs = <<>> /\ jobsClosed = FALSE
    /\ results = <<>> /\ resultsClosed = FALSE
    /\ errCh = 0 /\ done = FALSE /\ drainCh = "empty"
    /\ work = [w \in Workers |-> NoJob] /\ exited = {}
    /\ dpc = "receive" /\ pending = {} /\ nextIdx = 0 /\ writeErr = FALSE
    /\ runs = <<>> /\ dataForkLen = BaseOffset /\ dst = <<>>
    /\ faulted = {}

----------------------------------------------------------------------------
(* The decisions of the pool.  Each is preceded by the slip, a mutant, that *)
(* the properties are there to catch.                                      *)

\* The chunk to read: the last one is short.
ThisChunk_Whole == ChunkSectors
ThisChunk == IF ChunkSectors > remaining THEN remaining ELSE ChunkSectors

\* What the CRC has seen after this chunk: not a chunk of zeros.
SumThis_Zeros == Append(summed, idx)
SumThis == IF content[idx] = 0 THEN summed ELSE Append(summed, idx)

\* What the call returns: the producer's error first, then a worker's, then
\* the drain's.
Reported_DoneIsZlib ==
    IF producerErr = "none" /\ (errCh > 0 \/ done) THEN "zlib"
    ELSE IF producerErr # "none" THEN producerErr ELSE drainCh
Reported == CASE producerErr # "none" -> producerErr
              [] producerErr = "none" /\ errCh > 0 -> "zlib"
              [] OTHER -> drainCh

\* trySendErr: an error is dropped when errCh is full.
TrySendErr_Silent == errCh
TrySendErr == IF errCh < ErrCap THEN errCh + 1 ELSE errCh

\* wg.Wait.
AllDone_JobsClosed == jobsClosed
AllDone == exited = Workers

\* The drain receives a result ...
Received_Peek == IF writeErr THEN results ELSE Tail(results)
Received == Tail(results)

\* ... and keeps it: `pending' is a map from an index, a field of the result,
\* to the result, so a result replaces the one that had its index.
Keep(r) == {p \in pending : p.idx # r.idx} \cup {r}

\* The result whose turn it is to be written.
InLine_AsTheyCome(r) == TRUE
InLine(r) == r.idx = nextIdx

\* The drain leaves when `results' is closed and empty.
DrainOver_OnError == writeErr \/ (results = <<>> /\ resultsClosed)
DrainOver == results = <<>> /\ resultsClosed

----------------------------------------------------------------------------
(* The producer.                                                           *)

\* io.ReadFull fails or the source is short.
ReadFails ==
    /\ pc = "read" /\ remaining > 0
    /\ "read" \in Faults
    /\ producerErr' = "read" /\ faulted' = faulted \cup {"read"}
    /\ pc' = "close"
    /\ UNCHANGED <<content, idx, nextSector, remaining, summed, outcome, jobs,
                   jobsClosed, results, resultsClosed, errCh, done, workerVars,
                   drainVars>>

\* The CRC refuses a chunk that is not all zero.
SumFails ==
    /\ pc = "read" /\ remaining > 0
    /\ content[idx] # 0
    /\ "crc" \in Faults
    /\ producerErr' = "crc" /\ faulted' = faulted \cup {"crc"}
    /\ pc' = "close"
    /\ UNCHANGED <<content, idx, nextSector, remaining, summed, outcome, jobs,
                   jobsClosed, results, resultsClosed, errCh, done, workerVars,
                   drainVars>>

\* A chunk is read and, unless it is all zero, summed.
ReadChunk ==
    /\ pc = "read" /\ remaining > 0
    /\ summed' = SumThis
    /\ pc' = "dispatch"
    /\ UNCHANGED <<content, idx, nextSector, remaining, producerErr, outcome,
                   jobs, jobsClosed, results, resultsClosed, errCh, done,
                   workerVars, drainVars, faulted>>

\* The select: a place in `jobs' ...
Dispatch ==
    /\ pc = "dispatch"
    /\ Len(jobs) < JobsCap
    /\ jobs' = Append(jobs, [idx |-> idx, sectorStart |-> nextSector,
                             secCount |-> ThisChunk, zero |-> content[idx] = 0])
    /\ idx' = idx + 1
    /\ nextSector' = nextSector + ThisChunk
    /\ remaining' = remaining - ThisChunk
    /\ pc' = "read"
    /\ UNCHANGED <<content, producerErr, summed, outcome, jobsClosed, results,
                   resultsClosed, errCh, done, workerVars, drainVars, faulted>>

\* ... or the error of a worker ...
TakeWorkerError ==
    /\ pc = "dispatch"
    /\ errCh > 0
    /\ errCh' = errCh - 1
    /\ producerErr' = "zlib"
    /\ pc' = "close"
    /\ UNCHANGED <<content, idx, nextSector, remaining, summed, outcome, jobs,
                   jobsClosed, results, resultsClosed, done, workerVars,
                   drainVars, faulted>>

\* ... or the drain's word that it cannot write.
SeeDone ==
    /\ pc = "dispatch"
    /\ done
    /\ pc' = "close"
    /\ UNCHANGED <<content, idx, nextSector, remaining, producerErr, summed,
                   outcome, jobs, jobsClosed, results, resultsClosed, errCh,
                   done, workerVars, drainVars, faulted>>

CloseJobs ==
    /\ pc = "close" \/ (pc = "read" /\ remaining = 0)
    /\ jobsClosed' = TRUE
    /\ pc' = "wait"
    /\ UNCHANGED <<content, idx, nextSector, remaining, producerErr, summed,
                   outcome, jobs, results, resultsClosed, errCh, done,
                   workerVars, drainVars, faulted>>

\* The drain has answered.
Return ==
    /\ pc = "wait"
    /\ drainCh # "empty"
    /\ outcome' = Reported
    /\ errCh' = 0
    /\ drainCh' = "empty"
    /\ pc' = "returned"
    /\ UNCHANGED <<content, idx, nextSector, remaining, producerErr, summed,
                   jobs, jobsClosed, results, resultsClosed, done, workerVars,
                   dpc, pending, nextIdx, writeErr, runs, dataForkLen, dst,
                   faulted>>

Producer ==
    \/ ReadFails \/ SumFails \/ ReadChunk
    \/ Dispatch \/ TakeWorkerError \/ SeeDone
    \/ CloseJobs \/ Return

----------------------------------------------------------------------------
(* The workers and the closer.                                             *)

WorkerTake(w) ==
    /\ w \notin exited /\ work[w] = NoJob
    /\ jobs # <<>>
    /\ work' = [work EXCEPT ![w] = Head(jobs)]
    /\ jobs' = Tail(jobs)
    /\ UNCHANGED <<content, producerVars, jobsClosed, results, resultsClosed,
                   errCh, done, exited, drainVars, faulted>>

WorkerSend(w) ==
    /\ work[w] # NoJob
    /\ Len(results) < ResultsCap
    /\ results' = Append(results, Encode(work[w]))
    /\ work' = [work EXCEPT ![w] = NoJob]
    /\ UNCHANGED <<content, producerVars, jobs, jobsClosed, resultsClosed,
                   errCh, done, exited, drainVars, faulted>>

\* zlib fails: the chunk is lost and the worker leaves.
WorkerFail(w) ==
    /\ work[w] # NoJob
    /\ Zlib /\ ~work[w].zero
    /\ "zlib" \in Faults
    /\ errCh' = TrySendErr
    /\ work' = [work EXCEPT ![w] = NoJob]
    /\ exited' = exited \cup {w}
    /\ faulted' = faulted \cup {"zlib"}
    /\ UNCHANGED <<content, producerVars, jobs, jobsClosed, results,
                   resultsClosed, done, drainVars>>

WorkerExit(w) ==
    /\ w \notin exited /\ work[w] = NoJob
    /\ jobsClosed /\ jobs = <<>>
    /\ exited' = exited \cup {w}
    /\ UNCHANGED <<content, producerVars, jobs, jobsClosed, results,
                   resultsClosed, errCh, done, work, drainVars, faulted>>

Worker(w) == WorkerTake(w) \/ WorkerSend(w) \/ WorkerFail(w) \/ WorkerExit(w)

CloseResults ==
    /\ AllDone
    /\ ~resultsClosed
    /\ resultsClosed' = TRUE
    /\ UNCHANGED <<content, producerVars, jobs, jobsClosed, results, errCh,
                   done, workerVars, drainVars, faulted>>

----------------------------------------------------------------------------
(* The drain.                                                              *)

\* A result arrives; after a failed write it is discarded.
DrainReceive ==
    /\ dpc = "receive"
    /\ results # <<>>
    /\ results' = Received
    /\ \/ writeErr /\ UNCHANGED <<pending, dpc>>
       \/ /\ ~writeErr
          /\ pending' = Keep(Head(results))
          /\ dpc' = "flush"
    /\ UNCHANGED <<content, producerVars, jobs, jobsClosed, resultsClosed,
                   errCh, done, workerVars, nextIdx, writeErr, runs,
                   dataForkLen, dst, drainCh, faulted>>

\* The next chunk in line is pending: it leaves the map and its run is written.
DrainWrite(cur) ==
    /\ dpc = "flush"
    /\ InLine(cur)
    /\ pending' = pending \ {cur}
    /\ nextIdx' = nextIdx + 1
    /\ runs' = Append(runs, [Type |-> cur.runType,
                             SectorStart |-> cur.sectorStart,
                             SectorCount |-> cur.secCount,
                             CompOffset |-> dataForkLen,
                             CompLength |-> cur.len])
    /\ dataForkLen' = dataForkLen + cur.len
    /\ dst' = dst \o Payload(cur.idx, cur.len)
    /\ UNCHANGED <<content, producerVars, jobs, jobsClosed, results,
                   resultsClosed, errCh, done, workerVars, dpc, writeErr,
                   drainCh, faulted>>

\* Writing it fails: the producer is told, and what follows is discarded.
DrainWriteFails(cur) ==
    /\ dpc = "flush"
    /\ InLine(cur)
    /\ cur.len > 0
    /\ "write" \in Faults
    /\ pending' = pending \ {cur}
    /\ nextIdx' = nextIdx + 1
    /\ writeErr' = TRUE
    /\ done' = TRUE
    /\ faulted' = faulted \cup {"write"}
    /\ dpc' = "receive"
    /\ UNCHANGED <<content, producerVars, jobs, jobsClosed, results,
                   resultsClosed, errCh, workerVars, runs, dataForkLen, dst,
                   drainCh>>

\* The next chunk in line has not arrived yet.
DrainPause ==
    /\ dpc = "flush"
    /\ \A r \in pending : ~InLine(r)
    /\ dpc' = "receive"
    /\ UNCHANGED <<content, producerVars, jobs, jobsClosed, results,
                   resultsClosed, errCh, done, workerVars, pending, nextIdx,
                   writeErr, runs, dataForkLen, dst, drainCh, faulted>>

\* `results' is closed and empty: the drain answers and leaves.
DrainExit ==
    /\ dpc = "receive"
    /\ DrainOver
    /\ drainCh' = IF writeErr THEN "write" ELSE "ok"
    /\ dpc' = "exited"
    /\ UNCHANGED <<content, producerVars, jobs, jobsClosed, results,
                   resultsClosed, errCh, done, workerVars, pending, nextIdx,
                   writeErr, runs, dataForkLen, dst, faulted>>

Drain ==
    \/ DrainReceive \/ DrainPause \/ DrainExit
    \/ \E cur \in pending : DrainWrite(cur) \/ DrainWriteFails(cur)

----------------------------------------------------------------------------
\* The call has returned and its goroutines are gone.
Finished ==
    /\ pc = "returned" /\ exited = Workers /\ resultsClosed /\ dpc = "exited"
    /\ UNCHANGED vars

Next ==
    \/ Producer
    \/ \E w \in Workers : Worker(w)
    \/ CloseResults
    \/ Drain
    \/ Finished

\* Go schedules every goroutine that can run; nothing is assumed about which
\* ready case of the producer's select is taken.
Fairness ==
    /\ WF_vars(Producer)
    /\ \A w \in Workers : WF_vars(Worker(w))
    /\ WF_vars(CloseResults)
    /\ WF_vars(Drain)

Spec == Init /\ [][Next]_vars /\ Fairness

----------------------------------------------------------------------------
(* Properties.                                                             *)

\* Every variable has its type.
TypeOK ==
    /\ content \in Contents
    /\ pc \in {"read", "dispatch", "close", "wait", "returned"}
    /\ idx \in Nat /\ nextSector \in Nat /\ remaining \in Nat
    /\ producerErr \in {"none", "read", "crc", "zlib"}
    /\ summed \in Seq(Nat)
    /\ outcome \in {"none", "ok", "read", "crc", "zlib", "write"}
    /\ jobs \in Seq(Job) /\ jobsClosed \in BOOLEAN
    /\ results \in Seq(Result) /\ resultsClosed \in BOOLEAN
    /\ errCh \in Nat /\ done \in BOOLEAN
    /\ drainCh \in {"empty", "ok", "write"}
    /\ work \in [Workers -> Job \cup {NoJob}]
    /\ exited \subseteq Workers
    /\ dpc \in {"receive", "flush", "exited"}
    /\ pending \subseteq Result
    /\ nextIdx \in Nat /\ writeErr \in BOOLEAN
    /\ runs \in Seq(Run) /\ dataForkLen \in Nat /\ dst \in Seq(Nat)
    /\ faulted \subseteq {"read", "crc", "zlib", "write"}

\* Nobody sends on a closed channel: a Go program that does panics.  Once
\* `jobs' is closed the producer dispatches nothing more, and once `results'
\* is closed no worker holds a chunk it would have to send.
NoSendOnClosed ==
    /\ jobsClosed => pc \in {"wait", "returned"}
    /\ resultsClosed => \A w \in Workers : w \in exited /\ work[w] = NoJob

\* When encodeChunks returns, every goroutine it started is gone.
NoGoroutineLeft ==
    pc = "returned" => exited = Workers /\ resultsClosed /\ dpc = "exited"

\* A call that returns cleanly has written every chunk and summed every chunk
\* that is not all zero; a step that failed anywhere is never lost.
SuccessIsComplete ==
    outcome = "ok" =>
        /\ faulted = {}
        /\ Len(runs) = NumChunks
        /\ \A i \in Chunks :
              content[i] # 0 => \E k \in DOMAIN summed : summed[k] = i

\* The error the call returns is one that happened.
ErrorIsReal == outcome \in {"none", "ok"} \cup faulted

\* The runs written so far tile a prefix of the region, in order, and their
\* payloads tile what the region added to the data fork.
RunsTile ==
    \A k \in 1 .. Len(runs) :
        /\ runs[k].SectorStart =
              IF k = 1 THEN 0
              ELSE runs[k - 1].SectorStart + runs[k - 1].SectorCount
        /\ runs[k].CompOffset =
              IF k = 1 THEN BaseOffset
              ELSE runs[k - 1].CompOffset + runs[k - 1].CompLength
        /\ k = Len(runs) => dataForkLen = runs[k].CompOffset + runs[k].CompLength

\* A reader that follows a run finds the bytes of the chunk the run stands
\* for, in the encoding the run names, and no bytes for a chunk of zeros.
ReadBack ==
    \A k \in 1 .. Len(runs) :
        LET r == runs[k]
            at == r.CompOffset - BaseOffset
        IN  /\ r.SectorStart = (k - 1) * ChunkSectors
            /\ at >= 0
            /\ \A n \in 1 .. r.CompLength :
                  at + n \in DOMAIN dst /\ dst[at + n] = k - 1
            /\ (r.Type = "BlockZero") <=> (content[k - 1] = 0)
            /\ r.Type = "BlockZero" => r.CompLength = 0
            /\ r.Type = "BlockZLIB" =>
                  /\ r.CompLength = content[k - 1]
                  /\ r.CompLength < r.SectorCount * SectorSize
            /\ r.Type = "BlockRaw" =>
                  r.CompLength = r.SectorCount * SectorSize

\* The chunks that are in a channel.
IdxsOf(s) == {s[k].idx : k \in DOMAIN s}

\* The memory the pool may hold: the chunks read and not yet written fit in the
\* channels, the workers' hands, and one each for the producer and the drain.
\* The code's comment says "Channel capacities are sized to the worker count so
\* the producer can keep workers busy without unbounded memory growth".
BoundedMemory ==
    idx - nextIdx <= JobsCap + Cardinality(Workers) + ResultsCap + 2

----------------------------------------------------------------------------
(* The inductive invariant of EncodeChunks_proofs, in parts.               *)

\* Where the producer's loop stands.
LoopInv ==
    /\ idx \in 0 .. NumChunks
    /\ remaining = IF idx < NumChunks THEN RegionSectors - idx * ChunkSectors
                                     ELSE 0
    /\ nextSector = RegionSectors - remaining
    /\ pc = "dispatch" => remaining > 0

\* Which goroutines and channels are still alive.
LifeInv ==
    /\ jobsClosed <=> pc \in {"wait", "returned"}
    /\ \A w \in exited : work[w] = NoJob
    /\ resultsClosed => exited = Workers
    /\ dpc = "exited" => resultsClosed /\ results = <<>>
    /\ drainCh # "empty" => dpc = "exited"
    /\ pc = "returned" => dpc = "exited"
    /\ outcome # "none" <=> pc = "returned"

\* Where the evidence of a failure is kept until the call returns.
FaultInv ==
    /\ faulted \subseteq Faults
    /\ pc \in {"read", "dispatch"} => producerErr = "none"
    /\ producerErr # "none" => producerErr \in faulted
    /\ \A e \in {"read", "crc"} : e \in faulted => producerErr = e
    /\ errCh > 0 => "zlib" \in faulted
    /\ "zlib" \in faulted /\ pc # "returned" => errCh > 0 \/ producerErr # "none"
    /\ writeErr <=> "write" \in faulted
    /\ done <=> writeErr
    /\ dpc = "flush" => ~writeErr
    /\ drainCh = "ok" => ~writeErr
    /\ drainCh = "write" => writeErr
    /\ pc \in {"close", "wait", "returned"} /\ producerErr = "none" /\ ~done
          => remaining = 0
    /\ outcome = "ok" => faulted = {} /\ producerErr = "none"
    /\ ErrorIsReal

\* Where a dispatched chunk is.
InJobs(i) == i \in IdxsOf(jobs)
InWork(i) == \E w \in Workers : work[w].idx = i
InResults(i) == i \in IdxsOf(results)
InPending(i) == \E r \in pending : r.idx = i
FlowInv ==
    /\ nextIdx <= idx
    /\ \A i \in Chunks :
          InJobs(i) \/ InWork(i) \/ InResults(i) \/ InPending(i) => i < idx
    /\ faulted \cap {"zlib", "write"} = {} =>
          \A i \in Chunks :
             nextIdx <= i /\ i < idx =>
                InJobs(i) \/ InWork(i) \/ InResults(i) \/ InPending(i)
    /\ exited # {} /\ "zlib" \notin faulted => jobsClosed /\ jobs = <<>>
    /\ dpc # "flush" /\ ~writeErr => ~InPending(nextIdx)
    /\ ~writeErr => Len(runs) = nextIdx

\* Which chunks the CRC has seen.
Seen(i) == i < idx \/ (i = idx /\ pc = "dispatch")
SumInv ==
    /\ \A i \in Chunks :
          content[i] # 0 /\ Seen(i) => \E k \in DOMAIN summed : summed[k] = i
    /\ \A k \in DOMAIN summed :
          \E i \in Chunks : summed[k] = i /\ content[i] # 0
                           /\ (i < idx \/ (i = idx /\ pc # "read"))

\* Jobs, results and runs say the right thing about their chunk.
GoodJob(j) ==
    /\ j.sectorStart = j.idx * ChunkSectors
    /\ j.secCount = ChunkLength(j.idx)
    /\ j.zero <=> (content[j.idx] = 0)
GoodResult(r) ==
    LET n == ChunkLength(r.idx)
        zero == content[r.idx] = 0
    IN  /\ r.sectorStart = r.idx * ChunkSectors
        /\ r.secCount = n
        /\ r.runType = RunType(zero, n, content[r.idx])
        /\ r.len = PayloadLen(zero, n, content[r.idx])
RunsInv ==
    /\ Len(dst) = dataForkLen - BaseOffset
    /\ runs = <<>> => dataForkLen = BaseOffset
    /\ Len(runs) <= NumChunks
    /\ \A k \in 1 .. Len(runs) :
          /\ runs[k].SectorStart = (k - 1) * ChunkSectors
          /\ runs[k].SectorCount = ChunkLength(k - 1)
          /\ BaseOffset <= runs[k].CompOffset
          /\ runs[k].CompOffset + runs[k].CompLength <= dataForkLen
ShapeInv ==
    /\ \A k \in DOMAIN jobs : GoodJob(jobs[k])
    /\ \A w \in Workers : work[w] # NoJob => GoodJob(work[w])
    /\ \A k \in DOMAIN results : GoodResult(results[k])
    /\ \A r \in pending : GoodResult(r)

IInv == /\ LoopInv /\ LifeInv /\ FaultInv /\ FlowInv /\ SumInv
        /\ ShapeInv /\ RunsInv

\* The invariant with the types and the two properties of the table that each step needs
\* of the one before it.
Ind == TypeOK /\ IInv /\ RunsTile /\ ReadBack

----------------------------------------------------------------------------
\* After the call has returned, nothing it started touches the source, the
\* CRC, the writer or the table any more: Write hands the same reader, writer
\* and CRC to the next region.
QuietAfterReturn ==
    [][pc # "returned"]_<<idx, summed, dst, runs, dataForkLen, jobs, results>>

\* The call returns, whatever fails and however the goroutines interleave.
Returns == <>(pc = "returned")

\* However the workers overtake each other, the calls of the CRC and of the writer, the
\* table and the result are those of a loop over the chunks.  That the call returns at
\* all is Returns.
Sequential == INSTANCE SequentialEncode
ImplementsSequential == Sequential!Spec
=============================================================================
