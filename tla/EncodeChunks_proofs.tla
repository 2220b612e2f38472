------------------------ MODULE EncodeChunks_proofs ------------------------
(* Theorems about EncodeChunks, for every number of workers, every region, *)
(* every content and every set of failing steps.                           *)
EXTENDS EncodeChunks, FiniteSetTheorems, SequenceTheorems, TLAPS

----------------------------------------------------------------------------
(* Lemmas.                                                                 *)

\* More chunks take at least as many sectors.
LEMMA TimesMonotone ==
    ASSUME NEW a \in Nat, NEW b \in Nat, NEW c \in Nat, a <= b
    PROVE  a * c <= b * c
<1>1. PICK d \in Nat : b = a + d
  <2>1. b - a \in Nat /\ b = a + (b - a)
    OBVIOUS
  <2> QED BY <2>1
<1>2. b * c = a * c + d * c
  BY <1>1
<1>3. d * c \in Nat
  OBVIOUS
<1> QED BY <1>2, <1>3

\* One chunk more.
LEMMA TimesStep ==
    ASSUME NEW a \in Nat, NEW c \in Nat
    PROVE  (a + 1) * c = a * c + c /\ a * c \in Nat
OBVIOUS

\* All but the last chunk are whole, and no chunk is empty.
LEMMA ChunkSizes ==
    ASSUME NEW i \in Chunks
    PROVE  /\ ChunkLength(i) \in Nat \ {0}
           /\ i + 1 < NumChunks =>
                 /\ ChunkLength(i) = ChunkSectors
                 /\ RegionSectors - (i + 1) * ChunkSectors > 0
           /\ i + 1 = NumChunks =>
                 ChunkLength(i) = RegionSectors - i * ChunkSectors
<1> USE ChunkFormatAssumption DEF Chunks
<1>1. i * ChunkSectors <= (NumChunks - 1) * ChunkSectors
  BY TimesMonotone
<1>2. (i + 1) * ChunkSectors = i * ChunkSectors + ChunkSectors
      /\ i * ChunkSectors \in Nat
  BY TimesStep
<1>3. ChunkLength(i) \in Nat \ {0}
  BY <1>1, <1>2 DEF ChunkLength
<1>4. ASSUME i + 1 < NumChunks
      PROVE  ChunkLength(i) = ChunkSectors
             /\ RegionSectors - (i + 1) * ChunkSectors > 0
  <2>1. (i + 1) * ChunkSectors <= (NumChunks - 1) * ChunkSectors
    BY <1>4, TimesMonotone
  <2> QED BY <2>1, <1>2 DEF ChunkLength
<1>5. ASSUME i + 1 = NumChunks
      PROVE  ChunkLength(i) = RegionSectors - i * ChunkSectors
  BY <1>5, <1>2 DEF ChunkLength
<1> QED BY <1>3, <1>4, <1>5

\* What a worker makes of a job has the type of a result.
LEMMA EncodeType ==
    ASSUME content \in Contents, NEW j \in Job
    PROVE  Encode(j) \in Result
<1>1. content[j.idx] \in Nat
  BY ChunkFormatAssumption DEF Contents, Job
<1>2. RunType(j.zero, j.secCount, content[j.idx]) \in RunTypes
  BY DEF RunType, RunTypes
<1>3. j.secCount * SectorSize \in Nat
  BY ChunkFormatAssumption DEF Job
<1>4. PayloadLen(j.zero, j.secCount, content[j.idx]) \in Nat
  BY <1>1, <1>3 DEF PayloadLen
<1> QED BY <1>1, <1>2, <1>4 DEF Encode, Result, Job

\* The payload stored for a chunk has a length, and its cells are those of the fork.
LEMMA PayloadType ==
    ASSUME NEW i \in Nat, NEW n \in Nat
    PROVE  /\ Payload(i, n) \in Seq(Nat)
           /\ Len(Payload(i, n)) = n
           /\ \A k \in 1 .. n : Payload(i, n)[k] = i
<1>1. Payload(i, n) \in Seq(Nat)
  BY DEF Payload
<1>2. DOMAIN Payload(i, n) = 1 .. n
  BY DEF Payload
<1>3. Len(Payload(i, n)) = n
  BY <1>1, <1>2, LenProperties
<1>4. \A k \in 1 .. n : Payload(i, n)[k] = i
  BY DEF Payload
<1> QED BY <1>1, <1>3, <1>4

----------------------------------------------------------------------------
(* Types, and the arithmetic of the producer's loop they depend on: a job  *)
(* names a chunk of the source because the loop stops at the region's end. *)

\* Every step of producer, workers and drain preserves the type invariant and the
\* producer's arithmetic.
LEMMA TypeStep ==
    ASSUME TypeOK, LoopInv, [Next]_vars
    PROVE  TypeOK' /\ LoopInv'
<1> USE ChunkFormatAssumption, EncodeAssumption DEF TypeOK
<1>1. CASE ReadFails
  BY <1>1 DEF ReadFails, LoopInv, workerVars, drainVars
<1>2. CASE SumFails
  BY <1>2 DEF SumFails, LoopInv, workerVars, drainVars
<1>3. CASE ReadChunk
  BY <1>3 DEF SumThis, ReadChunk, LoopInv, workerVars, drainVars
<1>4. CASE Dispatch
  <2>1. remaining > 0 /\ idx \in Chunks
    BY <1>4 DEF Dispatch, LoopInv, Chunks
  <2>2. remaining = RegionSectors - idx * ChunkSectors /\ idx \in Nat
        /\ ThisChunk = ChunkLength(idx)
    BY <2>1 DEF LoopInv, Chunks, ThisChunk, ChunkLength
  <2>3. ThisChunk \in Nat /\ remaining - ThisChunk \in Nat
    BY <2>1 DEF ThisChunk
  <2>4. LoopInv'
    <3>1. (idx + 1) * ChunkSectors = idx * ChunkSectors + ChunkSectors
          /\ idx * ChunkSectors \in Nat
      BY TimesStep, <2>2
    <3>2. idx' \in 0 .. NumChunks
      BY <1>4, <2>1 DEF Dispatch, Chunks
    <3>3. CASE idx + 1 < NumChunks
      <4>1. ThisChunk = ChunkSectors
        BY <2>1, <2>2, <3>3, ChunkSizes
      <4>2. remaining' = RegionSectors - idx' * ChunkSectors
        BY <1>4, <2>2, <3>1, <4>1 DEF Dispatch
      <4> QED BY <1>4, <3>2, <3>3, <4>1, <4>2 DEF Dispatch, LoopInv
    <3>4. CASE idx + 1 = NumChunks
      <4>1. ThisChunk = remaining
        BY <2>1, <2>2, <3>4, ChunkSizes
      <4> QED BY <1>4, <3>2, <3>4, <4>1 DEF Dispatch, LoopInv
    <3> QED BY <2>1, <3>3, <3>4 DEF Chunks
  <2>5. jobs' \in Seq(Job)
    BY <1>4, <2>1, <2>3 DEF Dispatch, Job
  <2>6. TypeOK'
    BY <1>4, <2>3, <2>5 DEF Dispatch, workerVars, drainVars
  <2> QED BY <2>4, <2>6
<1>5. CASE TakeWorkerError
  BY <1>5 DEF TakeWorkerError, LoopInv, workerVars, drainVars
<1>6. CASE SeeDone
  BY <1>6 DEF SeeDone, LoopInv, workerVars, drainVars
<1>7. CASE CloseJobs
  BY <1>7 DEF CloseJobs, LoopInv, workerVars, drainVars
<1>8. CASE Return
  BY <1>8 DEF Reported, Return, LoopInv, workerVars
<1>9. ASSUME NEW w \in Workers, WorkerTake(w)
      PROVE  TypeOK' /\ LoopInv'
  <2>1. Head(jobs) \in Job /\ Tail(jobs) \in Seq(Job)
    BY <1>9 DEF WorkerTake
  <2> QED BY <1>9, <2>1 DEF WorkerTake, LoopInv, producerVars, drainVars
<1>10. ASSUME NEW w \in Workers, WorkerSend(w)
       PROVE  TypeOK' /\ LoopInv'
  <2>1. Encode(work[w]) \in Result
    BY <1>10, EncodeType DEF WorkerSend
  <2>2. results' \in Seq(Result)
    BY <1>10, <2>1 DEF WorkerSend
  <2>3. work' \in [Workers -> Job \cup {NoJob}]
    BY <1>10 DEF WorkerSend
  <2>4. TypeOK'
    BY <1>10, <2>2, <2>3 DEF WorkerSend, producerVars, drainVars
  <2> QED BY <1>10, <2>4 DEF WorkerSend, LoopInv, producerVars
<1>11. ASSUME NEW w \in Workers, WorkerFail(w)
       PROVE  TypeOK' /\ LoopInv'
  BY <1>11 DEF TrySendErr, WorkerFail, LoopInv, producerVars, drainVars
<1>12. ASSUME NEW w \in Workers, WorkerExit(w)
       PROVE  TypeOK' /\ LoopInv'
  BY <1>12 DEF WorkerExit, LoopInv, producerVars, drainVars
<1>13. CASE CloseResults
  BY <1>13 DEF AllDone, CloseResults, LoopInv, producerVars, workerVars, drainVars
<1>14. CASE DrainReceive
  <2>1. Head(results) \in Result /\ Tail(results) \in Seq(Result)
    BY <1>14 DEF Received, Keep, DrainReceive
  <2> QED BY <1>14, <2>1 DEF Received, Keep, DrainReceive, LoopInv, producerVars, workerVars
<1>15. ASSUME NEW cur \in pending, DrainWrite(cur)
       PROVE  TypeOK' /\ LoopInv'
  <2>1. cur \in Result /\ cur.idx \in Nat /\ cur.len \in Nat
    BY DEF Result, Chunks
  <2>2. Payload(cur.idx, cur.len) \in Seq(Nat)
    BY <2>1, PayloadType
  <2>3. runs' \in Seq(Run) /\ dst' \in Seq(Nat)
    BY <1>15, <2>1, <2>2 DEF InLine, DrainWrite, Run, Result
  <2>4. /\ dataForkLen' \in Nat /\ nextIdx' \in Nat /\ pending' \subseteq Result
    BY <1>15, <2>1 DEF InLine, DrainWrite
  <2>5. TypeOK'
    BY <1>15, <2>3, <2>4 DEF InLine, DrainWrite, producerVars, workerVars
  <2> QED BY <1>15, <2>5 DEF InLine, DrainWrite, LoopInv, producerVars
<1>16. ASSUME NEW cur \in pending, DrainWriteFails(cur)
       PROVE  TypeOK' /\ LoopInv'
  BY <1>16 DEF InLine, DrainWriteFails, LoopInv, producerVars, workerVars
<1>17. CASE DrainPause
  BY <1>17 DEF InLine, DrainPause, LoopInv, producerVars, workerVars
<1>18. CASE DrainExit
  BY <1>18 DEF DrainOver, DrainExit, LoopInv, producerVars, workerVars
<1>19. CASE UNCHANGED vars
  BY <1>19 DEF LoopInv, vars, producerVars, workerVars, drainVars
<1> QED
  BY <1>1, <1>2, <1>3, <1>4, <1>5, <1>6, <1>7, <1>8, <1>9, <1>10, <1>11,
     <1>12, <1>13, <1>14, <1>15, <1>16, <1>17, <1>18, <1>19
     DEF Next, Producer, Worker, Drain, Finished

\* encodeChunks starts in a state of the type.
LEMMA TypeInit == Init => TypeOK /\ LoopInv
<1> USE ChunkFormatAssumption, EncodeAssumption
<1>1. NumChunks > 0
  OBVIOUS
<1>2. SUFFICES ASSUME Init PROVE TypeOK /\ LoopInv
  OBVIOUS
<1>3. content \in Contents /\ work \in [Workers -> Job \cup {NoJob}]
  BY <1>2 DEF Init
<1>4. TypeOK
  <2>1. /\ jobs \in Seq(Job) /\ results \in Seq(Result)
        /\ runs \in Seq(Run) /\ dst \in Seq(Nat) /\ summed \in Seq(Nat)
    BY <1>2 DEF Init
  <2>2. RegionSectors \in Nat /\ BaseOffset \in Nat
    OBVIOUS
  <2> QED BY <1>2, <1>3, <2>1, <2>2, Zenon DEF Init, TypeOK
<1>5. 0 * ChunkSectors = 0
  OBVIOUS
<1>6. LoopInv
  BY <1>1, <1>2, <1>5 DEF Init, LoopInv
<1> QED BY <1>4, <1>6

\* Every variable of the pool keeps its type: in particular every job and every
\* result names a chunk of the source, whatever the workers do.
THEOREM TypeCorrect == Spec => []TypeOK
<1>1. Spec => [](TypeOK /\ LoopInv)
  BY TypeInit, TypeStep, PTL DEF Spec
<1> QED BY <1>1, PTL

----------------------------------------------------------------------------
(* The life of the goroutines and channels.                                *)

\* Every step preserves how the goroutines and channels depend on each other: who may
\* still send, who has counted itself out, and which channels are closed.
LEMMA LifeStep ==
    ASSUME TypeOK, LifeInv, [Next]_vars
    PROVE  LifeInv'
<1> USE EncodeAssumption DEF TypeOK
<1>1. CASE ReadFails
  BY <1>1 DEF ReadFails, LifeInv, workerVars, drainVars
<1>2. CASE SumFails
  BY <1>2 DEF SumFails, LifeInv, workerVars, drainVars
<1>3. CASE ReadChunk
  BY <1>3 DEF SumThis, ReadChunk, LifeInv, workerVars, drainVars
<1>4. CASE Dispatch
  BY <1>4 DEF Dispatch, LifeInv, workerVars, drainVars
<1>5. CASE TakeWorkerError
  BY <1>5 DEF TakeWorkerError, LifeInv, workerVars, drainVars
<1>6. CASE SeeDone
  BY <1>6 DEF SeeDone, LifeInv, workerVars, drainVars
<1>7. CASE CloseJobs
  BY <1>7 DEF CloseJobs, LifeInv, workerVars, drainVars
<1>8. CASE Return
  BY <1>8 DEF Reported, Return, LifeInv, workerVars, drainVars
<1>9. ASSUME NEW w \in Workers, WorkerTake(w)
      PROVE  LifeInv'
  BY <1>9 DEF WorkerTake, LifeInv, producerVars, workerVars, drainVars
<1>10. ASSUME NEW w \in Workers, WorkerSend(w)
      PROVE  LifeInv'
  BY <1>10 DEF WorkerSend, LifeInv, producerVars, workerVars, drainVars
<1>11. ASSUME NEW w \in Workers, WorkerFail(w)
      PROVE  LifeInv'
  BY <1>11 DEF TrySendErr, WorkerFail, LifeInv, producerVars, workerVars, drainVars
<1>12. ASSUME NEW w \in Workers, WorkerExit(w)
      PROVE  LifeInv'
  BY <1>12 DEF WorkerExit, LifeInv, producerVars, workerVars, drainVars
<1>13. CASE CloseResults
  BY <1>13 DEF AllDone, CloseResults, LifeInv, producerVars, workerVars, drainVars
<1>14. CASE DrainReceive
  BY <1>14 DEF Received, Keep, DrainReceive, LifeInv, producerVars, workerVars, drainVars
<1>15. ASSUME NEW cur \in pending, DrainWrite(cur)
      PROVE  LifeInv'
  BY <1>15 DEF InLine, DrainWrite, LifeInv, producerVars, workerVars, drainVars
<1>16. ASSUME NEW cur \in pending, DrainWriteFails(cur)
      PROVE  LifeInv'
  BY <1>16 DEF InLine, DrainWriteFails, LifeInv, producerVars, workerVars, drainVars
<1>17. CASE DrainPause
  BY <1>17 DEF InLine, DrainPause, LifeInv, producerVars, workerVars, drainVars
<1>18. CASE DrainExit
  BY <1>18 DEF DrainOver, DrainExit, LifeInv, producerVars, workerVars, drainVars
<1>19. CASE UNCHANGED vars
  BY <1>19 DEF LifeInv, vars, producerVars, workerVars, drainVars
<1> QED
  BY <1>1, <1>2, <1>3, <1>4, <1>5, <1>6, <1>7, <1>8, <1>9, <1>10, <1>11,
     <1>12, <1>13, <1>14, <1>15, <1>16, <1>17, <1>18, <1>19
     DEF Next, Producer, Worker, Drain, Finished

----------------------------------------------------------------------------
(* The evidence of a failure survives until the call returns.              *)

\* Every step preserves the link between a failure and its trace: an error is in errCh,
\* or done is closed, until the producer has taken it up.
LEMMA FaultStep ==
    ASSUME TypeOK, LifeInv, FaultInv, [Next]_vars
    PROVE  FaultInv'
<1> USE EncodeAssumption DEF TypeOK, LifeInv
<1>1. CASE ReadFails
  BY <1>1 DEF ReadFails, FaultInv, ErrorIsReal, workerVars, drainVars
<1>2. CASE SumFails
  BY <1>2 DEF SumFails, FaultInv, ErrorIsReal, workerVars, drainVars
<1>3. CASE ReadChunk
  BY <1>3 DEF SumThis, ReadChunk, FaultInv, ErrorIsReal, workerVars, drainVars
<1>4. CASE Dispatch
  BY <1>4 DEF Dispatch, FaultInv, ErrorIsReal, workerVars, drainVars
<1>5. CASE TakeWorkerError
  BY <1>5 DEF TakeWorkerError, FaultInv, ErrorIsReal, workerVars, drainVars
<1>6. CASE SeeDone
  BY <1>6 DEF SeeDone, FaultInv, ErrorIsReal, workerVars, drainVars
<1>7. CASE CloseJobs
  BY <1>7 DEF CloseJobs, FaultInv, ErrorIsReal, workerVars, drainVars
<1>8. CASE Return
  <2>1. /\ pc = "wait" /\ pc' = "returned" /\ outcome' = Reported
        /\ errCh' = 0 /\ drainCh' = "empty" /\ drainCh # "empty"
        /\ UNCHANGED <<remaining, producerErr, done, dpc, writeErr, faulted>>
    BY <1>8 DEF Return
  <2>2. Reported \in {"ok"} \cup faulted
        /\ (Reported = "ok" => faulted = {} /\ producerErr = "none")
    BY <2>1 DEF Reported, FaultInv
  <2> QED BY <2>1, <2>2 DEF FaultInv, ErrorIsReal
<1>9. ASSUME NEW w \in Workers, WorkerTake(w)
      PROVE  FaultInv'
  BY <1>9 DEF WorkerTake, FaultInv, ErrorIsReal, producerVars, workerVars, drainVars
<1>10. ASSUME NEW w \in Workers, WorkerSend(w)
      PROVE  FaultInv'
  BY <1>10 DEF WorkerSend, FaultInv, ErrorIsReal, producerVars, workerVars, drainVars
<1>11. ASSUME NEW w \in Workers, WorkerFail(w)
      PROVE  FaultInv'
  <2>1. ErrCap \in Nat /\ ErrCap > 0
    BY FS_CardinalityType DEF ErrCap
  <2>2. errCh' \in Nat /\ errCh' > 0
    BY <1>11, <2>1 DEF TrySendErr, WorkerFail
  <2>3. pc # "returned" /\ outcome = "none"
    BY <1>11 DEF TrySendErr, WorkerFail
  <2> QED
    BY <1>11, <2>2, <2>3
       DEF TrySendErr, WorkerFail, FaultInv, ErrorIsReal, producerVars, drainVars
<1>12. ASSUME NEW w \in Workers, WorkerExit(w)
      PROVE  FaultInv'
  BY <1>12 DEF WorkerExit, FaultInv, ErrorIsReal, producerVars, workerVars, drainVars
<1>13. CASE CloseResults
  BY <1>13 DEF AllDone, CloseResults, FaultInv, ErrorIsReal, producerVars, workerVars, drainVars
<1>14. CASE DrainReceive
  BY <1>14 DEF Received, Keep, DrainReceive, FaultInv, ErrorIsReal, producerVars, workerVars, drainVars
<1>15. ASSUME NEW cur \in pending, DrainWrite(cur)
      PROVE  FaultInv'
  BY <1>15 DEF InLine, DrainWrite, FaultInv, ErrorIsReal, producerVars, workerVars, drainVars
<1>16. ASSUME NEW cur \in pending, DrainWriteFails(cur)
      PROVE  FaultInv'
  BY <1>16 DEF InLine, DrainWriteFails, FaultInv, ErrorIsReal, producerVars, workerVars, drainVars
<1>17. CASE DrainPause
  BY <1>17 DEF InLine, DrainPause, FaultInv, ErrorIsReal, producerVars, workerVars, drainVars
<1>18. CASE DrainExit
  BY <1>18 DEF DrainOver, DrainExit, FaultInv, ErrorIsReal, producerVars, workerVars, drainVars
<1>19. CASE UNCHANGED vars
  BY <1>19 DEF FaultInv, ErrorIsReal, vars, producerVars, workerVars, drainVars
<1> QED
  BY <1>1, <1>2, <1>3, <1>4, <1>5, <1>6, <1>7, <1>8, <1>9, <1>10, <1>11,
     <1>12, <1>13, <1>14, <1>15, <1>16, <1>17, <1>18, <1>19
     DEF Next, Producer, Worker, Drain, Finished

----------------------------------------------------------------------------
(* What the two ends of a channel do to the indices it holds.              *)

\* A send adds one chunk index to those a channel holds.
LEMMA AppendIdx ==
    ASSUME NEW S, NEW s \in Seq(S), NEW e \in S, NEW i
    PROVE  i \in IdxsOf(Append(s, e)) <=> i \in IdxsOf(s) \/ e.idx = i
<1>1. /\ DOMAIN Append(s, e) = 1 .. Len(s) + 1
      /\ DOMAIN s = 1 .. Len(s)
      /\ Len(s) \in Nat
      /\ \A k \in 1 .. Len(s) : Append(s, e)[k] = s[k]
      /\ Append(s, e)[Len(s) + 1] = e
  OBVIOUS
<1>2. ASSUME NEW k \in DOMAIN Append(s, e), Append(s, e)[k].idx = i
      PROVE  (\E m \in DOMAIN s : s[m].idx = i) \/ e.idx = i
  <2>1. k \in 1 .. Len(s) \/ k = Len(s) + 1
    BY <1>1
  <2> QED BY <1>1, <1>2, <2>1
<1>3. ASSUME NEW k \in DOMAIN s, s[k].idx = i
      PROVE  \E m \in DOMAIN Append(s, e) : Append(s, e)[m].idx = i
  <2>1. k \in DOMAIN Append(s, e)
    BY <1>1
  <2> QED BY <1>1, <1>3, <2>1
<1>4. ASSUME e.idx = i
      PROVE  \E m \in DOMAIN Append(s, e) : Append(s, e)[m].idx = i
  <2>1. Len(s) + 1 \in DOMAIN Append(s, e)
    BY <1>1
  <2> QED BY <1>1, <1>4, <2>1
<1> QED BY <1>2, <1>3, <1>4 DEF IdxsOf

\* A receive takes the first chunk index from those a channel holds, when no chunk is in
\* the channel twice.
LEMMA TailIdx ==
    ASSUME NEW S, NEW s \in Seq(S), s # <<>>, NEW i
    PROVE  i \in IdxsOf(s) <=> Head(s).idx = i \/ i \in IdxsOf(Tail(s))
<1>1. /\ DOMAIN s = 1 .. Len(s) /\ DOMAIN Tail(s) = 1 .. Len(s) - 1
      /\ Len(s) \in Nat \ {0}
      /\ Head(s) = s[1]
      /\ \A k \in 1 .. Len(s) - 1 : Tail(s)[k] = s[k + 1]
  OBVIOUS
<1>2. ASSUME NEW k \in DOMAIN s, s[k].idx = i
      PROVE  Head(s).idx = i \/ (\E m \in DOMAIN Tail(s) : Tail(s)[m].idx = i)
  <2>1. CASE k = 1
    BY <1>1, <1>2, <2>1
  <2>2. CASE k # 1
    <3>1. k - 1 \in 1 .. Len(s) - 1 /\ (k - 1) + 1 = k
      BY <1>1, <2>2
    <3>2. Tail(s)[k - 1] = s[k]
      BY <1>1, <3>1
    <3> QED BY <1>1, <1>2, <3>1, <3>2
  <2> QED BY <2>1, <2>2
<1>3. ASSUME Head(s).idx = i
      PROVE  \E k \in DOMAIN s : s[k].idx = i
  <2>1. 1 \in DOMAIN s
    BY <1>1
  <2> QED BY <1>1, <1>3, <2>1
<1>4. ASSUME NEW m \in DOMAIN Tail(s), Tail(s)[m].idx = i
      PROVE  \E k \in DOMAIN s : s[k].idx = i
  <2>1. m + 1 \in DOMAIN s /\ Tail(s)[m] = s[m + 1]
    BY <1>1
  <2> QED BY <1>4, <2>1
<1> QED BY <1>2, <1>3, <1>4 DEF IdxsOf

\* The elements of a channel after a send are the old ones and the one sent.
LEMMA AppendElems ==
    ASSUME NEW S, NEW s \in Seq(S), NEW e \in S
    PROVE  \A k \in DOMAIN Append(s, e) :
              Append(s, e)[k] = e \/ \E m \in DOMAIN s : Append(s, e)[k] = s[m]
<1> SUFFICES ASSUME NEW k \in DOMAIN Append(s, e), Append(s, e)[k] # e
             PROVE  \E m \in DOMAIN s : Append(s, e)[k] = s[m]
  OBVIOUS
<1>1. k \in DOMAIN s /\ Append(s, e)[k] = s[k]
  OBVIOUS
<1> QED BY <1>1

\* The elements of a channel after a receive were in it before, as was the one received.
LEMMA HeadTailElems ==
    ASSUME NEW S, NEW s \in Seq(S), s # <<>>
    PROVE  /\ \E m \in DOMAIN s : Head(s) = s[m]
           /\ \A k \in DOMAIN Tail(s) : \E m \in DOMAIN s : Tail(s)[k] = s[m]
<1>1. 1 \in DOMAIN s /\ Head(s) = s[1]
  OBVIOUS
<1>2. ASSUME NEW k \in DOMAIN Tail(s)
      PROVE  \E m \in DOMAIN s : Tail(s)[k] = s[m]
  <2>1. k + 1 \in DOMAIN s /\ Tail(s)[k] = s[k + 1]
    BY <1>1
  <2> QED BY <2>1
<1> QED BY <1>1, <1>2

----------------------------------------------------------------------------
(* No dispatched chunk is lost, and the drain writes only dispatched ones. *)

\* Every step preserves the place of each dispatched chunk: in one channel, worker or
\* reorder buffer, or written.
LEMMA FlowStep ==
    ASSUME TypeOK, LoopInv, LifeInv, FaultInv, FlowInv, [Next]_vars
    PROVE  FlowInv'
<1> USE EncodeAssumption DEF TypeOK
<1>1. CASE ReadFails
  BY <1>1 DEF ReadFails, FlowInv, InJobs, InWork, InResults, InPending, workerVars, drainVars
<1>2. CASE SumFails
  BY <1>2 DEF SumFails, FlowInv, InJobs, InWork, InResults, InPending, workerVars, drainVars
<1>3. CASE ReadChunk
  BY <1>3 DEF SumThis, ReadChunk, FlowInv, InJobs, InWork, InResults, InPending, workerVars, drainVars
<1>4. CASE Dispatch
  <2>1. idx \in Chunks /\ idx' = idx + 1
    BY <1>4, ChunkFormatAssumption DEF Dispatch, LoopInv, Chunks
  <2>2. \A i \in Chunks : InJobs(i)' <=> InJobs(i) \/ i = idx
    <3> DEFINE job == [idx |-> idx, sectorStart |-> nextSector,
                       secCount |-> ThisChunk, zero |-> content[idx] = 0]
    <3>1. jobs' = Append(jobs, job) /\ job.idx = idx
      BY <1>4 DEF Dispatch
    <3>2. jobs \in Seq(Job \cup {job}) /\ job \in Job \cup {job}
      OBVIOUS
    <3> HIDE DEF job
    <3>3. \A i : i \in IdxsOf(Append(jobs, job))
                  <=> i \in IdxsOf(jobs) \/ job.idx = i
      BY ONLY <3>2, AppendIdx
    <3> QED BY <3>1, <3>3, Zenon DEF InJobs
  <2>3. \A i \in Chunks : /\ InWork(i)' <=> InWork(i)
                          /\ InResults(i)' <=> InResults(i)
                          /\ InPending(i)' <=> InPending(i)
    BY <1>4 DEF Dispatch, workerVars, drainVars, InWork, InResults, InPending
  <2>4. exited' = {} \/ "zlib" \in faulted'
    BY <1>4 DEF Dispatch, FlowInv, LifeInv, workerVars
  <2>5. InPending(nextIdx)' <=> InPending(nextIdx)
    BY <1>4 DEF Dispatch, drainVars, InPending
  <2> QED
    BY <1>4, <2>1, <2>2, <2>3, <2>4, <2>5
       DEF Dispatch, FlowInv, Chunks, workerVars, drainVars
<1>5. CASE TakeWorkerError
  BY <1>5 DEF TakeWorkerError, FlowInv, InJobs, InWork, InResults, InPending, workerVars, drainVars
<1>6. CASE SeeDone
  BY <1>6 DEF SeeDone, FlowInv, InJobs, InWork, InResults, InPending, workerVars, drainVars
<1>7. CASE CloseJobs
  BY <1>7 DEF CloseJobs, FlowInv, InJobs, InWork, InResults, InPending, workerVars, drainVars
<1>8. CASE Return
  BY <1>8 DEF Reported, Return, FlowInv, InJobs, InWork, InResults, InPending, workerVars, drainVars
<1>9. ASSUME NEW w \in Workers, WorkerTake(w)
      PROVE  FlowInv'
  <2>1. \A i \in Chunks : InJobs(i) <=> InJobs(i)' \/ Head(jobs).idx = i
    BY <1>9, TailIdx, Zenon DEF WorkerTake, InJobs
  <2>2. \A i \in Chunks : InWork(i)' <=> InWork(i) \/ Head(jobs).idx = i
    BY <1>9 DEF WorkerTake, InWork, NoJob, Chunks
  <2>3. \A i \in Chunks : /\ InResults(i)' <=> InResults(i)
                          /\ InPending(i)' <=> InPending(i)
    BY <1>9 DEF WorkerTake, drainVars, InResults, InPending
  <2>4. InPending(nextIdx)' <=> InPending(nextIdx)
    BY <1>9 DEF WorkerTake, drainVars, InPending
  <2> QED
    BY <1>9, <2>1, <2>2, <2>3, <2>4
       DEF WorkerTake, FlowInv, Chunks, producerVars, drainVars
<1>10. ASSUME NEW w \in Workers, WorkerSend(w)
      PROVE  FlowInv'
  <2>1. \A i \in Chunks : InResults(i)' <=> InResults(i) \/ work[w].idx = i
    <3>1. Encode(work[w]).idx = work[w].idx
      BY DEF Encode
    <3>2. /\ results \in Seq(Result \cup {Encode(work[w])})
          /\ Encode(work[w]) \in Result \cup {Encode(work[w])}
      OBVIOUS
    <3>3. \A i : i \in IdxsOf(Append(results, Encode(work[w])))
                  <=> i \in IdxsOf(results) \/ Encode(work[w]).idx = i
      BY ONLY <3>2, AppendIdx
    <3>4. results' = Append(results, Encode(work[w]))
      BY <1>10 DEF WorkerSend
    <3> QED BY <3>1, <3>3, <3>4, Zenon DEF InResults
  <2>2. \A i \in Chunks : InWork(i) <=> InWork(i)' \/ work[w].idx = i
    BY <1>10 DEF WorkerSend, InWork, NoJob, Chunks
  <2>3. \A i \in Chunks : /\ InJobs(i)' <=> InJobs(i)
                          /\ InPending(i)' <=> InPending(i)
    BY <1>10 DEF WorkerSend, drainVars, InJobs, InPending
  <2>4. InPending(nextIdx)' <=> InPending(nextIdx)
    BY <1>10 DEF WorkerSend, drainVars, InPending
  <2> QED
    BY <1>10, <2>1, <2>2, <2>3, <2>4
       DEF WorkerSend, FlowInv, Chunks, producerVars, drainVars
<1>11. ASSUME NEW w \in Workers, WorkerFail(w)
      PROVE  FlowInv'
  <2>1. "zlib" \in faulted'
    BY <1>11 DEF TrySendErr, WorkerFail
  <2>2. \A i \in Chunks : InWork(i)' => InWork(i)
    BY <1>11 DEF TrySendErr, WorkerFail, InWork, NoJob, Chunks
  <2>3. \A i \in Chunks : /\ InJobs(i)' <=> InJobs(i)
                          /\ InResults(i)' <=> InResults(i)
                          /\ InPending(i)' <=> InPending(i)
    BY <1>11 DEF TrySendErr, WorkerFail, drainVars, InJobs, InResults, InPending
  <2>4. InPending(nextIdx)' <=> InPending(nextIdx)
    BY <1>11 DEF TrySendErr, WorkerFail, drainVars, InPending
  <2> QED
    BY <1>11, <2>1, <2>2, <2>3, <2>4
       DEF TrySendErr, WorkerFail, FlowInv, Chunks, producerVars, drainVars
<1>12. ASSUME NEW w \in Workers, WorkerExit(w)
      PROVE  FlowInv'
  BY <1>12 DEF WorkerExit, FlowInv, InJobs, InWork, InResults, InPending, producerVars, workerVars, drainVars
<1>13. CASE CloseResults
  BY <1>13 DEF AllDone, CloseResults, FlowInv, InJobs, InWork, InResults, InPending, producerVars, workerVars, drainVars
<1>14. CASE DrainReceive
  <2>1. \A i \in Chunks : InResults(i) <=> InResults(i)' \/ Head(results).idx = i
    BY <1>14, TailIdx, Zenon DEF Received, Keep, DrainReceive, InResults
  <2>2. \A i \in Chunks : /\ InJobs(i)' <=> InJobs(i)
                          /\ InWork(i)' <=> InWork(i)
    BY <1>14 DEF Received, Keep, DrainReceive, workerVars, InJobs, InWork
  <2>3. CASE writeErr
    BY <1>14, <2>1, <2>2, <2>3
       DEF Received, Keep, DrainReceive, FlowInv, FaultInv, InPending, Chunks, producerVars,
           workerVars
  <2>4. CASE ~writeErr
    <3>1. \A i \in Chunks : InPending(i)' <=> InPending(i) \/ Head(results).idx = i
      BY <1>14, <2>4 DEF Received, Keep, DrainReceive, InPending
    <3>2. dpc' = "flush"
      BY <1>14, <2>4 DEF Received, Keep, DrainReceive
    <3> QED
      BY <1>14, <2>1, <2>2, <2>4, <3>1, <3>2
         DEF Received, Keep, DrainReceive, FlowInv, Chunks, producerVars, workerVars
  <2> QED BY <2>3, <2>4
<1>15. ASSUME NEW cur \in pending, DrainWrite(cur)
      PROVE  FlowInv'
  <2>1. ~writeErr /\ cur.idx \in Chunks /\ cur.idx = nextIdx /\ nextIdx < idx
    <3>1. ~writeErr /\ cur.idx = nextIdx
      BY <1>15 DEF InLine, DrainWrite, FaultInv
    <3>2. cur.idx \in Chunks
      BY DEF Result
    <3>3. InPending(cur.idx)
      BY DEF InPending
    <3> QED BY <3>1, <3>2, <3>3 DEF FlowInv
  <2>2. \A i \in Chunks : /\ InPending(i)' => InPending(i)
                          /\ InPending(i) /\ i # nextIdx => InPending(i)'
    BY <1>15 DEF InLine, DrainWrite, InPending
  <2>3. \A i \in Chunks : /\ InJobs(i)' <=> InJobs(i)
                          /\ InWork(i)' <=> InWork(i)
                          /\ InResults(i)' <=> InResults(i)
    BY <1>15 DEF InLine, DrainWrite, workerVars, InJobs, InWork, InResults
  <2>4. Len(runs') = Len(runs) + 1 /\ nextIdx' = nextIdx + 1 /\ dpc' = "flush"
        /\ writeErr' = writeErr
    BY <1>15 DEF InLine, DrainWrite
  <2> QED
    BY <1>15, <2>1, <2>2, <2>3, <2>4
       DEF InLine, DrainWrite, FlowInv, Chunks, producerVars, workerVars
<1>16. ASSUME NEW cur \in pending, DrainWriteFails(cur)
      PROVE  FlowInv'
  <2>1. cur.idx \in Chunks /\ cur.idx = nextIdx /\ nextIdx < idx
    <3>1. cur.idx \in Chunks /\ cur.idx = nextIdx
      BY <1>16 DEF InLine, DrainWriteFails, Result
    <3>2. InPending(cur.idx)
      BY DEF InPending
    <3> QED BY <3>1, <3>2 DEF FlowInv
  <2>2. \A i \in Chunks : InPending(i)' => InPending(i)
    BY <1>16 DEF InLine, DrainWriteFails, InPending
  <2>3. \A i \in Chunks : /\ InJobs(i)' <=> InJobs(i)
                          /\ InWork(i)' <=> InWork(i)
                          /\ InResults(i)' <=> InResults(i)
    BY <1>16 DEF InLine, DrainWriteFails, workerVars, InJobs, InWork, InResults
  <2>4. "write" \in faulted' /\ writeErr'
    BY <1>16 DEF InLine, DrainWriteFails
  <2> QED
    BY <1>16, <2>1, <2>2, <2>3, <2>4
       DEF InLine, DrainWriteFails, FlowInv, Chunks, producerVars, workerVars
<1>17. CASE DrainPause
  BY <1>17 DEF InLine, DrainPause, FlowInv, InJobs, InWork, InResults, InPending, producerVars, workerVars, drainVars
<1>18. CASE DrainExit
  BY <1>18 DEF DrainOver, DrainExit, FlowInv, InJobs, InWork, InResults, InPending, producerVars, workerVars, drainVars
<1>19. CASE UNCHANGED vars
  BY <1>19 DEF FlowInv, InJobs, InWork, InResults, InPending, vars, producerVars, workerVars, drainVars
<1> QED
  BY <1>1, <1>2, <1>3, <1>4, <1>5, <1>6, <1>7, <1>8, <1>9, <1>10, <1>11,
     <1>12, <1>13, <1>14, <1>15, <1>16, <1>17, <1>18, <1>19
     DEF Next, Producer, Worker, Drain, Finished

----------------------------------------------------------------------------
(* The CRC sees the chunks that are not all zero, in order.                *)

\* Every step preserves that the CRC has seen, in order, the chunks with data the
\* producer has read.
LEMMA SumStep ==
    ASSUME TypeOK, LoopInv, SumInv, [Next]_vars
    PROVE  SumInv'
<1> USE ChunkFormatAssumption, EncodeAssumption DEF TypeOK
<1>1. CASE ReadFails
  BY <1>1 DEF ReadFails, SumInv, Seen, workerVars, drainVars
<1>2. CASE SumFails
  BY <1>2 DEF SumFails, SumInv, Seen, workerVars, drainVars
<1>3. CASE ReadChunk
  <2>1. idx \in Chunks /\ idx' = idx /\ content' = content /\ pc' = "dispatch"
        /\ pc = "read"
    BY <1>3 DEF SumThis, ReadChunk, LoopInv, Chunks
  <2>2. CASE content[idx] = 0
    <3>1. summed' = summed
      BY <1>3, <2>2 DEF SumThis, ReadChunk
    <3> QED BY <2>1, <2>2, <3>1 DEF SumInv, Seen, Chunks
  <2>3. CASE content[idx] # 0
    <3>1. summed' = Append(summed, idx)
      BY <1>3, <2>3 DEF SumThis, ReadChunk
    <3>2. /\ DOMAIN summed' = 1 .. Len(summed) + 1 /\ DOMAIN summed = 1 .. Len(summed)
          /\ Len(summed) \in Nat
          /\ \A k \in 1 .. Len(summed) : summed'[k] = summed[k]
          /\ summed'[Len(summed) + 1] = idx
      BY <2>1, <3>1
    <3>3. ASSUME NEW i \in Chunks, content[i] # 0, Seen(i)'
          PROVE  \E k \in DOMAIN summed' : summed'[k] = i
      <4>1. CASE i = idx
        <5>1. Len(summed) + 1 \in DOMAIN summed'
          BY <3>2
        <5> QED BY <3>2, <4>1, <5>1
      <4>2. CASE i # idx
        <5>1. PICK k \in DOMAIN summed : summed[k] = i
          BY <2>1, <3>3, <4>2 DEF SumInv, Seen
        <5> QED BY <3>2, <5>1
      <4> QED BY <4>1, <4>2
    <3>4. ASSUME NEW k \in DOMAIN summed'
          PROVE  \E i \in Chunks : summed'[k] = i /\ content[i] # 0 /\ i <= idx
      <4>1. CASE k = Len(summed) + 1
        BY <2>1, <2>3, <3>2, <4>1 DEF Chunks
      <4>2. CASE k # Len(summed) + 1
        <5>1. k \in DOMAIN summed /\ summed'[k] = summed[k]
          BY <3>2, <3>4, <4>2
        <5> QED BY <5>1 DEF SumInv, Chunks
      <4> QED BY <4>1, <4>2
    <3> QED BY <2>1, <3>3, <3>4 DEF SumInv, Seen, Chunks
  <2> QED BY <2>2, <2>3
<1>4. CASE Dispatch
  <2>1. idx \in Nat /\ idx' = idx + 1 /\ content' = content /\ pc' = "read"
        /\ pc = "dispatch" /\ summed' = summed
    BY <1>4 DEF Dispatch
  <2> QED BY <2>1 DEF SumInv, Seen, Chunks
<1>5. CASE TakeWorkerError
  BY <1>5 DEF TakeWorkerError, SumInv, Seen, workerVars, drainVars
<1>6. CASE SeeDone
  BY <1>6 DEF SeeDone, SumInv, Seen, workerVars, drainVars
<1>7. CASE CloseJobs
  BY <1>7 DEF CloseJobs, SumInv, Seen, workerVars, drainVars
<1>8. CASE Return
  BY <1>8 DEF Reported, Return, SumInv, Seen, workerVars, drainVars
<1>9. ASSUME NEW w \in Workers, WorkerTake(w)
      PROVE  SumInv'
  BY <1>9 DEF WorkerTake, SumInv, Seen, producerVars, workerVars, drainVars
<1>10. ASSUME NEW w \in Workers, WorkerSend(w)
      PROVE  SumInv'
  BY <1>10 DEF WorkerSend, SumInv, Seen, producerVars, workerVars, drainVars
<1>11. ASSUME NEW w \in Workers, WorkerFail(w)
      PROVE  SumInv'
  BY <1>11 DEF TrySendErr, WorkerFail, SumInv, Seen, producerVars, workerVars, drainVars
<1>12. ASSUME NEW w \in Workers, WorkerExit(w)
      PROVE  SumInv'
  BY <1>12 DEF WorkerExit, SumInv, Seen, producerVars, workerVars, drainVars
<1>13. CASE CloseResults
  BY <1>13 DEF AllDone, CloseResults, SumInv, Seen, producerVars, workerVars, drainVars
<1>14. CASE DrainReceive
  BY <1>14 DEF Received, Keep, DrainReceive, SumInv, Seen, producerVars, workerVars, drainVars
<1>15. ASSUME NEW cur \in pending, DrainWrite(cur)
      PROVE  SumInv'
  BY <1>15 DEF InLine, DrainWrite, SumInv, Seen, producerVars, workerVars, drainVars
<1>16. ASSUME NEW cur \in pending, DrainWriteFails(cur)
      PROVE  SumInv'
  BY <1>16 DEF InLine, DrainWriteFails, SumInv, Seen, producerVars, workerVars, drainVars
<1>17. CASE DrainPause
  BY <1>17 DEF InLine, DrainPause, SumInv, Seen, producerVars, workerVars, drainVars
<1>18. CASE DrainExit
  BY <1>18 DEF DrainOver, DrainExit, SumInv, Seen, producerVars, workerVars, drainVars
<1>19. CASE UNCHANGED vars
  BY <1>19 DEF SumInv, Seen, vars, producerVars, workerVars, drainVars
<1> QED
  BY <1>1, <1>2, <1>3, <1>4, <1>5, <1>6, <1>7, <1>8, <1>9, <1>10, <1>11,
     <1>12, <1>13, <1>14, <1>15, <1>16, <1>17, <1>18, <1>19
     DEF Next, Producer, Worker, Drain, Finished

----------------------------------------------------------------------------
(* A job, and the result made of it, describe the chunk they name.         *)

\* Every step preserves that a job or a result carries the length and contents of the
\* chunk it names.
LEMMA ShapeStep ==
    ASSUME TypeOK, LoopInv, ShapeInv, [Next]_vars
    PROVE  ShapeInv'
<1> USE ChunkFormatAssumption, EncodeAssumption DEF TypeOK
<1>1. CASE ReadFails
  BY <1>1 DEF ReadFails, ShapeInv, GoodJob, GoodResult, workerVars, drainVars
<1>2. CASE SumFails
  BY <1>2 DEF SumFails, ShapeInv, GoodJob, GoodResult, workerVars, drainVars
<1>3. CASE ReadChunk
  BY <1>3 DEF SumThis, ReadChunk, ShapeInv, GoodJob, GoodResult, workerVars, drainVars
<1>4. CASE Dispatch
  <2> DEFINE job == [idx |-> idx, sectorStart |-> nextSector,
                     secCount |-> ThisChunk, zero |-> content[idx] = 0]
  <2>1. idx < NumChunks /\ idx \in Nat
        /\ remaining = RegionSectors - idx * ChunkSectors
    BY <1>4 DEF Dispatch, LoopInv
  <2>2. nextSector = idx * ChunkSectors /\ ThisChunk = ChunkLength(idx)
    <3>1. idx * ChunkSectors \in Nat
      BY <2>1, TimesStep
    <3> QED BY <2>1, <3>1 DEF LoopInv, ThisChunk, ChunkLength
  <2>3. GoodJob(job)
    BY <2>2 DEF GoodJob
  <2>4. jobs' = Append(jobs, job) /\ content' = content /\ work' = work
        /\ results' = results /\ pending' = pending
    BY <1>4 DEF Dispatch, workerVars, drainVars
  <2> HIDE DEF job
  <2>5. \A k \in DOMAIN jobs' : jobs'[k] = job \/ \E m \in DOMAIN jobs : jobs'[k] = jobs[m]
    <3>1. jobs \in Seq(Job \cup {job}) /\ job \in Job \cup {job}
      OBVIOUS
    <3>2. \A k \in DOMAIN Append(jobs, job) :
             Append(jobs, job)[k] = job \/ \E m \in DOMAIN jobs : Append(jobs, job)[k] = jobs[m]
      BY ONLY <3>1, AppendElems
    <3>3. jobs' = Append(jobs, job)
      BY <2>4
    <3> QED BY ONLY <3>2, <3>3, Zenon
  <2>6. \A k \in DOMAIN jobs' : GoodJob(jobs'[k])
    BY <2>3, <2>5 DEF ShapeInv
  <2>7. \A k \in DOMAIN jobs' : GoodJob(jobs[k])'
    BY <2>4, <2>6 DEF GoodJob
  <2> QED BY <2>4, <2>7 DEF ShapeInv, GoodJob, GoodResult
<1>5. CASE TakeWorkerError
  BY <1>5 DEF TakeWorkerError, ShapeInv, GoodJob, GoodResult, workerVars, drainVars
<1>6. CASE SeeDone
  BY <1>6 DEF SeeDone, ShapeInv, GoodJob, GoodResult, workerVars, drainVars
<1>7. CASE CloseJobs
  BY <1>7 DEF CloseJobs, ShapeInv, GoodJob, GoodResult, workerVars, drainVars
<1>8. CASE Return
  BY <1>8 DEF Reported, Return, ShapeInv, GoodJob, GoodResult, workerVars, drainVars
<1>9. ASSUME NEW w \in Workers, WorkerTake(w)
      PROVE  ShapeInv'
  <2>1. \A k \in DOMAIN jobs' : \E m \in DOMAIN jobs : jobs'[k] = jobs[m]
    <3>1. jobs \in Seq(Job) /\ jobs # <<>> /\ jobs' = Tail(jobs)
      BY <1>9 DEF WorkerTake
    <3>2. \A k \in DOMAIN Tail(jobs) : \E m \in DOMAIN jobs : Tail(jobs)[k] = jobs[m]
      BY ONLY <3>1, HeadTailElems
    <3> QED BY <3>1, <3>2, Zenon
  <2>2. \E m \in DOMAIN jobs : Head(jobs) = jobs[m]
    BY <1>9, HeadTailElems, Zenon DEF WorkerTake
  <2>3. work' = [work EXCEPT ![w] = Head(jobs)] /\ content' = content
        /\ results' = results /\ pending' = pending
    BY <1>9 DEF WorkerTake, drainVars
  <2> QED BY <2>1, <2>2, <2>3 DEF ShapeInv, GoodJob, GoodResult
<1>10. ASSUME NEW w \in Workers, WorkerSend(w)
      PROVE  ShapeInv'
  <2>1. GoodJob(work[w]) /\ work[w] \in Job
    BY <1>10 DEF WorkerSend, ShapeInv
  <2>2. GoodResult(Encode(work[w]))
    BY <2>1 DEF GoodJob, GoodResult, Encode, Job
  <2>3. results' = Append(results, Encode(work[w])) /\ content' = content
        /\ work' = [work EXCEPT ![w] = NoJob] /\ jobs' = jobs /\ pending' = pending
    BY <1>10 DEF WorkerSend, drainVars
  <2>4. \A k \in DOMAIN results' :
           results'[k] = Encode(work[w]) \/ \E m \in DOMAIN results : results'[k] = results[m]
    <3>1. results \in Seq(Result)
      OBVIOUS
    <3> QED BY ONLY <2>3, <3>1
  <2>5. \A k \in DOMAIN results' : GoodResult(results'[k])
    BY <2>2, <2>4 DEF ShapeInv
  <2>6. \A v \in Workers : work'[v] # NoJob => GoodJob(work'[v])
    BY <2>3 DEF ShapeInv
  <2>7. (\A j : GoodJob(j)' = GoodJob(j)) /\ (\A x : GoodResult(x)' = GoodResult(x))
    BY ONLY <2>3 DEF GoodJob, GoodResult
  <2> QED BY <2>3, <2>5, <2>6, <2>7 DEF ShapeInv
<1>11. ASSUME NEW w \in Workers, WorkerFail(w)
      PROVE  ShapeInv'
  BY <1>11 DEF TrySendErr, WorkerFail, ShapeInv, GoodJob, GoodResult, producerVars, workerVars, drainVars
<1>12. ASSUME NEW w \in Workers, WorkerExit(w)
      PROVE  ShapeInv'
  BY <1>12 DEF WorkerExit, ShapeInv, GoodJob, GoodResult, producerVars, workerVars, drainVars
<1>13. CASE CloseResults
  BY <1>13 DEF AllDone, CloseResults, ShapeInv, GoodJob, GoodResult, producerVars, workerVars, drainVars
<1>14. CASE DrainReceive
  <2>1. \A k \in DOMAIN results' : \E m \in DOMAIN results : results'[k] = results[m]
    <3>1. results \in Seq(Result) /\ results # <<>> /\ results' = Tail(results)
      BY <1>14 DEF Received, Keep, DrainReceive
    <3>2. \A k \in DOMAIN Tail(results) : \E m \in DOMAIN results : Tail(results)[k] = results[m]
      BY ONLY <3>1, HeadTailElems
    <3> QED BY <3>1, <3>2, Zenon
  <2>2. \E m \in DOMAIN results : Head(results) = results[m]
    BY <1>14, HeadTailElems, Zenon DEF Received, Keep, DrainReceive
  <2>3. \A r \in pending' : r \in pending \/ r = Head(results)
    BY <1>14 DEF Received, Keep, DrainReceive
  <2>4. content' = content /\ work' = work /\ jobs' = jobs
    BY <1>14 DEF Received, Keep, DrainReceive, workerVars
  <2>5. \A k \in DOMAIN results' : GoodResult(results'[k])
    BY <2>1 DEF ShapeInv
  <2>6. \A x \in pending' : GoodResult(x)
    BY <2>2, <2>3 DEF ShapeInv
  <2>7. (\A j : GoodJob(j)' = GoodJob(j)) /\ (\A x : GoodResult(x)' = GoodResult(x))
    BY ONLY <2>4 DEF GoodJob, GoodResult
  <2> QED BY <2>4, <2>5, <2>6, <2>7 DEF ShapeInv
<1>15. ASSUME NEW cur \in pending, DrainWrite(cur)
      PROVE  ShapeInv'
  BY <1>15 DEF InLine, DrainWrite, ShapeInv, GoodJob, GoodResult, producerVars, workerVars, drainVars
<1>16. ASSUME NEW cur \in pending, DrainWriteFails(cur)
      PROVE  ShapeInv'
  BY <1>16 DEF InLine, DrainWriteFails, ShapeInv, GoodJob, GoodResult, producerVars, workerVars, drainVars
<1>17. CASE DrainPause
  BY <1>17 DEF InLine, DrainPause, ShapeInv, GoodJob, GoodResult, producerVars, workerVars, drainVars
<1>18. CASE DrainExit
  BY <1>18 DEF DrainOver, DrainExit, ShapeInv, GoodJob, GoodResult, producerVars, workerVars, drainVars
<1>19. CASE UNCHANGED vars
  BY <1>19 DEF ShapeInv, GoodJob, GoodResult, vars, producerVars, workerVars, drainVars
<1> QED
  BY <1>1, <1>2, <1>3, <1>4, <1>5, <1>6, <1>7, <1>8, <1>9, <1>10, <1>11,
     <1>12, <1>13, <1>14, <1>15, <1>16, <1>17, <1>18, <1>19
     DEF Next, Producer, Worker, Drain, Finished

----------------------------------------------------------------------------
(* The table and the data fork describe each other.  Only DrainWrite       *)
(* touches either, and the result it writes is the next chunk's.           *)

\* Every step preserves that the runs in the table tile the region and the fork.
LEMMA RunsStep ==
    ASSUME TypeOK, FaultInv, FlowInv, ShapeInv, RunsInv, RunsTile, ReadBack,
           [Next]_vars
    PROVE  RunsInv' /\ RunsTile' /\ ReadBack'
<1> USE ChunkFormatAssumption, EncodeAssumption DEF TypeOK
<1>1. CASE UNCHANGED <<content, runs, dst, dataForkLen>>
  BY <1>1 DEF RunsInv, RunsTile, ReadBack
<1>2. ASSUME NEW cur \in pending, DrainWrite(cur)
      PROVE  RunsInv' /\ RunsTile' /\ ReadBack'
  <2> DEFINE n == Len(runs)
             new == [Type |-> cur.runType,
                     SectorStart |-> cur.sectorStart,
                     SectorCount |-> cur.secCount,
                     CompOffset |-> dataForkLen,
                     CompLength |-> cur.len]
  <2>1. /\ n \in Nat /\ n \in Chunks /\ cur.idx = n /\ cur.len \in Nat
        /\ cur \in Result
    <3>1. ~writeErr /\ cur.idx = nextIdx
      BY <1>2 DEF InLine, DrainWrite, FaultInv
    <3>2. n = nextIdx
      BY <3>1 DEF FlowInv
    <3>3. cur.idx \in Chunks /\ cur.len \in Nat /\ cur \in Result
      BY DEF Result
    <3> QED BY <3>1, <3>2, <3>3 DEF Chunks
  <2>2. GoodResult(cur)
    BY DEF ShapeInv
  <2>3. /\ runs' = Append(runs, new)
        /\ dataForkLen' = dataForkLen + cur.len
        /\ dst' = dst \o Payload(n, cur.len)
        /\ content' = content
    BY <1>2, <2>1 DEF InLine, DrainWrite
  <2>4. /\ Len(runs') = n + 1
        /\ \A k \in 1 .. n : runs'[k] = runs[k]
        /\ runs'[n + 1] = new
    BY <2>1, <2>3
  <2>5. /\ Len(Payload(n, cur.len)) = cur.len
        /\ \A k \in 1 .. cur.len : Payload(n, cur.len)[k] = n
        /\ Payload(n, cur.len) \in Seq(Nat)
    <3>1. n \in Nat /\ cur.len \in Nat
      BY <2>1
    <3> QED BY ONLY <3>1, PayloadType
  <2>6. /\ Len(dst') = Len(dst) + cur.len
        /\ DOMAIN dst' = 1 .. Len(dst) + cur.len
        /\ \A k \in 1 .. Len(dst) : dst'[k] = dst[k]
        /\ \A k \in 1 .. cur.len : dst'[Len(dst) + k] = n
    <3> HIDE DEF n
    <3>1. dst \in Seq(Nat) /\ Len(dst) \in Nat /\ cur.len \in Nat
      BY <2>1
    <3>2. /\ Len(dst \o Payload(n, cur.len)) = Len(dst) + Len(Payload(n, cur.len))
          /\ dst \o Payload(n, cur.len) \in Seq(Nat)
          /\ \A i \in 1 .. Len(dst) + Len(Payload(n, cur.len)) :
                (dst \o Payload(n, cur.len))[i] =
                   IF i <= Len(dst) THEN dst[i] ELSE Payload(n, cur.len)[i - Len(dst)]
      BY ONLY <2>5, <3>1, ConcatProperties
    <3>3. dst' = dst \o Payload(n, cur.len)
      BY <2>3
    <3>4. \A k \in 1 .. cur.len :
             /\ Len(dst) + k \in 1 .. Len(dst) + cur.len
             /\ ~(Len(dst) + k <= Len(dst))
             /\ (Len(dst) + k) - Len(dst) = k
      BY <3>1
    <3>5. \A k \in 1 .. Len(dst) : k \in 1 .. Len(dst) + cur.len /\ k <= Len(dst)
      BY <3>1
    <3>6. Len(dst') = Len(dst) + cur.len /\ dst' \in Seq(Nat)
      BY <2>5, <3>2, <3>3
    <3>7. DOMAIN dst' = 1 .. Len(dst) + cur.len
      BY <3>6
    <3>8. \A k \in 1 .. cur.len : dst'[Len(dst) + k] = n
      BY ONLY <2>5, <3>2, <3>3, <3>4
    <3>9. \A k \in 1 .. Len(dst) : dst'[k] = dst[k]
      BY ONLY <2>5, <3>2, <3>3, <3>5
    <3> QED BY <3>6, <3>7, <3>8, <3>9
  <2>7. /\ new.SectorStart = n * ChunkSectors
        /\ new.SectorCount = ChunkLength(n)
        /\ new.Type = RunType(content[n] = 0, ChunkLength(n), content[n])
        /\ new.CompLength = PayloadLen(content[n] = 0, ChunkLength(n), content[n])
        /\ new.CompOffset = dataForkLen /\ new.CompLength = cur.len
    BY <2>1, <2>2 DEF GoodResult
  <2>8. BaseOffset <= dataForkLen /\ Len(dst) = dataForkLen - BaseOffset
    BY DEF RunsInv
  <2>9. ASSUME n # 0
        PROVE  /\ n \in 1 .. n
               /\ runs[n].SectorStart + runs[n].SectorCount = n * ChunkSectors
               /\ runs[n].CompOffset + runs[n].CompLength = dataForkLen
    <3>1. n \in 1 .. n /\ n - 1 \in Chunks /\ n - 1 \in Nat /\ (n - 1) + 1 < NumChunks
      BY <2>1, <2>9 DEF Chunks
    <3>2. ChunkLength(n - 1) = ChunkSectors
      BY <3>1, ChunkSizes
    <3>3. runs[n].SectorStart = (n - 1) * ChunkSectors /\ runs[n].SectorCount = ChunkSectors
      BY <3>1, <3>2 DEF RunsInv
    <3>4. n * ChunkSectors = (n - 1) * ChunkSectors + ChunkSectors
      <4>1. ((n - 1) + 1) * ChunkSectors = (n - 1) * ChunkSectors + ChunkSectors
        BY <3>1, TimesStep
      <4>2. (n - 1) + 1 = n
        BY <2>1
      <4> QED BY <4>1, <4>2
    <3>5. runs[n].CompOffset + runs[n].CompLength = dataForkLen
      BY <3>1 DEF RunsTile
    <3> QED BY <3>1, <3>3, <3>4, <3>5
  <2>10. ASSUME n = 0 PROVE dataForkLen = BaseOffset /\ n * ChunkSectors = 0
    <3>1. runs = <<>>
      BY <2>10
    <3> QED BY <2>10, <3>1 DEF RunsInv
  <2>11. \A k \in 1 .. n : /\ runs[k] \in Run
                           /\ runs[k].CompOffset \in Nat /\ runs[k].CompLength \in Nat
    <3>1. \A k \in 1 .. n : runs[k] \in Run
      OBVIOUS
    <3> QED BY <3>1 DEF Run
  <2> HIDE DEF n, new
  <2>12. RunsInv'
    <3>1. ASSUME NEW k \in 1 .. n + 1
          PROVE  /\ runs'[k].SectorStart = (k - 1) * ChunkSectors
                 /\ runs'[k].SectorCount = ChunkLength(k - 1)
                 /\ BaseOffset <= runs'[k].CompOffset
                 /\ runs'[k].CompOffset + runs'[k].CompLength <= dataForkLen'
      <4>1. CASE k = n + 1
        <5>1. k - 1 = n
          BY <2>1, <4>1
        <5>2. runs'[k] = new /\ dataForkLen' = dataForkLen + cur.len
          BY ONLY <2>3, <2>4, <4>1
        <5> QED BY ONLY <2>7, <2>8, <5>1, <5>2
      <4>2. CASE k # n + 1
        <5>1. k \in 1 .. n
          BY <2>1, <4>2
        <5>2. /\ runs[k].SectorStart = (k - 1) * ChunkSectors
              /\ runs[k].SectorCount = ChunkLength(k - 1)
              /\ BaseOffset <= runs[k].CompOffset
              /\ runs[k].CompOffset + runs[k].CompLength <= dataForkLen
          BY <5>1 DEF RunsInv, n
        <5>3. runs'[k] = runs[k]
          BY <2>4, <5>1
        <5>4. runs[k].CompOffset + runs[k].CompLength <= dataForkLen'
          <6>1. runs[k].CompOffset + runs[k].CompLength <= dataForkLen
            BY <5>2
          <6>2. runs[k].CompOffset \in Nat /\ runs[k].CompLength \in Nat
            BY <2>11, <5>1
          <6>3. dataForkLen' = dataForkLen + cur.len /\ cur.len \in Nat
                /\ dataForkLen \in Nat
            BY <2>1, <2>3
          <6> QED BY ONLY <6>1, <6>2, <6>3
        <5> QED BY <5>2, <5>3, <5>4
      <4> QED BY <4>1, <4>2
    <3>2. Len(dst') = dataForkLen' - BaseOffset
      <4>1. dataForkLen \in Nat /\ BaseOffset \in Nat /\ cur.len \in Nat
        BY <2>1
      <4> QED BY ONLY <2>3, <2>6, <2>8, <4>1
    <3>3. runs' # <<>> /\ n + 1 <= NumChunks
      BY <2>1, <2>4 DEF Chunks
    <3> QED BY <2>4, <3>1, <3>2, <3>3 DEF RunsInv
  <2>13. RunsTile'
    <3>1. ASSUME NEW k \in 1 .. n + 1
          PROVE  /\ runs'[k].SectorStart =
                       IF k = 1 THEN 0
                       ELSE runs'[k - 1].SectorStart + runs'[k - 1].SectorCount
                 /\ runs'[k].CompOffset =
                       IF k = 1 THEN BaseOffset
                       ELSE runs'[k - 1].CompOffset + runs'[k - 1].CompLength
                 /\ k = n + 1 =>
                       dataForkLen' = runs'[k].CompOffset + runs'[k].CompLength
      <4>1. CASE k = n + 1
        <5>1. CASE n = 0
          BY <2>3, <2>4, <2>7, <2>10, <4>1, <5>1
        <5>2. CASE n # 0
          <6>1. n \in Nat
            BY <2>1
          <6>2. k - 1 = n /\ k # 1
            BY ONLY <4>1, <5>2, <6>1
          <6>3. n \in 1 .. n
            BY ONLY <5>2, <6>1
          <6>4. runs'[k - 1] = runs[n]
            BY ONLY <2>4, <6>2, <6>3
          <6>5. runs'[k] = new /\ dataForkLen' = dataForkLen + cur.len
            BY ONLY <2>3, <2>4, <4>1
          <6>6. /\ runs[n].SectorStart + runs[n].SectorCount = n * ChunkSectors
                /\ runs[n].CompOffset + runs[n].CompLength = dataForkLen
            BY <2>9, <5>2
          <6> QED BY ONLY <2>7, <6>2, <6>4, <6>5, <6>6
        <5> QED BY <5>1, <5>2
      <4>2. CASE k # n + 1
        <5>1. k \in 1 .. n /\ (k # 1 => k - 1 \in 1 .. n)
          BY <2>1, <4>2
        <5>2. runs'[k] = runs[k] /\ (k # 1 => runs'[k - 1] = runs[k - 1])
          BY <2>4, <5>1
        <5> QED BY <4>2, <5>1, <5>2 DEF RunsTile, n
      <4> QED BY <4>1, <4>2
    <3> QED BY <2>4, <3>1 DEF RunsTile
  <2>14. ReadBack'
    <3>1. ASSUME NEW k \in 1 .. n + 1
          PROVE  LET r == runs'[k]
                     at == r.CompOffset - BaseOffset
                 IN  /\ r.SectorStart = (k - 1) * ChunkSectors
                     /\ at >= 0
                     /\ \A m \in 1 .. r.CompLength :
                           at + m \in DOMAIN dst' /\ dst'[at + m] = k - 1
                     /\ (r.Type = "BlockZero") <=> (content[k - 1] = 0)
                     /\ r.Type = "BlockZero" => r.CompLength = 0
                     /\ r.Type = "BlockZLIB" =>
                           /\ r.CompLength = content[k - 1]
                           /\ r.CompLength < r.SectorCount * SectorSize
                     /\ r.Type = "BlockRaw" =>
                           r.CompLength = r.SectorCount * SectorSize
      <4>1. CASE k = n + 1
        <5>1. k - 1 = n /\ runs'[k] = new
          BY <2>1, <2>4, <4>1
        <5>2. /\ new.CompOffset - BaseOffset = Len(dst) /\ Len(dst) \in Nat
              /\ Len(dst) >= 0
          BY <2>7, <2>8
        <5>3. \A m \in 1 .. new.CompLength :
                 Len(dst) + m \in DOMAIN dst' /\ dst'[Len(dst) + m] = n
          <6>1. cur.len \in Nat /\ new.CompLength = cur.len
            BY <2>1, <2>7
          <6> QED BY ONLY <2>6, <5>2, <6>1
        <5>4. /\ (new.Type = "BlockZero") <=> (content[n] = 0)
              /\ new.Type = "BlockZero" => new.CompLength = 0
              /\ new.Type = "BlockZLIB" =>
                    /\ new.CompLength = content[n]
                    /\ new.CompLength < new.SectorCount * SectorSize
              /\ new.Type = "BlockRaw" =>
                    new.CompLength = new.SectorCount * SectorSize
          BY <2>7 DEF RunType, PayloadLen
        <5> QED BY ONLY <2>7, <5>1, <5>2, <5>3, <5>4
      <4>2. CASE k # n + 1
        <5>1. k \in 1 .. n /\ runs'[k] = runs[k]
          <6>1. n \in Nat
            BY <2>1
          <6> QED BY ONLY <2>4, <3>1, <4>2, <6>1
        <5>2. Len(dst) \in Nat /\ DOMAIN dst = 1 .. Len(dst)
          OBVIOUS
        <5>3. \A m \in DOMAIN dst : m \in DOMAIN dst' /\ dst'[m] = dst[m]
          BY <2>1, <2>6, <5>2
        <5>4. k \in 1 .. Len(runs)
          BY <5>1 DEF n
        <5>5. /\ runs[k].SectorStart = (k - 1) * ChunkSectors
              /\ runs[k].CompOffset - BaseOffset >= 0
              /\ \A m \in 1 .. runs[k].CompLength :
                    /\ (runs[k].CompOffset - BaseOffset) + m \in DOMAIN dst
                    /\ dst[(runs[k].CompOffset - BaseOffset) + m] = k - 1
              /\ (runs[k].Type = "BlockZero") <=> (content[k - 1] = 0)
              /\ runs[k].Type = "BlockZero" => runs[k].CompLength = 0
              /\ runs[k].Type = "BlockZLIB" =>
                    /\ runs[k].CompLength = content[k - 1]
                    /\ runs[k].CompLength < runs[k].SectorCount * SectorSize
              /\ runs[k].Type = "BlockRaw" =>
                    runs[k].CompLength = runs[k].SectorCount * SectorSize
          <6>1. ReadBack
            OBVIOUS
          <6> QED BY ONLY <5>4, <6>1 DEF ReadBack
        <5>6. \A m \in 1 .. runs[k].CompLength :
                 /\ (runs[k].CompOffset - BaseOffset) + m \in DOMAIN dst'
                 /\ dst'[(runs[k].CompOffset - BaseOffset) + m] = k - 1
          BY ONLY <5>3, <5>5
        <5> QED BY ONLY <5>1, <5>5, <5>6
      <4> QED BY <4>1, <4>2
    <3> QED BY <2>3, <2>4, <3>1 DEF ReadBack
  <2> QED BY <2>12, <2>13, <2>14
<1>3. UNCHANGED <<content, runs, dst, dataForkLen>>
      \/ \E cur \in pending : DrainWrite(cur)
  BY DEF SumThis, Reported, TrySendErr, AllDone, Received, Keep, InLine, DrainOver, Next, Producer, Worker, Drain, Finished, vars, workerVars, drainVars,
         producerVars, ReadFails, SumFails, ReadChunk, Dispatch,
         TakeWorkerError, SeeDone, CloseJobs, Return, WorkerTake, WorkerSend,
         WorkerFail, WorkerExit, CloseResults, DrainReceive, DrainWriteFails,
         DrainPause, DrainExit
<1> QED BY <1>1, <1>2, <1>3

----------------------------------------------------------------------------
(* The inductive invariant.                                                *)

\* The inductive invariant holds when encodeChunks starts.
LEMMA IndInit == Init => Ind
<1> SUFFICES ASSUME Init PROVE Ind
  OBVIOUS
<1> USE ChunkFormatAssumption, EncodeAssumption
<1>1. TypeOK /\ LoopInv
  BY TypeInit
<1>2. LifeInv /\ FaultInv
  BY DEF Init, LifeInv, FaultInv, ErrorIsReal
<1>3. FlowInv
  <2>1. ~ \E i \in Chunks : InJobs(i) \/ InWork(i) \/ InResults(i) \/ InPending(i)
    BY DEF Init, InJobs, InWork, InResults, InPending, IdxsOf, NoJob, Chunks
  <2>2. ~ InPending(nextIdx)
    BY DEF Init, InPending
  <2> QED BY <2>1, <2>2 DEF Init, FlowInv, Chunks
<1>4. SumInv
  BY DEF Init, SumInv, Seen, Chunks
<1>5. ShapeInv
  BY DEF Init, ShapeInv
<1>6. RunsInv /\ RunsTile /\ ReadBack
  BY DEF Init, RunsInv, RunsTile, ReadBack
<1> QED BY <1>1, <1>2, <1>3, <1>4, <1>5, <1>6 DEF Ind, IInv

\* The inductive invariant is inductive.
LEMMA IndStep == Ind /\ [Next]_vars => Ind'
BY TypeStep, LifeStep, FaultStep, FlowStep, SumStep, ShapeStep, RunsStep
   DEF Ind, IInv

\* Ind, the inductive invariant of encodeChunks (writer.go), holds of every behaviour of
\* the pool.
THEOREM IndCorrect == Spec => []Ind
BY IndInit, IndStep, PTL DEF Spec

\* A clean return leaves nothing behind in the channels or the reorder buffer.
LEMMA OkIsComplete ==
    ASSUME Ind, outcome = "ok"
    PROVE  idx = NumChunks /\ nextIdx = NumChunks /\ Len(runs) = NumChunks
<1> USE ChunkFormatAssumption, EncodeAssumption DEF Ind, IInv, TypeOK
<1>1. /\ pc = "returned" /\ dpc = "exited" /\ faulted = {} /\ producerErr = "none"
      /\ ~writeErr /\ ~done /\ results = <<>> /\ exited = Workers
  BY DEF LifeInv, FaultInv
<1>2. idx = NumChunks
  <2>1. remaining = 0
    BY <1>1 DEF FaultInv
  <2>2. ASSUME idx < NumChunks PROVE FALSE
    <3>1. idx \in Chunks
      BY <2>2 DEF Chunks
    <3>2. idx * ChunkSectors <= (NumChunks - 1) * ChunkSectors
      BY <2>2, TimesMonotone
    <3>3. idx * ChunkSectors = RegionSectors /\ idx * ChunkSectors \in Nat
      <4>1. idx \in Nat /\ idx * ChunkSectors \in Nat
        BY <2>2, TimesStep DEF LoopInv
      <4>2. RegionSectors - idx * ChunkSectors = 0
        BY <2>1, <2>2 DEF LoopInv
      <4> QED BY <4>1, <4>2
    <3> DEFINE before == (NumChunks - 1) * ChunkSectors
    <3>4. before < RegionSectors
      BY ONLY ChunkFormatAssumption, Zenon
    <3>5. before \in Int /\ RegionSectors \in Int
      BY ONLY ChunkFormatAssumption
    <3>6. RegionSectors <= before
      BY <3>2, <3>3
    <3> HIDE DEF before
    <3> QED BY ONLY <3>4, <3>5, <3>6
  <2> QED BY <2>2 DEF LoopInv
<1>3. ASSUME nextIdx < idx PROVE FALSE
  <2>1. nextIdx \in Chunks
    BY <1>2, <1>3 DEF Chunks
  <2>2. InJobs(nextIdx) \/ InWork(nextIdx) \/ InResults(nextIdx) \/ InPending(nextIdx)
    BY <1>1, <1>3, <2>1 DEF FlowInv
  <2>3. ~InPending(nextIdx) /\ jobs = <<>>
    BY <1>1 DEF FlowInv
  <2>4. ~InJobs(nextIdx) /\ ~InResults(nextIdx)
    BY <1>1, <2>3 DEF InJobs, InResults, IdxsOf
  <2>5. ~InWork(nextIdx)
    <3>1. \A w \in Workers : work[w].idx = -1
      BY <1>1 DEF LifeInv, NoJob
    <3> QED BY <2>1, <3>1 DEF InWork, Chunks
  <2> QED BY <2>2, <2>3, <2>4, <2>5
<1>4. nextIdx = idx
  BY <1>3 DEF FlowInv
<1> QED BY <1>1, <1>2, <1>4 DEF FlowInv

\* No goroutine ever sends on a channel that has been closed, so the pool cannot
\* panic, whatever fails.
THEOREM NoSendOnClosedCorrect == Spec => []NoSendOnClosed
<1>1. Ind => NoSendOnClosed
  BY DEF Ind, IInv, LifeInv, NoSendOnClosed
<1> QED BY <1>1, IndCorrect, PTL

\* encodeChunks never returns while a goroutine it started is alive.
THEOREM NoGoroutineLeftCorrect == Spec => []NoGoroutineLeft
<1>1. Ind => NoGoroutineLeft
  BY DEF Ind, IInv, LifeInv, NoGoroutineLeft
<1> QED BY <1>1, IndCorrect, PTL

\* A clean return means that nothing failed and that every chunk of the region
\* has been written and, unless it is all zero, summed.
THEOREM SuccessIsCompleteCorrect == Spec => []SuccessIsComplete
<1>1. Ind => SuccessIsComplete
  <2> SUFFICES ASSUME Ind, outcome = "ok"
               PROVE  /\ faulted = {}
                      /\ Len(runs) = NumChunks
                      /\ \A i \in Chunks :
                            content[i] # 0 => \E k \in DOMAIN summed : summed[k] = i
    BY DEF SuccessIsComplete
  <2>1. faulted = {}
    BY DEF Ind, IInv, FaultInv
  <2>2. idx = NumChunks /\ Len(runs) = NumChunks
    BY OkIsComplete
  <2>3. \A i \in Chunks : Seen(i)
    BY <2>2, ChunkFormatAssumption DEF Seen, Chunks
  <2> QED BY <2>1, <2>2, <2>3 DEF Ind, IInv, SumInv
<1> QED BY <1>1, IndCorrect, PTL

\* The error the call reports is one that happened.
THEOREM ErrorIsRealCorrect == Spec => []ErrorIsReal
<1>1. Ind => ErrorIsReal
  BY DEF Ind, IInv, FaultInv
<1> QED BY <1>1, IndCorrect, PTL

\* The runs tile the region and the data fork, in input order, at any moment and
\* for any interleaving of the workers.
THEOREM RunsTileCorrect == Spec => []RunsTile
<1>1. Ind => RunsTile
  BY DEF Ind
<1> QED BY <1>1, IndCorrect, PTL

\* Following a run into the data fork gives the bytes of the chunk it stands for.
THEOREM ReadBackCorrect == Spec => []ReadBack
<1>1. Ind => ReadBack
  BY DEF Ind
<1> QED BY <1>1, IndCorrect, PTL

\* Once the call has returned nothing it started touches the source, the CRC, the
\* writer or the table: the next region may use them.
THEOREM QuietAfterReturnCorrect == Spec => QuietAfterReturn
<1>1. Ind /\ [Next]_vars
        => [pc # "returned"]_<<idx, summed, dst, runs, dataForkLen, jobs, results>>
  <2> SUFFICES ASSUME Ind, [Next]_vars, pc = "returned"
               PROVE  UNCHANGED <<idx, summed, dst, runs, dataForkLen, jobs, results>>
    OBVIOUS
  <2>1. /\ dpc = "exited" /\ results = <<>>
        /\ \A w \in Workers : w \in exited /\ work[w] = NoJob
    BY DEF Ind, IInv, LifeInv
  <2> QED
    BY <2>1 DEF SumThis, Reported, TrySendErr, AllDone, Received, Keep, InLine, DrainOver, Next, Producer, Worker, Drain, Finished, vars, producerVars,
           workerVars, drainVars, ReadFails, SumFails, ReadChunk, Dispatch,
           TakeWorkerError, SeeDone, CloseJobs, Return, WorkerTake, WorkerSend,
           WorkerFail, WorkerExit, CloseResults, DrainReceive, DrainWrite,
           DrainWriteFails, DrainPause, DrainExit
<1> QED BY <1>1, IndCorrect, PTL DEF Spec, QuietAfterReturn

----------------------------------------------------------------------------
(* The pool implements the sequential loop.                                *)

\* What success means, stated of the next state for the refinement.
LEMMA CompleteNext == (Ind /\ outcome = "ok" => SuccessIsComplete)'
<1>1. Ind /\ outcome = "ok" => SuccessIsComplete
  <2> SUFFICES ASSUME Ind, outcome = "ok" PROVE SuccessIsComplete
    OBVIOUS
  <2>1. faulted = {}
    BY DEF Ind, IInv, FaultInv
  <2>2. idx = NumChunks /\ Len(runs) = NumChunks
    BY OkIsComplete
  <2>3. \A i \in Chunks : Seen(i)
    BY <2>2, ChunkFormatAssumption DEF Seen, Chunks
  <2> QED BY <2>1, <2>2, <2>3 DEF Ind, IInv, SumInv, SuccessIsComplete
<1> QED BY <1>1, PTL

\* Every step of the pool is a step of the sequential loop or changes nothing it shows.
LEMMA StepRefines ==
    ASSUME Ind, Ind', [Next]_vars
    PROVE  [Sequential!Next]_(Sequential!vars)
<1> USE ChunkFormatAssumption, EncodeAssumption DEF Ind, IInv, TypeOK
<1>1. ASSUME ReadChunk, content[idx] # 0
      PROVE  Sequential!Sum(idx) /\ idx \in Chunks
  <2>1. idx \in Chunks /\ pc = "read" /\ outcome = "none"
    BY <1>1 DEF SumThis, ReadChunk, LoopInv, LifeInv, Chunks
  <2>2. \A j \in Chunks :
           content[j] # 0 => ((\E k \in DOMAIN summed : summed[k] = j) <=> j < idx)
    <3>1. \A j \in Chunks :
             content[j] # 0 /\ j < idx => \E k \in DOMAIN summed : summed[k] = j
      BY DEF SumInv, Seen
    <3>2. \A k \in DOMAIN summed : summed[k] < idx
      <4>1. \A k \in DOMAIN summed :
               \E i \in Chunks : summed[k] = i /\ (i < idx \/ (i = idx /\ pc # "read"))
        BY DEF SumInv
      <4> QED BY ONLY <2>1, <4>1
    <3> QED BY ONLY <3>1, <3>2
  <2>3. summed' = Append(summed, idx)
    BY <1>1 DEF SumThis, ReadChunk
  <2>4. UNCHANGED <<content, dst, runs, dataForkLen, outcome>>
    BY <1>1 DEF SumThis, ReadChunk, drainVars
  <2> QED BY <1>1, <2>1, <2>2, <2>3, <2>4 DEF Sequential!Sum, Sequential!Chunks, Chunks
<1>2. ASSUME ReadChunk, content[idx] = 0
      PROVE  UNCHANGED Sequential!vars
  BY <1>2 DEF SumThis, ReadChunk, drainVars, Sequential!vars
<1>3. ASSUME NEW cur \in pending, DrainWrite(cur)
      PROVE  Sequential!Emit
  <2>1. /\ cur.idx = Len(runs) /\ Len(runs) \in Chunks
        /\ dpc = "flush"
    BY <1>3 DEF InLine, DrainWrite, FaultInv, FlowInv, Result
  <2>2. GoodResult(cur)
    BY DEF ShapeInv
  <2>3. outcome = "none"
    BY <2>1 DEF LifeInv
  <2>4. /\ runs' = Append(runs, [Type |-> cur.runType,
                                SectorStart |-> cur.sectorStart,
                                SectorCount |-> cur.secCount,
                                CompOffset |-> dataForkLen,
                                CompLength |-> cur.len])
        /\ dst' = dst \o Payload(Len(runs), cur.len)
        /\ dataForkLen' = dataForkLen + cur.len
        /\ UNCHANGED <<content, summed, outcome>>
    BY <1>3, <2>1 DEF InLine, DrainWrite, producerVars
  <2>5. Sequential!RunOf(Len(runs)) =
           [Type |-> cur.runType,
            SectorStart |-> cur.sectorStart,
            SectorCount |-> cur.secCount,
            CompOffset |-> dataForkLen,
            CompLength |-> cur.len]
    BY <2>1, <2>2 DEF GoodResult, Sequential!RunOf, Sequential!RunType,
       Sequential!PayloadLen, Sequential!ChunkLength, RunType, PayloadLen,
       ChunkLength
  <2>6. Sequential!RunOf(Len(runs)).CompLength = cur.len
    BY <2>5
  <2>7. Sequential!Payload(Len(runs), cur.len) = Payload(Len(runs), cur.len)
    BY DEF Sequential!Payload, Payload
  <2>8. Sequential!Chunks = Chunks
    BY DEF Sequential!Chunks, Chunks
  <2>9. /\ runs' = Append(runs, Sequential!RunOf(Len(runs)))
        /\ dst' = dst \o Sequential!Payload(Len(runs), Sequential!RunOf(Len(runs)).CompLength)
        /\ dataForkLen' = dataForkLen + Sequential!RunOf(Len(runs)).CompLength
    BY <2>4, <2>5, <2>6, <2>7
  <2> QED
    BY <2>1, <2>3, <2>4, <2>8, <2>9, Zenon DEF Sequential!Emit, Sequential!Upcoming
<1>4. ASSUME Return
      PROVE  Sequential!Succeed \/ \E e \in Faults : Sequential!Fail(e)
  <2>1. /\ outcome = "none" /\ outcome' # "none"
        /\ UNCHANGED <<content, summed, dst, runs, dataForkLen, faulted>>
    BY <1>4 DEF Reported, Return, LifeInv
  <2>2. CASE outcome' = "ok"
    <3>1. SuccessIsComplete'
      BY <2>2, CompleteNext
    <3>2. /\ Len(runs) = NumChunks
          /\ \A i \in Chunks :
                content[i] # 0 => \E k \in DOMAIN summed : summed[k] = i
      BY <2>1, <2>2, <3>1 DEF SuccessIsComplete
    <3> QED BY <2>1, <2>2, <3>2 DEF Sequential!Succeed, Sequential!Chunks, Chunks
  <2>3. CASE outcome' # "ok"
    <3>1. outcome' \in Faults
      BY <2>1, <2>3 DEF FaultInv, ErrorIsReal
    <3> QED BY <2>1, <3>1 DEF Sequential!Fail
  <2> QED BY <2>2, <2>3
<1> DEFINE Shows == ReadChunk \/ Return \/ \E cur \in pending : DrainWrite(cur)
<1>5. Shows \/ UNCHANGED Sequential!vars
  <2>1. CASE Producer
    BY <2>1 DEF Producer, ReadFails, SumFails, Dispatch, TakeWorkerError, SeeDone,
       CloseJobs, workerVars, drainVars, Sequential!vars
  <2>2. ASSUME NEW w \in Workers, Worker(w)
        PROVE  UNCHANGED Sequential!vars
    BY <2>2 DEF Worker, WorkerTake, WorkerSend, WorkerFail, WorkerExit,
       producerVars, drainVars, Sequential!vars
  <2>3. CASE CloseResults
    BY <2>3 DEF CloseResults, producerVars, workerVars, drainVars, Sequential!vars
  <2>4. CASE Drain
    BY <2>4 DEF Drain, DrainReceive, DrainPause, DrainExit, DrainWriteFails,
       producerVars, workerVars, Sequential!vars
  <2>5. CASE UNCHANGED vars
    BY <2>5 DEF vars, producerVars, workerVars, drainVars, Sequential!vars
  <2> QED BY <2>1, <2>2, <2>3, <2>4, <2>5 DEF Next, Finished
<1> QED
  BY <1>1, <1>2, <1>3, <1>4, <1>5 DEF Sequential!Next, Sequential!Chunks, Chunks

\* Whatever the number of workers and however they interleave, the calls of the CRC
\* and of the writer, the table and the result are those of one loop over the
\* chunks in order: "Output is byte-identical regardless of Workers".
THEOREM Refinement == Spec => ImplementsSequential
<1>1. Init => Sequential!Init
  BY DEF Init, Sequential!Init, Contents, Sequential!Contents, Chunks, Sequential!Chunks
<1>2. Ind /\ Ind' /\ [Next]_vars => [Sequential!Next]_(Sequential!vars)
  BY StepRefines
<1> QED BY <1>1, <1>2, IndCorrect, PTL DEF Spec, ImplementsSequential, Sequential!Spec
=============================================================================
