------------------------ MODULE CompressChunksProofs ------------------------
(***************************************************************************)
(* Theorems about `compress_chunks`, for any number of workers, any list   *)
(* of distinct chunks, any thresholds and any behaviour of the callbacks.  *)
(***************************************************************************)
EXTENDS CompressChunks, TLAPS

-----------------------------------------------------------------------------
(***************************************************************************)
(* Type correctness.                                                       *)
(***************************************************************************)

(* The end of a batch lies between the cursor and the number of chunks.    *)
LEMMA BatchEndBounds ==
  ASSUME TypeOK
  PROVE  /\ BatchEnd \in 0 .. TotalChunks
         /\ read_cursor <= BatchEnd
         /\ read_cursor < TotalChunks => read_cursor < BatchEnd
  BY CompressAssumption DEF TypeOK, BatchEnd, TotalChunks

(* A batch handed over by the read callback is a sequence of hashes, of    *)
(* the length asked for.                                                   *)
LEMMA BatchIsHashes ==
  ASSUME TypeOK, NEW n \in 0 .. BatchEnd - read_cursor
  PROVE  LET batch == SubSeq(sorted_hashes, read_cursor + 1, read_cursor + n)
         IN  /\ batch \in Seq(Hash)
             /\ Len(batch) = n
             /\ \A i \in 1 .. n : batch[i] = sorted_hashes[read_cursor + i]
  <1>1. /\ read_cursor \in Nat /\ n \in Nat
        /\ read_cursor + n \in 0 .. Len(sorted_hashes)
        /\ sorted_hashes \in Seq(Hash)
    BY BatchEndBounds, CompressAssumption DEF TypeOK, TotalChunks
  <1> DEFINE batch == SubSeq(sorted_hashes, read_cursor + 1, read_cursor + n)
  <1>2. Len(batch) = n
    BY <1>1
  <1>3. \A i \in 1 .. n : batch[i] = sorted_hashes[read_cursor + i]
    BY <1>1
  <1>4. batch \in Seq(Hash)
    BY <1>1
  <1> QED
    BY <1>2, <1>3, <1>4

LEMMA TypeInit == Init => TypeOK
  BY CompressAssumption DEF Init, TypeOK, TotalChunks

LEMMA TypeStep == TypeOK /\ [Next]_vars => TypeOK'
  <1> SUFFICES ASSUME TypeOK, [Next]_vars
               PROVE  TypeOK'
    OBVIOUS
  <1> USE DEF TypeOK, channels, workers, reading, writing,
              main, ioState, IoEnd, Errors, TotalChunks
  <1>1. CASE IoReadBatch
    <2>1. ASSUME NEW n \in 0 .. BatchEnd - read_cursor,
                 pending' = SubSeq(sorted_hashes, read_cursor + 1,
                                                  read_cursor + n),
                 read_end' = BatchEnd,
                 io_pc' = IF n = 0 THEN "recv" ELSE "send",
                 UNCHANGED <<io_result, cancelled>>
          PROVE  TypeOK'
      <3>1. pending' \in Seq(Hash) /\ (n # 0 => pending' # << >>)
        BY <2>1, BatchIsHashes
      <3>2. read_end' \in 0 .. TotalChunks
        BY <2>1, BatchEndBounds
      <3>3. /\ write_cursor < TotalChunks
            /\ io_pc' \in {"send", "recv"}
            /\ io_pc' = "send" => pending' # << >>
        BY <1>1, <2>1, <3>1 DEF IoReadBatch
      <3> QED
        BY <1>1, <2>1, <3>1, <3>2, <3>3 DEF IoReadBatch
    <2>2. ASSUME NEW o \in ReadOutcomes \ {"ok", "short"},
                 cancelled' = cancelled \cup Cancelling(o, "read"),
                 IoEnd(ReadErrorOf(o)),
                 UNCHANGED <<pending, read_end>>
          PROVE  TypeOK'
      BY <1>1, <2>2 DEF IoReadBatch, Cancelling, ReadErrorOf
    <2> QED
      BY <1>1, <2>1, <2>2 DEF IoReadBatch
  <1>2. CASE IoSkipRead
    BY <1>2 DEF IoSkipRead
  <1>3. CASE IoComplete
    BY <1>3 DEF IoComplete
  <1>4. CASE IoSend
    <2>1. pending \in Seq(Hash) /\ pending # << >>
      BY <1>4 DEF IoSend
    <2>2. Head(pending) \in Hash /\ Tail(pending) \in Seq(Hash)
      BY <2>1
    <2>3. to_compress' \in Seq(Hash) /\ pending' \in Seq(Hash)
      BY <1>4, <2>2 DEF IoSend
    <2> QED
      BY <1>4, <2>3 DEF IoSend, CursorAfterSend
  <1>5. CASE IoSendClosed
    BY <1>5 DEF IoSendClosed
  <1>6. CASE IoRecv
    BY <1>6 DEF IoRecv, Buffered
  <1>7. CASE IoRecvClosed
    BY <1>7 DEF IoRecvClosed, OutcomeWhenClosed
  <1>8. CASE IoWrite
    <2>1. NextHash \in Hash /\ CompLen[NextHash] \in Nat
      BY <1>8, CompressAssumption DEF IoWrite, CanWrite
    <2>2. ASSUME UNCHANGED <<io_pc, io_result, cancelled>>,
                 blob' = Append(blob, NextHash),
                 write_cursor' = write_cursor + 1,
                 chunk_index' =
                   Append(chunk_index,
                          [hash              |-> NextHash,
                           offset            |-> offset,
                           compressed_length |-> CompLen[NextHash]]),
                 offset' = offset + CompLen[NextHash]
          PROVE  TypeOK'
      <3>1. write_cursor' \in 0 .. TotalChunks /\ offset' \in Nat
        BY <1>8, <2>1, <2>2 DEF IoWrite, CanWrite
      <3>2. blob' \in Seq(Hash) /\ chunk_index' \in Seq(Location)
        BY <2>1, <2>2 DEF Location
      <3> QED
        BY <1>8, <2>2, <3>1, <3>2 DEF IoWrite
    <2>3. ASSUME NEW o \in WriteOutcomes \ {"ok"},
                 cancelled' = cancelled \cup Cancelling(o, "write"),
                 IoEnd(WriteErrorOf(o)),
                 UNCHANGED writing
          PROVE  TypeOK'
      BY <1>8, <2>3 DEF IoWrite, Cancelling, WriteErrorOf
    <2> QED
      BY <1>8, <2>2, <2>3 DEF IoWrite
  <1>9. CASE IoDrained
    BY <1>9 DEF IoDrained
  <1>10. ASSUME NEW w \in Worker, WorkerNext(w)
         PROVE  TypeOK'
    <2>1. CASE WorkerRecv(w)
      <3>1. Head(to_compress) \in Hash /\ Tail(to_compress) \in Seq(Hash)
        BY <2>1 DEF WorkerRecv
      <3> QED
        BY <2>1, <3>1 DEF WorkerRecv
    <2>2. CASE WorkerRecvClosed(w)
      BY <2>2 DEF WorkerRecvClosed
    <2>3. CASE WorkerCompress(w)
      <3>1. job[w] \in Hash /\ job' \in [Worker -> Hash \cup {NoHash}]
        BY <2>3 DEF WorkerCompress
      <3>2. from_compress' \in Seq(Hash)
        <4>1. Append(from_compress, job[w]) \in Seq(Hash)
          BY <3>1
        <4> QED
          BY <2>3, <4>1 DEF WorkerCompress
      <3>3. /\ worker_pc' \in [Worker -> {"recv", "compress", "failed", "exited"}]
            /\ worker_pc'[w] \in {"recv", "exited"}
            /\ \A v \in Worker \ {w} : worker_pc'[v] = worker_pc[v]
                                      /\ job'[v] = job[v]
        BY <2>3 DEF WorkerCompress
      <3>4. \A v \in Worker : worker_pc'[v] \in {"compress", "failed"}
                              => job'[v] \in Hash
        BY <3>3
      <3> QED
        BY <2>3, <3>1, <3>2, <3>3, <3>4 DEF WorkerCompress
    <2>4. CASE WorkerFail(w)
      BY <2>4 DEF WorkerFail
    <2>5. CASE WorkerExit(w)
      BY <2>5 DEF WorkerExit
    <2> QED
      BY <1>10, <2>1, <2>2, <2>3, <2>4, <2>5 DEF WorkerNext
  <1>11. CASE MonitorIoFinished
    BY <1>11 DEF MonitorIoFinished
  <1>12. CASE MonitorError
    BY <1>12 DEF MonitorError
  <1>13. CASE JoinAll
    BY <1>13 DEF JoinAll
  <1>14. CASE UNCHANGED vars
    BY <1>14 DEF vars
  <1> QED
    BY <1>1, <1>2, <1>3, <1>4, <1>5, <1>6, <1>7, <1>8, <1>9, <1>10, <1>11,
       <1>12, <1>13, <1>14 DEF Next, IoNext, MainNext, Ended

(* Every variable keeps its type: in particular no cursor of the I/O       *)
(* thread ever leaves the list of chunks, which it indexes.                *)
THEOREM TypeCorrect == Spec => []TypeOK
  BY TypeInit, TypeStep, PTL DEF Spec
-----------------------------------------------------------------------------
(***************************************************************************)
(* The index and the blob.                                                 *)
(***************************************************************************)

(* Nothing but an accepted write changes the index, the blob and the       *)
(* cursor and offset that go with them.                                    *)
LEMMA OnlyWriteWrites ==
  ASSUME [Next]_vars
  PROVE  \/ UNCHANGED writing
         \/ /\ IoWrite
            /\ write_cursor < TotalChunks
            /\ blob' = Append(blob, NextHash)
            /\ write_cursor' = write_cursor + 1
            /\ chunk_index' = Append(chunk_index,
                                     [hash              |-> NextHash,
                                      offset            |-> offset,
                                      compressed_length |-> CompLen[NextHash]])
            /\ offset' = offset + CompLen[NextHash]
  <1> USE DEF writing
  <1>1. CASE IoNext
    <2>1. CASE IoWrite
      BY <2>1 DEF IoWrite, CanWrite
    <2> QED
      BY <1>1, <2>1 DEF IoNext, IoReadBatch, IoSkipRead, IoComplete, IoSend,
        IoSendClosed, IoRecv, IoRecvClosed, IoDrained
  <1>2. CASE \E w \in Worker : WorkerNext(w)
    BY <1>2 DEF WorkerNext, WorkerRecv, WorkerRecvClosed, WorkerCompress,
      WorkerFail, WorkerExit, ioState
  <1>3. CASE MainNext
    BY <1>3 DEF MainNext, MonitorIoFinished, MonitorError, JoinAll, ioState
  <1>4. CASE UNCHANGED vars
    BY <1>4 DEF vars
  <1> QED
    BY <1>1, <1>2, <1>3, <1>4 DEF Next, Ended

LEMMA IndexInit == Init => IndexLocatesBlob
  BY DEF Init, IndexLocatesBlob

LEMMA IndexStep ==
  TypeOK /\ IndexLocatesBlob /\ [Next]_vars => IndexLocatesBlob'
  <1> SUFFICES ASSUME TypeOK, IndexLocatesBlob, [Next]_vars
               PROVE  IndexLocatesBlob'
    OBVIOUS
  <1>1. CASE UNCHANGED writing
    BY <1>1 DEF IndexLocatesBlob, writing
  <1> DEFINE entry == [hash              |-> NextHash,
                       offset            |-> offset,
                       compressed_length |-> CompLen[NextHash]]
  <1>2. ASSUME write_cursor < TotalChunks,
               blob' = Append(blob, NextHash),
               write_cursor' = write_cursor + 1,
               chunk_index' = Append(chunk_index, entry),
               offset' = offset + CompLen[NextHash]
        PROVE  IndexLocatesBlob'
    <2>1. /\ write_cursor \in Nat /\ offset \in Nat
          /\ chunk_index \in Seq(Location) /\ Len(chunk_index) = write_cursor
          /\ blob \in Seq(Hash) /\ Len(blob) = write_cursor
      BY DEF TypeOK, IndexLocatesBlob
    <2>2. NextHash \in Hash /\ CompLen[NextHash] \in Nat
      BY <1>2, <2>1, CompressAssumption DEF NextHash, TotalChunks
    <2>3. entry \in Location
      BY <2>1, <2>2 DEF Location
    <2>4. /\ Len(blob') = write_cursor' /\ Len(chunk_index') = write_cursor'
          /\ blob'[write_cursor'] = NextHash
          /\ chunk_index'[write_cursor'] = entry
          /\ \A i \in 1 .. write_cursor : /\ blob'[i] = blob[i]
                                          /\ chunk_index'[i] = chunk_index[i]
      BY <1>2, <2>1, <2>2, <2>3
    <2>5. ASSUME NEW i \in 1 .. write_cursor'
          PROVE  /\ blob'[i] = sorted_hashes[i]
                 /\ chunk_index'[i].hash = sorted_hashes[i]
                 /\ chunk_index'[i].compressed_length = CompLen[sorted_hashes[i]]
                 /\ chunk_index'[i].offset =
                      IF i = 1 THEN 0
                      ELSE chunk_index'[i-1].offset
                             + chunk_index'[i-1].compressed_length
      <3>1. CASE i \in 1 .. write_cursor
        <4>1. i # 1 => i - 1 \in 1 .. write_cursor
          BY <2>1, <3>1
        <4> QED
          BY <2>4, <3>1, <4>1 DEF IndexLocatesBlob
      <3>2. CASE i = write_cursor'
        <4>1. sorted_hashes[i] = NextHash
          BY <1>2, <3>2 DEF NextHash
        <4>2. CASE write_cursor = 0
          BY <1>2, <2>4, <3>2, <4>1, <4>2 DEF IndexLocatesBlob
        <4>3. CASE write_cursor # 0
          <5>1. i # 1 /\ i - 1 = write_cursor /\ i - 1 \in 1 .. write_cursor
            BY <1>2, <2>1, <3>2, <4>3
          <5>2. offset = chunk_index[write_cursor].offset
                           + chunk_index[write_cursor].compressed_length
            BY <4>3 DEF IndexLocatesBlob
          <5>3. chunk_index'[i-1] = chunk_index[write_cursor]
            BY <2>4, <5>1
          <5>4. blob'[i] = NextHash /\ chunk_index'[i] = entry
            BY <2>4, <3>2
          <5> QED
            BY <4>1, <5>1, <5>2, <5>3, <5>4
        <4> QED
          BY <4>2, <4>3
      <3> QED
        BY <1>2, <2>1, <3>1, <3>2
    <2>6. /\ write_cursor' # 0
          /\ offset' = chunk_index'[write_cursor'].offset
                         + chunk_index'[write_cursor'].compressed_length
      BY <1>2, <2>1, <2>4
    <2> QED
      BY <2>4, <2>5, <2>6 DEF IndexLocatesBlob
  <1> QED
    BY <1>1, <1>2, OnlyWriteWrites

(* The index locates what was written, whatever order the workers finish   *)
(* in.                                                                     *)
THEOREM IndexCorrect == Spec => []IndexLocatesBlob
  <1>1. TypeOK /\ IndexLocatesBlob /\ [Next]_vars
          => (TypeOK /\ IndexLocatesBlob)'
    BY TypeStep, IndexStep
  <1> QED
    BY <1>1, TypeInit, IndexInit, PTL DEF Spec
-----------------------------------------------------------------------------
(***************************************************************************)
(* How the call ends.                                                      *)
(***************************************************************************)

(* Why a worker may have gone: the I/O thread ended, or it failed.         *)
PoolInv ==
  /\ \A w \in Worker : worker_pc[w] = "exited" => io_pc = "done" \/ w \in failed
  /\ \A w \in Worker : worker_pc[w] = "failed" => w \in failed
  /\ io_result = "WorkerError" => failed # {}

(* What the outcome of the I/O thread and of the call say of each other.   *)
CallInv ==
  /\ io_pc = "done" <=> io_result # "running"
  /\ "read" \in cancelled <=> io_result = "Cancelled"
  /\ io_result = "Ok" => write_cursor = TotalChunks
  /\ main_pc = "join" => io_pc = "done"
  /\ main_pc # "returned" <=> result = "running"
  /\ main_pc = "returned" =>
       \/ result = "CompressError" /\ failed # {}
       \/ result = io_result /\ io_pc = "done" /\ PoolGone

(* A pool that has gone while the I/O thread runs has failed.              *)
LEMMA PoolGoneFailed ==
  ASSUME PoolInv, PoolGone, io_pc # "done"
  PROVE  failed # {}
  BY CompressAssumption DEF PoolInv, PoolGone

LEMMA CallInit == Init => PoolInv /\ CallInv
  BY CompressAssumption DEF Init, PoolInv, CallInv, TotalChunks

LEMMA PoolStep == TypeOK /\ PoolInv /\ [Next]_vars => PoolInv'
  <1> SUFFICES ASSUME TypeOK, PoolInv, [Next]_vars
               PROVE  PoolInv'
    OBVIOUS
  <1> USE DEF PoolInv, workers, main, ioState, IoEnd
  <1>1. CASE IoNext
    <2>1. UNCHANGED workers /\ io_pc # "done"
      BY <1>1 DEF IoNext, IoReadBatch, IoSkipRead, IoComplete, IoSend,
        IoSendClosed, IoRecv, IoRecvClosed, IoWrite, IoDrained
    <2>2. io_result' = "WorkerError" =>
            io_result = "WorkerError" \/ PoolGone
      BY <1>1 DEF IoNext, IoReadBatch, IoSkipRead, IoComplete, IoSend,
        IoSendClosed, IoRecv, IoRecvClosed, IoWrite, IoDrained, ReadErrorOf,
        WriteErrorOf
    <2> QED
      BY <2>1, <2>2, PoolGoneFailed
  <1>2. ASSUME NEW w \in Worker, WorkerNext(w)
        PROVE  PoolInv'
    <2> USE DEF TypeOK
    <2>1. CASE WorkerRecv(w)
      BY <2>1 DEF WorkerRecv
    <2>2. CASE WorkerRecvClosed(w)
      BY <2>2 DEF WorkerRecvClosed, SenderDropped
    <2>3. CASE WorkerCompress(w)
      BY <2>3 DEF WorkerCompress
    <2>4. CASE WorkerFail(w)
      BY <2>4 DEF WorkerFail
    <2>5. CASE WorkerExit(w)
      BY <2>5 DEF WorkerExit
    <2> QED
      BY <1>2, <2>1, <2>2, <2>3, <2>4, <2>5 DEF WorkerNext
  <1>3. CASE MainNext \/ UNCHANGED vars
    BY <1>3 DEF MainNext, MonitorIoFinished, MonitorError, JoinAll, vars
  <1> QED
    BY <1>1, <1>2, <1>3 DEF Next, Ended

LEMMA CallStep == TypeOK /\ CallInv /\ [Next]_vars => CallInv'
  <1> SUFFICES ASSUME TypeOK, CallInv, [Next]_vars
               PROVE  CallInv'
    OBVIOUS
  <1> USE DEF CallInv, reading, writing, main, IoEnd
  <1>1. CASE IoNext
    <2> USE DEF workers, PoolGone, TypeOK
    <2>1. CASE IoReadBatch
      BY <2>1 DEF IoReadBatch, ReadErrorOf, Cancelling
    <2>2. CASE IoWrite
      BY <2>2 DEF IoWrite, WriteErrorOf, Cancelling, CanWrite
    <2>3. CASE IoRecvClosed
      BY <2>3 DEF IoRecvClosed, OutcomeWhenClosed
    <2>4. CASE IoSendClosed
      BY <2>4 DEF IoSendClosed
    <2>5. CASE IoComplete
      BY <2>5 DEF IoComplete
    <2>6. CASE IoSkipRead \/ IoSend \/ IoRecv \/ IoDrained
      BY <2>6 DEF IoSkipRead, IoSend, IoRecv, IoDrained
    <2> QED
      BY <1>1, <2>1, <2>2, <2>3, <2>4, <2>5, <2>6 DEF IoNext
  <1>2. ASSUME NEW w \in Worker, WorkerNext(w)
        PROVE  CallInv'
    <2>1. UNCHANGED <<ioState, main>> /\ worker_pc[w] # "exited"
      BY <1>2 DEF WorkerNext, WorkerRecv, WorkerRecvClosed, WorkerCompress,
        WorkerFail, WorkerExit
    <2>2. failed' = failed \/ failed' = failed \cup {w}
      BY <1>2 DEF WorkerNext, WorkerRecv, WorkerRecvClosed, WorkerCompress,
        WorkerFail, WorkerExit
    <2> QED
      BY <2>1, <2>2 DEF ioState, PoolGone
  <1>3. CASE MainNext
    <2> USE DEF workers, ioState, PoolGone, TypeOK
    <2>1. CASE MonitorIoFinished
      BY <2>1 DEF MonitorIoFinished
    <2>2. CASE MonitorError
      BY <2>2 DEF MonitorError, ErrorPending
    <2>3. CASE JoinAll
      BY <2>3 DEF JoinAll
    <2> QED
      BY <1>3, <2>1, <2>2, <2>3 DEF MainNext
  <1>4. CASE UNCHANGED vars
    BY <1>4 DEF vars, workers, PoolGone
  <1> QED
    BY <1>1, <1>2, <1>3, <1>4 DEF Next, Ended

LEMMA CallInvariant == Spec => [](TypeOK /\ PoolInv /\ CallInv)
  <1>1. TypeOK /\ PoolInv /\ CallInv /\ [Next]_vars
          => (TypeOK /\ PoolInv /\ CallInv)'
    BY TypeStep, PoolStep, CallStep
  <1> QED
    BY <1>1, TypeInit, CallInit, PTL DEF Spec

(* The pool is reported lost only if a compression really failed.          *)
THEOREM WorkerErrorCaused == Spec => []WorkerErrorHasCause
  <1>1. PoolInv => WorkerErrorHasCause
    BY DEF PoolInv, WorkerErrorHasCause
  <1> QED
    BY <1>1, CallInvariant, PTL

(* Cancellation by the read callback is reported, and never invented.      *)
THEOREM ReadCancelCorrect == Spec => []ReadCancelReported
  <1>1. TypeOK /\ CallInv => ReadCancelReported
    BY DEF TypeOK, CallInv, ReadCancelReported
  <1> QED
    BY <1>1, CallInvariant, PTL
-----------------------------------------------------------------------------
(***************************************************************************)
(* Refinement: compress_chunks implements the sequential writer of         *)
(* ChunkBlob.                                                              *)
(***************************************************************************)

LEMMA BlobInit == Init => Blob!Init
  BY DEF Init, Blob!Init, WriterOutcome

(* The offset kept by the I/O thread is the end of the abstract index.     *)
LEMMA OffsetIsEnd ==
  ASSUME TypeOK, IndexLocatesBlob
  PROVE  offset = Blob!EndOf(chunk_index)
  BY DEF TypeOK, IndexLocatesBlob, Blob!EndOf

LEMMA BlobStep ==
  ASSUME TypeOK, IndexLocatesBlob, CallInv, [Next]_vars
  PROVE  [Blob!Next]_(Blob!blobVars)
  <1> USE DEF Blob!Next, Blob!blobVars, WriterOutcome
  <1>1. CASE IoNext
    <2>1. UNCHANGED result
      BY <1>1 DEF IoNext, IoReadBatch, IoSkipRead, IoComplete, IoSend,
        IoSendClosed, IoRecv, IoRecvClosed, IoWrite, IoDrained, main
    <2>2. CASE UNCHANGED writing
      BY <2>1, <2>2 DEF writing
    <2>3. CASE ~ UNCHANGED writing
      <3>1. /\ IoWrite
            /\ write_cursor < TotalChunks
            /\ blob' = Append(blob, NextHash)
            /\ chunk_index' = Append(chunk_index,
                                     [hash              |-> NextHash,
                                      offset            |-> offset,
                                      compressed_length |-> CompLen[NextHash]])
        BY <2>3, OnlyWriteWrites
      <3>2. WriterOutcome = "running"
        BY <3>1 DEF CallInv, IoWrite
      <3>3. Len(blob) = write_cursor
        BY DEF IndexLocatesBlob
      <3> QED
        BY <2>1, <3>1, <3>2, <3>3, OffsetIsEnd
          DEF Blob!WriteNext, NextHash, TotalChunks
    <2> QED
      BY <2>2, <2>3
  <1>2. CASE \E w \in Worker : WorkerNext(w)
    BY <1>2 DEF WorkerNext, WorkerRecv, WorkerRecvClosed, WorkerCompress,
      WorkerFail, WorkerExit, ioState, writing, main
  <1>3. CASE JoinAll
    <2>1. /\ result = "running" /\ result' = io_result
          /\ UNCHANGED <<blob, chunk_index>>
          /\ io_result # "running"
      BY <1>3 DEF JoinAll, CallInv, ioState, writing
    <2>2. CASE io_result = "Ok"
      <3>1. Len(blob) = Len(sorted_hashes)
        BY <2>2 DEF CallInv, IndexLocatesBlob, TotalChunks
      <3> QED
        BY <2>1, <2>2, <3>1 DEF Blob!Succeed
    <2>3. CASE io_result \in Errors
      BY <2>1, <2>3 DEF Blob!Fail, Errors
    <2> QED
      BY <2>1, <2>2, <2>3 DEF TypeOK
  <1>4. CASE MonitorIoFinished \/ MonitorError
    BY <1>4 DEF MonitorIoFinished, MonitorError, CallInv, ioState, writing
  <1>5. CASE UNCHANGED vars
    BY <1>5 DEF vars, writing, main
  <1> QED
    BY <1>1, <1>2, <1>3, <1>4, <1>5 DEF Next, MainNext, Ended

(* The threads implement the sequential writer: chunks in order, each at   *)
(* the offset the index gives, nothing after the call has ended, Ok only   *)
(* for the whole.                                                          *)
THEOREM ImplementsBlob == Spec => BlobSpec
  <1> DEFINE Inv == TypeOK /\ IndexLocatesBlob /\ PoolInv /\ CallInv
  <1>1. Init => Inv /\ Blob!Init
    BY TypeInit, IndexInit, CallInit, BlobInit
  <1>2. Inv /\ [Next]_vars => Inv'
    BY TypeStep, IndexStep, PoolStep, CallStep
  <1>3. Inv /\ [Next]_vars => [Blob!Next]_(Blob!blobVars)
    BY BlobStep
  <1> QED
    BY <1>1, <1>2, <1>3, PTL DEF Spec, BlobSpec, Blob!Spec

(* After the return neither callback is called, unless a compression       *)
(* failed.                                                                 *)
THEOREM QuietUnlessFailed == Spec => QuietAfterReturn
  <1>1. TypeOK /\ CallInv /\ [Next]_vars
          => [main_pc = "returned" /\ failed = {} => ~ (IoReadBatch \/ IoWrite)]_vars
    BY DEF CallInv, IoReadBatch, IoWrite
  <1> QED
    BY <1>1, CallInvariant, PTL DEF Spec, QuietAfterReturn
-----------------------------------------------------------------------------
(***************************************************************************)
(* Where the chunks are.                                                   *)
(***************************************************************************)

LEMMA ElemsAppend ==
  ASSUME NEW S, NEW s \in Seq(S), NEW x \in S
  PROVE  /\ Elems(Append(s, x)) = Elems(s) \cup {x}
         /\ Distinct(s) /\ x \notin Elems(s) => Distinct(Append(s, x))
  <1> DEFINE t == Append(s, x)
  <1>1. /\ DOMAIN s = 1 .. Len(s) /\ DOMAIN t = 1 .. Len(s) + 1
        /\ Len(s) \in Nat
        /\ t[Len(s) + 1] = x
        /\ \A i \in 1 .. Len(s) : t[i] = s[i]
    OBVIOUS
  <1>2. Elems(t) = Elems(s) \cup {x}
    BY <1>1 DEF Elems
  <1>3. ASSUME Distinct(s), x \notin Elems(s),
               NEW i \in DOMAIN t, NEW j \in DOMAIN t, t[i] = t[j]
        PROVE  i = j
    BY <1>1, <1>3 DEF Elems, Distinct
  <1> QED
    BY <1>2, <1>3 DEF Distinct

LEMMA ElemsTail ==
  ASSUME NEW S, NEW s \in Seq(S), s # << >>
  PROVE  /\ Elems(s) = {Head(s)} \cup Elems(Tail(s))
         /\ Distinct(s) => /\ Distinct(Tail(s))
                           /\ Head(s) \notin Elems(Tail(s))
  <1> DEFINE t == Tail(s)
  <1>1. /\ Len(s) \in Nat /\ Len(s) # 0
        /\ DOMAIN s = 1 .. Len(s) /\ DOMAIN t = 1 .. Len(s) - 1
        /\ Head(s) = s[1]
        /\ \A i \in 1 .. Len(s) - 1 : t[i] = s[i + 1]
    OBVIOUS
  <1>2. Elems(s) = {Head(s)} \cup Elems(t)
    <2>1. ASSUME NEW i \in DOMAIN s
          PROVE  s[i] \in {Head(s)} \cup Elems(t)
      <3>1. CASE i = 1
        BY <1>1, <3>1
      <3>2. CASE i # 1
        <4>1. i - 1 \in DOMAIN t /\ t[i - 1] = s[i]
          BY <1>1, <2>1, <3>2
        <4> QED
          BY <4>1 DEF Elems
      <3> QED
        BY <3>1, <3>2
    <2>2. ASSUME NEW i \in DOMAIN t
          PROVE  t[i] \in Elems(s)
      <3>1. i + 1 \in DOMAIN s /\ t[i] = s[i + 1]
        BY <1>1, <2>2
      <3> QED
        BY <3>1 DEF Elems
    <2>3. Head(s) \in Elems(s)
      BY <1>1 DEF Elems
    <2> QED
      BY <2>1, <2>2, <2>3 DEF Elems
  <1>3. ASSUME Distinct(s)
        PROVE  Distinct(t) /\ Head(s) \notin Elems(t)
    <2>1. ASSUME NEW i \in DOMAIN t
          PROVE  i + 1 \in DOMAIN s /\ t[i] = s[i + 1] /\ 1 \in DOMAIN s
      BY <1>1, <2>1
    <2>2. ASSUME NEW i \in DOMAIN t, NEW j \in DOMAIN t, t[i] = t[j]
          PROVE  i = j
      <3>1. i + 1 = j + 1
        BY <1>3, <2>1, <2>2 DEF Distinct
      <3> QED
        BY <1>1, <3>1
    <2>3. ASSUME NEW i \in DOMAIN t
          PROVE  t[i] # Head(s)
      <3>1. 1 # i + 1
        BY <1>1, <2>3
      <3> QED
        BY <1>1, <1>3, <2>1, <3>1 DEF Distinct
    <2> QED
      BY <2>2, <2>3 DEF Distinct, Elems
  <1> QED
    BY <1>2, <1>3

(* How far into sorted_hashes the read callback has been asked.            *)
Front == IF pending = << >> THEN read_cursor ELSE read_end

(* The chunks the workers have been given.                                 *)
Placed == Elems(to_compress) \cup Held \cup Elems(from_compress)
            \cup reordering_buffer \cup Elems(blob)

(* Chunks are where ChunkInOnePlace says, none comes from beyond Front,    *)
(* and a failed worker keeps the chunk that failed.                        *)
PlaceInv ==
  /\ ChunkInOnePlace
  /\ \A h \in Elems(pending) \cup Placed :
       \E i \in 1 .. Front : h = sorted_hashes[i]
  /\ io_pc \notin {"send", "done"} => pending = << >>
  /\ \A w \in failed : worker_pc[w] \in {"failed", "exited"} /\ job[w] \in Hash

LEMMA PlaceInit == Init => PlaceInv
  <1> SUFFICES ASSUME Init
               PROVE  PlaceInv
    OBVIOUS
  <1>1. Held = {}
    BY DEF Init, Held
  <1>2. Elems(<< >>) = {} /\ Distinct(<< >>)
    BY DEF Elems, Distinct
  <1> QED
    BY <1>1, <1>2 DEF Init, PlaceInv, ChunkInOnePlace, Placed

(* A new batch shares no chunk with what was read before, and lists none   *)
(* twice.                                                                  *)
LEMMA BatchIsNew ==
  ASSUME TypeOK, PlaceInv, pending = << >>,
         NEW n \in 0 .. BatchEnd - read_cursor,
         NEW batch \in Seq(Hash), Len(batch) = n,
         \A i \in 1 .. n : batch[i] = sorted_hashes[read_cursor + i]
  PROVE  /\ Distinct(batch)
         /\ Elems(batch) \cap Placed = {}
         /\ \A h \in Elems(batch) :
              \E i \in 1 .. BatchEnd : h = sorted_hashes[i]
         /\ n = 0 <=> batch = << >>
  <1>1. /\ read_cursor \in Nat /\ n \in Nat
        /\ BatchEnd \in Nat /\ read_cursor + n <= BatchEnd
        /\ TotalChunks \in Nat /\ BatchEnd <= TotalChunks
    BY BatchEndBounds, CompressAssumption DEF TypeOK, TotalChunks
  <1>2. /\ DOMAIN batch = 1 .. n
        /\ \A i \in 1 .. n : batch[i] = sorted_hashes[read_cursor + i]
    OBVIOUS
  <1>3. \A i, j \in 1 .. TotalChunks :
          sorted_hashes[i] = sorted_hashes[j] => i = j
    BY CompressAssumption
  <1>4. ASSUME NEW i \in 1 .. n
        PROVE  /\ read_cursor + i \in 1 .. BatchEnd
               /\ read_cursor + i \in 1 .. TotalChunks
               /\ \A k \in 1 .. read_cursor : k \in 1 .. TotalChunks
               /\ read_cursor + i \notin 1 .. read_cursor
    BY <1>1, <1>4
  <1>5. Distinct(batch)
    <2>1. ASSUME NEW i \in 1 .. n, NEW j \in 1 .. n, batch[i] = batch[j]
          PROVE  i = j
      <3>1. read_cursor + i = read_cursor + j
        BY <1>2, <1>3, <1>4, <2>1
      <3> QED
        BY <1>1, <3>1
    <2> QED
      BY <1>2, <2>1 DEF Distinct
  <1>6. ASSUME NEW i \in 1 .. n
        PROVE  batch[i] \notin Placed
    <2>1. ASSUME batch[i] \in Placed
          PROVE  FALSE
      <3>1. PICK k \in 1 .. read_cursor : batch[i] = sorted_hashes[k]
        <4>1. Front = read_cursor
          BY DEF Front
        <4>2. \A h \in Placed : \E j \in 1 .. Front : h = sorted_hashes[j]
          BY DEF PlaceInv
        <4> QED
          BY <2>1, <4>1, <4>2
      <3>2. k = read_cursor + i
        BY <1>2, <1>3, <1>4, <3>1
      <3> QED
        BY <1>4, <3>1, <3>2
    <2> QED
      BY <2>1
  <1>7. n = 0 <=> batch = << >>
    OBVIOUS
  <1>8. \A h \in Elems(batch) : \E i \in 1 .. n : h = batch[i]
    BY <1>2 DEF Elems
  <1>9. \A h \in Elems(batch) : \E i \in 1 .. BatchEnd : h = sorted_hashes[i]
    <2> TAKE h \in Elems(batch)
    <2>1. PICK i \in 1 .. n : h = batch[i]
      BY <1>8
    <2>2. read_cursor + i \in 1 .. BatchEnd /\ h = sorted_hashes[read_cursor + i]
      BY <1>2, <1>4, <2>1
    <2> QED
      BY <2>2
  <1> QED
    BY <1>5, <1>6, <1>7, <1>8, <1>9

LEMMA PlaceStep == TypeOK /\ PlaceInv /\ [Next]_vars => PlaceInv'
  <1> SUFFICES ASSUME TypeOK, PlaceInv, [Next]_vars
               PROVE  PlaceInv'
    OBVIOUS
  <1>1. CASE IoReadBatch
    <2>1. /\ pending = << >> /\ io_pc = "top"
          /\ UNCHANGED <<to_compress, from_compress, workers, read_cursor,
                         blob, reordering_buffer>>
      BY <1>1 DEF IoReadBatch, PlaceInv, channels, writing
    <2>2. Held' = Held /\ Placed' = Placed
      BY <2>1 DEF Held, Placed, workers
    <2>3. CASE UNCHANGED pending /\ io_pc' = "done"
      BY <2>1, <2>2, <2>3 DEF PlaceInv, ChunkInOnePlace, Front, workers
    <2>4. ASSUME NEW n \in 0 .. BatchEnd - read_cursor,
                 pending' = SubSeq(sorted_hashes, read_cursor + 1,
                                                  read_cursor + n),
                 read_end' = BatchEnd,
                 io_pc' = IF n = 0 THEN "recv" ELSE "send"
          PROVE  PlaceInv'
      <3>1. /\ pending' \in Seq(Hash) /\ Len(pending') = n
            /\ \A i \in 1 .. n : pending'[i] = sorted_hashes[read_cursor + i]
        BY <2>4, BatchIsHashes
      <3>2. /\ Distinct(pending')
            /\ Elems(pending') \cap Placed = {}
            /\ \A h \in Elems(pending') :
                 \E i \in 1 .. BatchEnd : h = sorted_hashes[i]
            /\ n = 0 <=> pending' = << >>
        BY <2>1, <3>1, BatchIsNew
      <3>3. Front = read_cursor /\ Front' \in {read_cursor, BatchEnd}
        BY <2>1, <2>4 DEF Front
      <3>4. ASSUME NEW h \in Elems(pending') \cup Placed
            PROVE  \E i \in 1 .. Front' : h = sorted_hashes[i]
        <4>1. CASE n = 0
          <5>1. Elems(pending') = {} /\ Front' = Front
            BY <2>1, <3>2, <3>3, <4>1 DEF Elems, Front
          <5> QED
            BY <3>4, <5>1 DEF PlaceInv
        <4>2. CASE n # 0
          <5>1. Front' = BatchEnd
            BY <2>4, <3>2, <4>2 DEF Front
          <5>2. 1 .. read_cursor \subseteq 1 .. BatchEnd
            BY BatchEndBounds DEF TypeOK
          <5>3. \A g \in Placed : \E i \in 1 .. read_cursor : g = sorted_hashes[i]
            BY <3>3 DEF PlaceInv
          <5> QED
            BY <3>2, <3>4, <5>1, <5>2, <5>3
        <4> QED
          BY <4>1, <4>2
      <3>5. ChunkInOnePlace'
        BY <2>1, <2>2, <3>2 DEF PlaceInv, ChunkInOnePlace, Placed, workers
      <3>6. io_pc' \notin {"send", "done"} => pending' = << >>
        BY <2>4, <3>2
      <3> QED
        BY <2>1, <2>2, <3>4, <3>5, <3>6 DEF PlaceInv, workers
    <2> QED
      BY <1>1, <2>3, <2>4 DEF IoReadBatch, IoEnd
  <1>2. CASE IoSend
    <2>1. /\ pending \in Seq(Hash) /\ pending # << >>
          /\ pending' = Tail(pending)
          /\ to_compress \in Seq(Hash)
          /\ to_compress' = Append(to_compress, Head(pending))
          /\ Head(pending) \in Hash
          /\ UNCHANGED <<from_compress, workers, blob, reordering_buffer>>
          /\ read_cursor' = read_end /\ read_end' = read_end
          /\ io_pc = "send"
          /\ io_pc' = IF Tail(pending) = << >> THEN "recv" ELSE "send"
      BY <1>2 DEF IoSend, TypeOK, CursorAfterSend, writing
    <2>2. /\ Elems(pending) = {Head(pending)} \cup Elems(pending')
          /\ Elems(to_compress') = Elems(to_compress) \cup {Head(pending)}
      BY <2>1, ElemsTail, ElemsAppend
    <2>3. /\ Distinct(pending)
          /\ Distinct(pending') /\ Head(pending) \notin Elems(pending')
          /\ Head(pending) \notin Placed
          /\ Distinct(to_compress')
      <3>1. /\ Distinct(pending) /\ Distinct(to_compress)
            /\ Elems(pending) \cap Placed = {}
        BY DEF PlaceInv, ChunkInOnePlace, Placed
      <3>2. Head(pending) \notin Placed /\ Head(pending) \notin Elems(to_compress)
        BY <2>2, <3>1 DEF Placed
      <3> QED
        BY <2>1, <3>1, <3>2, ElemsTail, ElemsAppend
    <2>4. Held' = Held
      BY <2>1 DEF Held, workers
    <2>5. ChunkInOnePlace'
      BY <2>1, <2>2, <2>3, <2>4
        DEF PlaceInv, ChunkInOnePlace, Placed, workers
    <2>6. Front' = Front
      BY <2>1 DEF Front
    <2>7. (Elems(pending) \cup Placed)' = Elems(pending) \cup Placed
      BY <2>1, <2>2, <2>4 DEF Placed
    <2>8. io_pc' \notin {"send", "done"} => pending' = << >>
      BY <2>1
    <2> QED
      BY <2>1, <2>5, <2>6, <2>7, <2>8 DEF PlaceInv, workers
  <1>3. CASE IoRecv
    <2>1. /\ from_compress \in Seq(Hash) /\ from_compress # << >>
          /\ from_compress' = Tail(from_compress)
          /\ reordering_buffer' = reordering_buffer \cup {Head(from_compress)}
          /\ UNCHANGED <<to_compress, workers, reading, blob>>
          /\ io_pc \notin {"send", "done"}
      BY <1>3 DEF IoRecv, TypeOK, Buffered, writing
    <2>2. /\ Elems(from_compress) = {Head(from_compress)} \cup Elems(from_compress')
          /\ Distinct(from_compress')
          /\ Head(from_compress) \notin Elems(from_compress')
      BY <2>1, ElemsTail DEF PlaceInv, ChunkInOnePlace
    <2>3. Held' = Held
      BY <2>1 DEF Held, workers
    <2>4. ChunkInOnePlace'
      BY <2>1, <2>2, <2>3 DEF PlaceInv, ChunkInOnePlace, workers, reading
    <2>5. Placed' = Placed /\ Front' = Front
      BY <2>1, <2>2, <2>3 DEF Placed, Front, reading
    <2> QED
      BY <2>1, <2>4, <2>5 DEF PlaceInv, workers, reading
  <1>4. CASE IoWrite
    <2>1. /\ UNCHANGED <<to_compress, from_compress, workers, reading>>
          /\ NextHash \in reordering_buffer /\ NextHash \in Hash
          /\ reordering_buffer' = reordering_buffer \ {NextHash}
          /\ blob \in Seq(Hash)
          /\ blob' = blob \/ blob' = Append(blob, NextHash)
          /\ io_pc = "drain"
      BY <1>4 DEF IoWrite, TypeOK, CanWrite, channels, writing
    <2>2. /\ Elems(blob') \subseteq Elems(blob) \cup {NextHash}
          /\ Distinct(blob')
      <3>1. Distinct(blob) /\ NextHash \notin Elems(blob)
        BY <2>1 DEF PlaceInv, ChunkInOnePlace
      <3>2. /\ Elems(Append(blob, NextHash)) = Elems(blob) \cup {NextHash}
            /\ Distinct(Append(blob, NextHash))
        BY <2>1, <3>1, ElemsAppend
      <3> QED
        BY <2>1, <3>1, <3>2 DEF Elems, Distinct
    <2>3. Held' = Held
      BY <2>1 DEF Held, workers
    <2>4. ChunkInOnePlace'
      BY <2>1, <2>2, <2>3 DEF PlaceInv, ChunkInOnePlace, workers, reading
    <2>5. Placed' \subseteq Placed /\ Front' = Front
      BY <2>1, <2>2, <2>3 DEF Placed, Front, reading
    <2> QED
      BY <2>1, <2>4, <2>5 DEF PlaceInv, workers, reading
  <1>5. CASE \/ IoSkipRead \/ IoComplete \/ IoSendClosed \/ IoRecvClosed
             \/ IoDrained \/ MainNext \/ UNCHANGED vars
    <2>1. /\ UNCHANGED <<to_compress, from_compress, workers, reading, blob,
                         reordering_buffer>>
          /\ io_pc' \in {"send", "done"} \/ io_pc \notin {"send", "done"}
      BY <1>5 DEF IoSkipRead, IoComplete, IoSendClosed, IoRecvClosed, IoDrained,
        MainNext, MonitorIoFinished, MonitorError, JoinAll, IoEnd, vars,
        ioState, channels, writing, TypeOK
    <2>2. Held' = Held
      BY <2>1 DEF Held, workers
    <2>3. Placed' = Placed /\ Front' = Front
      BY <2>1, <2>2 DEF Placed, Front, reading
    <2> QED
      BY <2>1, <2>2, <2>3 DEF PlaceInv, ChunkInOnePlace, workers, reading
  <1>6. ASSUME NEW w \in Worker, WorkerNext(w)
        PROVE  PlaceInv'
    <2>1. /\ UNCHANGED <<io_pc, reading, blob, reordering_buffer>>
          /\ Front' = Front
      BY <1>6 DEF WorkerNext, WorkerRecv, WorkerRecvClosed, WorkerCompress,
        WorkerFail, WorkerExit, ioState, writing, Front, reading
    <2>2. CASE WorkerRecv(w)
      <3> DEFINE h == Head(to_compress)
      <3>1. /\ to_compress \in Seq(Hash) /\ to_compress # << >>
            /\ to_compress' = Tail(to_compress)
            /\ job' = [job EXCEPT ![w] = h] /\ job \in [Worker -> Hash \cup {NoHash}]
            /\ UNCHANGED <<from_compress, failed>>
            /\ worker_pc[w] = "recv"
            /\ \A v \in Worker \ {w} : worker_pc'[v] = worker_pc[v]
        BY <2>2 DEF WorkerRecv, TypeOK
      <3>2. /\ Elems(to_compress) = {h} \cup Elems(to_compress')
            /\ Distinct(to_compress') /\ h \notin Elems(to_compress')
        BY <3>1, ElemsTail DEF PlaceInv, ChunkInOnePlace
      <3>3. Held' \subseteq Held \cup {h}
        BY <3>1 DEF Held
      <3>4. h \notin Held
        BY <3>2 DEF PlaceInv, ChunkInOnePlace
      <3>5. \A u, v \in Worker : job'[u] = job'[v] /\ job'[u] # NoHash => u = v
        <4>1. \A v \in Worker : job[v] # h \/ job[v] = NoHash
          BY <3>4 DEF Held
        <4>2. h # NoHash
          BY <3>1, CompressAssumption
        <4> QED
          BY <3>1, <4>1, <4>2 DEF PlaceInv, ChunkInOnePlace
      <3>6. ChunkInOnePlace'
        BY <2>1, <3>1, <3>2, <3>3, <3>5 DEF PlaceInv, ChunkInOnePlace, reading
      <3>7. Placed' \subseteq Placed
        BY <2>1, <3>1, <3>2, <3>3 DEF Placed
      <3>8. \A v \in failed' : worker_pc'[v] \in {"failed", "exited"}
                               /\ job'[v] \in Hash
        BY <3>1 DEF PlaceInv, TypeOK
      <3> QED
        BY <2>1, <3>6, <3>7, <3>8 DEF PlaceInv, reading
    <2>3. CASE WorkerCompress(w)
      <3>1. /\ job[w] \in Hash /\ job[w] # NoHash
            /\ job' = [job EXCEPT ![w] = NoHash]
            /\ job \in [Worker -> Hash \cup {NoHash}]
            /\ from_compress \in Seq(Hash)
            /\ UNCHANGED <<to_compress, failed>>
            /\ worker_pc[w] = "compress"
            /\ \A v \in Worker \ {w} : worker_pc'[v] = worker_pc[v]
        BY <2>3, CompressAssumption DEF WorkerCompress, TypeOK
      <3>2. \/ from_compress' = from_compress
            \/ from_compress' = Append(from_compress, job[w])
        BY <2>3 DEF WorkerCompress
      <3>3. job[w] \in Held /\ Held' \subseteq Held /\ job[w] \notin Held'
        BY <3>1 DEF Held, PlaceInv, ChunkInOnePlace
      <3>4. /\ Elems(from_compress') \subseteq Elems(from_compress) \cup {job[w]}
            /\ Distinct(from_compress')
        <4>1. Distinct(from_compress) /\ job[w] \notin Elems(from_compress)
          BY <3>3 DEF PlaceInv, ChunkInOnePlace
        <4>2. /\ Elems(Append(from_compress, job[w]))
                   = Elems(from_compress) \cup {job[w]}
              /\ Distinct(Append(from_compress, job[w]))
          BY <3>1, <4>1, ElemsAppend
        <4> QED
          BY <3>2, <4>1, <4>2 DEF Elems, Distinct
      <3>5. \A u, v \in Worker : job'[u] = job'[v] /\ job'[u] # NoHash => u = v
        BY <3>1 DEF PlaceInv, ChunkInOnePlace
      <3>6. ChunkInOnePlace'
        BY <2>1, <3>1, <3>3, <3>4, <3>5
          DEF PlaceInv, ChunkInOnePlace, reading
      <3>7. Placed' \subseteq Placed
        BY <2>1, <3>1, <3>3, <3>4 DEF Placed
      <3>8. \A v \in failed' : worker_pc'[v] \in {"failed", "exited"}
                               /\ job'[v] \in Hash
        BY <3>1 DEF PlaceInv, TypeOK
      <3> QED
        BY <2>1, <3>6, <3>7, <3>8 DEF PlaceInv, reading
    <2>4. CASE WorkerFail(w) \/ WorkerExit(w) \/ WorkerRecvClosed(w)
      <3>1. /\ UNCHANGED <<to_compress, from_compress, job>>
            /\ \A v \in failed' : worker_pc'[v] \in {"failed", "exited"}
                                  /\ job'[v] \in Hash
        BY <2>4 DEF WorkerFail, WorkerExit, WorkerRecvClosed, PlaceInv, TypeOK,
          channels
      <3>2. Held' = Held
        BY <3>1 DEF Held
      <3>3. Placed' = Placed
        BY <2>1, <3>1, <3>2 DEF Placed
      <3> QED
        BY <2>1, <3>1, <3>2, <3>3 DEF PlaceInv, ChunkInOnePlace, reading
    <2> QED
      BY <1>6, <2>2, <2>3, <2>4 DEF WorkerNext
  <1> QED
    BY <1>1, <1>2, <1>3, <1>4, <1>5, <1>6 DEF Next, IoNext, Ended

LEMMA PlaceInvariant == Spec => []PlaceInv
  <1>1. TypeOK /\ PlaceInv /\ [Next]_vars => (TypeOK /\ PlaceInv)'
    BY TypeStep, PlaceStep
  <1> QED
    BY <1>1, TypeInit, PlaceInit, PTL DEF Spec

(* No chunk is ever in two places.                                         *)
THEOREM ChunksInOnePlace == Spec => []ChunkInOnePlace
  <1>1. PlaceInv => ChunkInOnePlace
    BY DEF PlaceInv
  <1> QED
    BY <1>1, PlaceInvariant, PTL

(* Ok means that everything was written, no compression failed and every   *)
(* thread has ended: a failed worker would still hold a chunk that the     *)
(* complete blob contains.                                                 *)
THEOREM SuccessComplete == Spec => []SuccessIsComplete
  <1>1. ASSUME TypeOK, IndexLocatesBlob, CallInv, PlaceInv, result = "Ok"
        PROVE  blob = sorted_hashes /\ failed = {} /\ AllEnded
    <2>1. /\ main_pc = "returned" /\ io_pc = "done" /\ PoolGone
          /\ write_cursor = TotalChunks
      BY <1>1 DEF CallInv
    <2>2. blob = sorted_hashes
      <3>1. /\ blob \in Seq(Hash) /\ sorted_hashes \in Seq(Hash)
            /\ Len(blob) = Len(sorted_hashes)
            /\ \A i \in 1 .. Len(blob) : blob[i] = sorted_hashes[i]
        BY <1>1, <2>1, CompressAssumption
          DEF TypeOK, IndexLocatesBlob, TotalChunks
      <3> QED
        BY <3>1
    <2>3. ASSUME NEW w \in failed
          PROVE  FALSE
      <3>1. w \in Worker /\ job[w] \in Hash /\ job[w] # NoHash
        BY <1>1, <2>3, CompressAssumption DEF TypeOK, PlaceInv
      <3>2. job[w] \in Held
        BY <3>1 DEF Held
      <3>3. job[w] \notin Elems(blob)
        BY <1>1, <3>2 DEF PlaceInv, ChunkInOnePlace
      <3>4. \A h \in Placed : \E i \in 1 .. Front : h = sorted_hashes[i]
        BY <1>1 DEF PlaceInv
      <3>5. PICK i \in 1 .. Front : job[w] = sorted_hashes[i]
        BY <3>2, <3>4 DEF Placed
      <3>6. i \in 1 .. Len(blob) /\ Front \in 0 .. TotalChunks
        BY <1>1, <2>1, <3>5 DEF Front, TypeOK, IndexLocatesBlob
      <3>7. i \in DOMAIN blob
        BY <1>1, <3>6 DEF TypeOK
      <3> QED
        BY <2>2, <3>3, <3>5, <3>7 DEF Elems
    <2> QED
      BY <2>1, <2>2, <2>3 DEF AllEnded
  <1>2. TypeOK /\ IndexLocatesBlob /\ CallInv /\ PlaceInv => SuccessIsComplete
    BY <1>1 DEF SuccessIsComplete
  <1> QED
    BY <1>2, CallInvariant, PlaceInvariant, IndexCorrect, PTL

-----------------------------------------------------------------------------
(***************************************************************************)
(* The threads go on.                                                      *)
(***************************************************************************)

(* An idle worker holds nothing; outside the inner loop the next chunk has *)
(* not come; and who waits for a result has asked for the next chunk.      *)
GoInv ==
  /\ \A w \in Worker : worker_pc[w] = "recv" => job[w] = NoHash
  /\ io_pc \in {"top", "send", "recv"} => ~ CanWrite
  /\ read_cursor <= read_end
  /\ io_pc = "recv" => write_cursor < read_end

LEMMA GoInit == Init => GoInv
  BY DEF Init, GoInv, CanWrite

(* What has been written is what comes first in the order.                 *)
LEMMA NotWritten ==
  ASSUME TypeOK, IndexLocatesBlob, PlaceInv,
         NEW h \in Elems(pending) \cup Elems(to_compress)
  PROVE  write_cursor < Front
  <1>1. PICK i \in 1 .. Front : h = sorted_hashes[i]
    BY DEF PlaceInv, Placed
  <1>2. h \notin Elems(blob)
    BY DEF PlaceInv, ChunkInOnePlace
  <1>3. /\ write_cursor \in Nat /\ Front \in Nat
        /\ DOMAIN blob = 1 .. write_cursor
        /\ \A k \in 1 .. write_cursor : blob[k] = sorted_hashes[k]
    BY DEF TypeOK, IndexLocatesBlob, Front
  <1>4. i \notin 1 .. write_cursor
    BY <1>1, <1>2, <1>3 DEF Elems
  <1> QED
    BY <1>1, <1>3, <1>4

LEMMA WrittenWasRead ==
  ASSUME TypeOK, IndexLocatesBlob, PlaceInv
  PROVE  write_cursor <= Front
  <1>1. /\ write_cursor \in 0 .. TotalChunks /\ Front \in 0 .. TotalChunks
        /\ TotalChunks \in Nat
        /\ DOMAIN blob = 1 .. write_cursor
        /\ \A k \in 1 .. write_cursor : blob[k] = sorted_hashes[k]
    BY CompressAssumption DEF TypeOK, IndexLocatesBlob, Front, TotalChunks
  <1>2. CASE write_cursor # 0
    <2>1. write_cursor \in 1 .. write_cursor /\ write_cursor \in 1 .. TotalChunks
      BY <1>1, <1>2
    <2>2. sorted_hashes[write_cursor] \in Elems(blob)
      BY <1>1, <2>1 DEF Elems
    <2>3. PICK i \in 1 .. Front : sorted_hashes[write_cursor] = sorted_hashes[i]
      BY <2>2 DEF PlaceInv, Placed
    <2>4. i \in 1 .. TotalChunks
      BY <1>1, <2>3
    <2>5. i = write_cursor
      BY <2>1, <2>3, <2>4, CompressAssumption
    <2> QED
      BY <1>1, <2>3, <2>5
  <1> QED
    BY <1>1, <1>2

LEMMA GoStep ==
  ASSUME TypeOK, IndexLocatesBlob, PlaceInv, GoInv, [Next]_vars
  PROVE  GoInv'
  <1>1. /\ TotalChunks \in Nat /\ read_cursor \in 0 .. TotalChunks
        /\ read_end \in 0 .. TotalChunks /\ write_cursor \in 0 .. TotalChunks
        /\ pending \in Seq(Hash) /\ to_compress \in Seq(Hash)
        /\ LowThreshold \in Nat \ {0} /\ HighThreshold \in Nat \ {0}
    BY CompressAssumption DEF TypeOK, TotalChunks
  <1>2. CASE IoNext
    <2>1. UNCHANGED workers
      BY <1>2 DEF IoNext, IoReadBatch, IoSkipRead, IoComplete, IoSend,
        IoSendClosed, IoRecv, IoRecvClosed, IoWrite, IoDrained
    <2>2. \A w \in Worker : worker_pc'[w] = "recv" => job'[w] = NoHash
      BY <2>1 DEF workers, GoInv
    <2>3. CASE IoReadBatch
      <3>1. /\ io_pc = "top" /\ read_cursor < TotalChunks
            /\ UNCHANGED <<read_cursor, writing, reordering_buffer>>
        BY <2>3 DEF IoReadBatch, ShouldPrefetch
      <3>2. BatchEnd \in Nat /\ read_cursor < BatchEnd
        BY <1>1, <3>1 DEF BatchEnd
      <3>3. write_cursor <= read_cursor
        BY <3>1, WrittenWasRead DEF PlaceInv, Front
      <3>4. \/ read_end' = BatchEnd
            \/ read_end' = read_end /\ io_pc' = "done"
        BY <2>3 DEF IoReadBatch, IoEnd
      <3>5. write_cursor' = write_cursor /\ (CanWrite' <=> CanWrite)
        BY <3>1 DEF writing, CanWrite, NextHash
      <3>6. read_cursor <= read_end' /\ (io_pc' = "recv" => write_cursor < read_end')
        BY <1>1, <3>2, <3>3, <3>4 DEF GoInv
      <3> QED
        BY <2>2, <3>1, <3>5, <3>6 DEF GoInv
    <2>4. CASE IoSkipRead
      <3>1. /\ io_pc = "top" /\ io_pc' = "recv" /\ write_cursor < TotalChunks
            /\ ~ ShouldPrefetch
            /\ UNCHANGED <<reading, writing, reordering_buffer>>
        BY <2>4 DEF IoSkipRead
      <3>2. pending = << >> /\ Front = read_cursor
        BY <3>1 DEF PlaceInv, Front
      <3>3. write_cursor < read_cursor
        <4>1. CASE read_cursor = TotalChunks
          BY <3>1, <4>1
        <4>2. CASE read_cursor # TotalChunks
          <5>1. Len(to_compress) >= LowThreshold
            BY <1>1, <3>1, <4>2 DEF ShouldPrefetch
          <5>2. 1 \in DOMAIN to_compress
            BY <1>1, <5>1
          <5> QED
            BY <3>2, <5>2, NotWritten DEF Elems
        <4> QED
          BY <4>1, <4>2
      <3>4. write_cursor < read_end
        BY <1>1, <3>3 DEF GoInv
      <3> QED
        BY <2>2, <3>1, <3>4 DEF GoInv, reading, writing, CanWrite, NextHash
    <2>5. CASE IoSend
      <3>1. /\ io_pc = "send" /\ pending # << >> /\ read_cursor' = read_end
            /\ UNCHANGED <<read_end, writing, reordering_buffer>>
        BY <2>5 DEF IoSend, CursorAfterSend, TypeOK
      <3>2. 1 \in DOMAIN pending
        BY <1>1, <3>1
      <3>3. write_cursor < read_end
        BY <3>1, <3>2, NotWritten DEF Elems, Front
      <3> QED
        BY <1>1, <2>2, <3>1, <3>3 DEF GoInv, writing, CanWrite, NextHash
    <2>6. CASE IoRecv \/ IoWrite
      <3>1. /\ io_pc' \in {"drain", "done"} /\ UNCHANGED reading
        BY <2>6 DEF IoRecv, IoWrite, IoEnd
      <3> QED
        BY <2>2, <3>1 DEF GoInv, reading
    <2>7. CASE IoDrained
      BY <2>2, <2>7 DEF IoDrained, GoInv, reading, writing, CanWrite, NextHash
    <2>8. CASE IoComplete \/ IoSendClosed \/ IoRecvClosed
      BY <2>2, <2>8 DEF IoComplete, IoSendClosed, IoRecvClosed, IoEnd, GoInv, reading
    <2> QED
      BY <1>2, <2>3, <2>4, <2>5, <2>6, <2>7, <2>8 DEF IoNext
  <1>3. ASSUME NEW w \in Worker, WorkerNext(w)
        PROVE  GoInv'
    <2>1. UNCHANGED ioState
      BY <1>3 DEF WorkerNext, WorkerRecv, WorkerRecvClosed, WorkerCompress,
        WorkerFail, WorkerExit
    <2>2. \A v \in Worker : worker_pc'[v] = "recv" => job'[v] = NoHash
      <3> USE DEF GoInv, TypeOK
      <3>1. CASE WorkerRecv(w)
        BY <3>1 DEF WorkerRecv
      <3>2. CASE WorkerRecvClosed(w)
        BY <3>2 DEF WorkerRecvClosed
      <3>3. CASE WorkerCompress(w)
        BY <3>3 DEF WorkerCompress
      <3>4. CASE WorkerFail(w)
        BY <3>4 DEF WorkerFail
      <3>5. CASE WorkerExit(w)
        BY <3>5 DEF WorkerExit
      <3> QED
        BY <1>3, <3>1, <3>2, <3>3, <3>4, <3>5 DEF WorkerNext
    <2> QED
      BY <2>1, <2>2 DEF GoInv, ioState, reading, writing, CanWrite, NextHash
  <1>4. CASE MainNext \/ UNCHANGED vars
    BY <1>4 DEF MainNext, MonitorIoFinished, MonitorError, JoinAll, vars, workers,
      ioState, GoInv, reading, writing, CanWrite, NextHash
  <1> QED
    BY <1>2, <1>3, <1>4 DEF Next, Ended

LEMMA SomeoneGoesOn ==
  ASSUME TypeOK, PoolInv, CallInv, IndexLocatesBlob, PlaceInv, GoInv, AllPresent,
         IoWaits, \A w \in Worker : WorkerWaits(w), MainWaits
  PROVE  AllEnded \/ (main_pc = "returned" /\ failed # {})
  <1>1. CASE main_pc = "returned"
    BY <1>1 DEF CallInv, AllEnded
  <1>2. CASE main_pc = "join" /\ ~ PoolGone
    BY <1>2 DEF CallInv, WorkerWaits, SenderDropped, PoolGone
  <1>3. CASE main_pc = "monitor" /\ io_pc # "done" /\ failed = {}
    <2>1. \A w \in Worker : worker_pc[w] = "recv" /\ job[w] = NoHash
      BY <1>3 DEF WorkerWaits, PoolInv, GoInv
    <2>2. to_compress = << >> /\ Len(to_compress) = 0
      BY <2>1, CompressAssumption DEF WorkerWaits
    <2>3. io_pc = "recv" /\ from_compress = << >>
      BY <1>3, <2>2, CompressAssumption DEF IoWaits
    <2>4. pending = << >> /\ Held = {}
      BY <2>1, <2>3 DEF PlaceInv, Held
    <2>5. /\ write_cursor + 1 \in 1 .. read_end
          /\ write_cursor + 1 \in 1 .. TotalChunks
          /\ NextHash \notin reordering_buffer
      BY <2>3, CompressAssumption DEF TypeOK, GoInv, CanWrite, TotalChunks
    <2>6. NextHash \in Elems(blob)
      <3>1. Elems(<< >>) = {}
        BY DEF Elems
      <3> QED
        BY <2>2, <2>3, <2>4, <2>5, <3>1 DEF AllPresent, NextHash
    <2>7. PICK k \in 1 .. write_cursor : NextHash = sorted_hashes[k]
      <3>1. /\ DOMAIN blob = 1 .. write_cursor
            /\ \A k \in 1 .. write_cursor : blob[k] = sorted_hashes[k]
        BY DEF IndexLocatesBlob, TypeOK
      <3> QED
        BY <2>6, <3>1 DEF Elems
    <2>8. k \in 1 .. TotalChunks /\ k # write_cursor + 1
      BY <2>5, <2>7, CompressAssumption DEF TypeOK, TotalChunks
    <2> QED
      BY <2>5, <2>7, <2>8, CompressAssumption DEF NextHash
  <1> QED
    BY <1>1, <1>2, <1>3 DEF MainWaits, ErrorPending

(* The threads of compress_chunks never all wait for each other, as long as *)
(* the read callback returns what it is asked for: however many workers     *)
(* there are and whatever the thresholds, one of them can go on.           *)
THEOREM ThreadsGoOn == Spec => []NeverAllWait
  <1>1. GoInv /\ (TypeOK /\ PoolInv /\ CallInv) /\ PlaceInv /\ IndexLocatesBlob
          => NeverAllWait
    BY SomeoneGoesOn DEF NeverAllWait
  <1>2. GoInv /\ (TypeOK /\ PoolInv /\ CallInv) /\ PlaceInv /\ IndexLocatesBlob
          /\ [Next]_vars => GoInv'
    BY GoStep
  <1> QED
    BY <1>1, <1>2, GoInit, CallInvariant, PlaceInvariant, IndexCorrect, PTL DEF Spec

(* The pipeline is safe: its index is true, each chunk is in one place, Ok *)
(* means complete, every failure is reported for what it was, and the      *)
(* threads go on.                                                          *)
THEOREM PipelineSafe == Spec => []Safe
  BY TypeCorrect, IndexCorrect, ChunksInOnePlace, SuccessComplete,
     WorkerErrorCaused, ReadCancelCorrect, ThreadsGoOn, PTL DEF Safe
=============================================================================
