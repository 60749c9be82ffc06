--------------------------- MODULE CompressChunks ---------------------------
(***************************************************************************)
(* `compress_chunks` of lib_sprite_shrink/src/archive.rs: an I/O thread    *)
(* reads chunks through a callback, feeds them to a pool of compression    *)
(* workers over a bounded channel, takes the results back over an          *)
(* unbounded one in whatever order they finish, and writes them through a  *)
(* second callback in the order of `sorted_hashes`.  The calling thread    *)
(* polls for the end of the I/O thread and for a worker's error.           *)
(*                                                                         *)
(* A chunk is its hash: the bytes travel with it and only their compressed *)
(* length is told apart.                                                   *)
(***************************************************************************)
EXTENDS Naturals, Sequences

CONSTANTS
  Worker,            (* The compression workers, num_workers of them.      *)
  Hash,              (* Chunk hashes.                                      *)
  sorted_hashes,     (* The order in which chunks must be written.         *)
  CompLen,           (* Compressed length of each chunk.                   *)
  LowThreshold,      (* PREFETCH_LOW_THRESHOLD, 100 in the code.           *)
  HighThreshold,     (* PREFETCH_HIGH_THRESHOLD, 500 in the code.          *)
  ReadOutcomes,      (* What the read callback may do in this environment. *)
  WriteOutcomes,     (* What the write callback may do.                    *)
  CompressOutcomes,  (* What compress_with_dict may do.                    *)
  NoHash             (* A worker with no chunk.                            *)

TotalChunks == Len(sorted_hashes)

(* Hashes are distinct: serialize_uncompressed_data lists each once.       *)
ASSUME CompressAssumption ==
  /\ Worker # {}
  /\ sorted_hashes \in Seq(Hash)
  /\ \A i, j \in 1 .. TotalChunks :
       sorted_hashes[i] = sorted_hashes[j] => i = j
  /\ CompLen \in [Hash -> Nat \ {0}]
  /\ LowThreshold \in Nat \ {0}
  /\ HighThreshold \in Nat \ {0}
  /\ ReadOutcomes \subseteq {"ok", "short", "cancelled", "error"}
  /\ WriteOutcomes \subseteq {"ok", "cancelled", "error"}
  /\ CompressOutcomes \subseteq {"ok", "error"}
  /\ NoHash \notin Hash

VARIABLES
  to_compress,       (* Bounded channel, I/O thread to workers.            *)
  from_compress,     (* Unbounded channel, workers to I/O thread.          *)
  worker_pc,         (* Where each worker is.                              *)
  job,               (* The chunk a worker holds; kept when it fails.      *)
  failed,            (* Workers whose error is in the error channel.       *)
  io_pc,             (* Where the I/O thread is.                           *)
  pending,           (* Chunks read and not yet sent to the workers.       *)
  read_end,          (* `end` of the batch being sent.                     *)
  read_cursor,
  write_cursor,
  offset,
  reordering_buffer,
  chunk_index,
  io_result,
  blob,              (* Chunks the write callback has accepted, in order.  *)
  cancelled,         (* Callbacks that have returned Cancelled.            *)
  main_pc,           (* Where the calling thread is.                       *)
  result             (* What compress_chunks returned.                     *)

channels  == <<to_compress, from_compress>>
workers   == <<worker_pc, job, failed>>
reading   == <<pending, read_end, read_cursor>>
writing   == <<write_cursor, offset, chunk_index, blob>>
main      == <<main_pc, result>>
vars == <<channels, workers, io_pc, reading, writing, reordering_buffer,
          io_result, cancelled, main>>

Errors == {"Cancelled", "External", "WorkerError", "CompressError"}

Location == [hash: Hash, offset: Nat, compressed_length: Nat]

TypeOK ==
  /\ to_compress \in Seq(Hash)
  /\ from_compress \in Seq(Hash)
  /\ worker_pc \in [Worker -> {"recv", "compress", "failed", "exited"}]
  /\ job \in [Worker -> Hash \cup {NoHash}]
  /\ \A w \in Worker : worker_pc[w] \in {"compress", "failed"} => job[w] \in Hash
  /\ failed \subseteq Worker
  /\ io_pc \in {"top", "send", "recv", "drain", "done"}
  /\ pending \in Seq(Hash)
  /\ io_pc = "send" => pending # << >>
  /\ read_end \in 0 .. TotalChunks
  /\ read_cursor \in 0 .. TotalChunks
  /\ write_cursor \in 0 .. TotalChunks
  /\ io_pc \in {"send", "recv"} => write_cursor < TotalChunks
  /\ offset \in Nat
  /\ reordering_buffer \subseteq Hash
  /\ chunk_index \in Seq(Location)
  /\ io_result \in Errors \cup {"running", "Ok"}
  /\ blob \in Seq(Hash)
  /\ cancelled \subseteq {"read", "write"}
  /\ main_pc \in {"monitor", "join", "returned"}
  /\ result \in Errors \cup {"running", "Ok"}

Init ==
  /\ to_compress = << >>
  /\ from_compress = << >>
  /\ worker_pc = [w \in Worker |-> "recv"]
  /\ job = [w \in Worker |-> NoHash]
  /\ failed = {}
  /\ io_pc = "top"
  /\ pending = << >>
  /\ read_end = 0
  /\ read_cursor = 0
  /\ write_cursor = 0
  /\ offset = 0
  /\ reordering_buffer = {}
  /\ chunk_index = << >>
  /\ io_result = "running"
  /\ blob = << >>
  /\ cancelled = {}
  /\ main_pc = "monitor"
  /\ result = "running"
-----------------------------------------------------------------------------
(***************************************************************************)
(* Mutants: plausible mistakes in the definitions below, which the         *)
(* properties must notice.                                                 *)
(***************************************************************************)

(* CursorAfterSend: the cursor is not moved.                               *)
CursorStays == read_cursor

(* NextHash: results are written as they arrive.                           *)
AnyBuffered == IF reordering_buffer = {}
               THEN NoHash
               ELSE CHOOSE h \in reordering_buffer : TRUE



(* MonitorIoFinished: done when the last batch has been sent.              *)
MonitorAllSent ==
  /\ main_pc = "monitor"
  /\ read_cursor = TotalChunks \/ io_pc = "done"
  /\ main_pc' = "returned"
  /\ result' = "Ok"
  /\ UNCHANGED <<channels, workers, io_pc, reading, writing,
                 reordering_buffer, io_result, cancelled>>
-----------------------------------------------------------------------------
(***************************************************************************)
(* The I/O thread.  When it ends it drops its ends of both channels.       *)
(***************************************************************************)

(* Every worker has dropped its ends of the channels.                      *)
PoolGone == \A w \in Worker : worker_pc[w] = "exited"

IoEnd(r) ==
  /\ io_pc' = "done"
  /\ io_result' = r

Cancelling(o, callback) == IF o = "cancelled" THEN {callback} ELSE {}

(* is_cancelled is asked of the read callback's errors only: every error   *)
(* of the write callback becomes ArchiveError::External.                   *)
ReadErrorOf(o) == IF o = "cancelled" THEN "Cancelled" ELSE "External"

WriteErrorOf(o) == "External"

(* Where read_cursor stands once a chunk of the batch has been sent.       *)
CursorAfterSend == read_end

(* The reordering buffer after a result has come in.                       *)
Buffered(h) == reordering_buffer \cup {h}

(* What the loop is left with when every worker has gone.                  *)
OutcomeWhenClosed ==
  IF write_cursor < TotalChunks THEN "WorkerError" ELSE "Ok"

NextHash == sorted_hashes[write_cursor + 1]

CanWrite == write_cursor < TotalChunks /\ NextHash \in reordering_buffer

ShouldPrefetch == Len(to_compress) < LowThreshold /\ read_cursor < TotalChunks

BatchEnd == IF read_cursor + HighThreshold < TotalChunks
            THEN read_cursor + HighThreshold
            ELSE TotalChunks

(* The read callback is asked for the next batch.  "short" is an Ok with   *)
(* fewer chunks than asked for, which the code accepts.                    *)
IoReadBatch ==
  /\ io_pc = "top"
  /\ write_cursor < TotalChunks
  /\ ShouldPrefetch
  /\ \/ \E n \in 0 .. BatchEnd - read_cursor :
          /\ IF n = BatchEnd - read_cursor THEN "ok" \in ReadOutcomes
                                           ELSE "short" \in ReadOutcomes
          /\ pending' = SubSeq(sorted_hashes, read_cursor + 1, read_cursor + n)
          /\ read_end' = BatchEnd
          /\ io_pc' = IF n = 0 THEN "recv" ELSE "send"
          /\ UNCHANGED <<io_result, cancelled>>
     \/ \E o \in ReadOutcomes \ {"ok", "short"} :
          /\ cancelled' = cancelled \cup Cancelling(o, "read")
          /\ IoEnd(ReadErrorOf(o))
          /\ UNCHANGED <<pending, read_end>>
  /\ UNCHANGED <<channels, workers, read_cursor, writing, reordering_buffer,
                 main>>

IoSkipRead ==
  /\ io_pc = "top"
  /\ write_cursor < TotalChunks
  /\ ~ ShouldPrefetch
  /\ io_pc' = "recv"
  /\ UNCHANGED <<channels, workers, reading, writing, reordering_buffer,
                 io_result, cancelled, main>>

IoComplete ==
  /\ io_pc = "top"
  /\ write_cursor = TotalChunks
  /\ IoEnd("Ok")
  /\ UNCHANGED <<channels, workers, reading, writing, reordering_buffer,
                 cancelled, main>>

(* `send` blocks while the channel is full and a worker is left.           *)
IoSend ==
  /\ io_pc = "send"
  /\ ~ PoolGone
  /\ Len(to_compress) < HighThreshold
  /\ to_compress' = Append(to_compress, Head(pending))
  /\ pending' = Tail(pending)
  /\ read_cursor' = CursorAfterSend
  /\ io_pc' = IF Tail(pending) = << >> THEN "recv" ELSE "send"
  /\ UNCHANGED <<from_compress, workers, read_end, writing, reordering_buffer,
                 io_result, cancelled, main>>

IoSendClosed ==
  /\ io_pc = "send"
  /\ PoolGone
  /\ IoEnd("WorkerError")
  /\ UNCHANGED <<channels, workers, reading, writing, reordering_buffer,
                 cancelled, main>>

(* `recv` blocks while the channel is empty and a worker is left.          *)
IoRecv ==
  /\ io_pc = "recv"
  /\ from_compress # << >>
  /\ reordering_buffer' = Buffered(Head(from_compress))
  /\ from_compress' = Tail(from_compress)
  /\ io_pc' = "drain"
  /\ UNCHANGED <<to_compress, workers, reading, writing, io_result, cancelled,
                 main>>

IoRecvClosed ==
  /\ io_pc = "recv"
  /\ from_compress = << >>
  /\ PoolGone
  /\ IoEnd(OutcomeWhenClosed)
  /\ UNCHANGED <<channels, workers, reading, writing, reordering_buffer,
                 cancelled, main>>

(* One turn of the inner loop: the next chunk in order is handed to the    *)
(* write callback and entered in the index.                                *)
IoWrite ==
  /\ io_pc = "drain"
  /\ CanWrite
  /\ reordering_buffer' = reordering_buffer \ {NextHash}
  /\ \/ /\ "ok" \in WriteOutcomes
        /\ blob' = Append(blob, NextHash)
        /\ write_cursor' = write_cursor + 1
        /\ chunk_index' = Append(chunk_index,
                                 [hash              |-> NextHash,
                                  offset            |-> offset,
                                  compressed_length |-> CompLen[NextHash]])
        /\ offset' = offset + CompLen[NextHash]
        /\ UNCHANGED <<io_pc, io_result, cancelled>>
     \/ \E o \in WriteOutcomes \ {"ok"} :
          /\ cancelled' = cancelled \cup Cancelling(o, "write")
          /\ IoEnd(WriteErrorOf(o))
          /\ UNCHANGED writing
  /\ UNCHANGED <<channels, workers, reading, main>>

IoDrained ==
  /\ io_pc = "drain"
  /\ ~ CanWrite
  /\ io_pc' = "top"
  /\ UNCHANGED <<channels, workers, reading, writing, reordering_buffer,
                 io_result, cancelled, main>>

IoNext ==
  \/ IoReadBatch \/ IoSkipRead \/ IoComplete
  \/ IoSend \/ IoSendClosed
  \/ IoRecv \/ IoRecvClosed
  \/ IoWrite \/ IoDrained
-----------------------------------------------------------------------------
(***************************************************************************)
(* A compression worker.                                                   *)
(***************************************************************************)

ioState == <<io_pc, reading, writing, reordering_buffer, io_result, cancelled>>

WorkerRecv(w) ==
  /\ worker_pc[w] = "recv"
  /\ to_compress # << >>
  /\ job' = [job EXCEPT ![w] = Head(to_compress)]
  /\ to_compress' = Tail(to_compress)
  /\ worker_pc' = [worker_pc EXCEPT ![w] = "compress"]
  /\ UNCHANGED <<from_compress, failed, ioState, main>>

(* The I/O thread, which holds the only sender, has ended.                 *)
SenderDropped == io_pc = "done"

(* The channel is disconnected and what it held has been taken.            *)
WorkerRecvClosed(w) ==
  /\ worker_pc[w] = "recv"
  /\ to_compress = << >>
  /\ SenderDropped
  /\ worker_pc' = [worker_pc EXCEPT ![w] = "exited"]
  /\ UNCHANGED <<channels, job, failed, ioState, main>>

(* The result is sent, or dropped when the I/O thread has gone.            *)
WorkerCompress(w) ==
  /\ worker_pc[w] = "compress"
  /\ "ok" \in CompressOutcomes
  /\ IF io_pc = "done"
     THEN /\ worker_pc' = [worker_pc EXCEPT ![w] = "exited"]
          /\ UNCHANGED from_compress
     ELSE /\ worker_pc' = [worker_pc EXCEPT ![w] = "recv"]
          /\ from_compress' = Append(from_compress, job[w])
  /\ job' = [job EXCEPT ![w] = NoHash]
  /\ UNCHANGED <<to_compress, failed, ioState, main>>

(* The error is sent first; the channel ends are dropped a step later.     *)
WorkerFail(w) ==
  /\ worker_pc[w] = "compress"
  /\ "error" \in CompressOutcomes
  /\ failed' = failed \cup {w}
  /\ worker_pc' = [worker_pc EXCEPT ![w] = "failed"]
  /\ UNCHANGED <<channels, job, ioState, main>>

WorkerExit(w) ==
  /\ worker_pc[w] = "failed"
  /\ worker_pc' = [worker_pc EXCEPT ![w] = "exited"]
  /\ UNCHANGED <<channels, job, failed, ioState, main>>

WorkerNext(w) ==
  \/ WorkerRecv(w) \/ WorkerRecvClosed(w)
  \/ WorkerCompress(w) \/ WorkerFail(w) \/ WorkerExit(w)
-----------------------------------------------------------------------------
(***************************************************************************)
(* The calling thread.  It tests is_finished, then the error channel, so   *)
(* an error may be seen although the I/O thread has ended meanwhile.       *)
(***************************************************************************)

MonitorIoFinished ==
  /\ main_pc = "monitor"
  /\ io_pc = "done"
  /\ main_pc' = "join"
  /\ UNCHANGED <<channels, workers, ioState, result>>

(* The error channel has something to receive.                             *)
ErrorPending == failed # {}

(* The early return: nothing is joined.                                    *)
MonitorError ==
  /\ main_pc = "monitor"
  /\ ErrorPending
  /\ main_pc' = "returned"
  /\ result' = "CompressError"
  /\ UNCHANGED <<channels, workers, ioState>>

JoinAll ==
  /\ main_pc = "join"
  /\ PoolGone
  /\ main_pc' = "returned"
  /\ result' = io_result
  /\ UNCHANGED <<channels, workers, ioState>>

MainNext == MonitorIoFinished \/ MonitorError \/ JoinAll

(* Every thread has ended: the only state in which stopping is right.      *)
AllEnded == main_pc = "returned" /\ io_pc = "done" /\ PoolGone

Ended == AllEnded /\ UNCHANGED vars

Next ==
  \/ IoNext
  \/ \E w \in Worker : WorkerNext(w)
  \/ MainNext
  \/ Ended

Spec == Init /\ [][Next]_vars

(* The operating system runs every thread that can run.                    *)
Fairness ==
  /\ WF_vars(IoNext)
  /\ \A w \in Worker : WF_vars(WorkerNext(w))
  /\ WF_vars(MainNext)

FairSpec == Spec /\ Fairness
-----------------------------------------------------------------------------
(***************************************************************************)
(* Properties.                                                             *)
(***************************************************************************)

(* The chunk index describes the bytes that were written: entry i is the   *)
(* i-th hash of sorted_hashes and the i-th chunk written, starts where     *)
(* entry i - 1 ends, and the running offset is the end of the last one,    *)
(* however the workers' results were interleaved.                          *)
IndexLocatesBlob ==
  /\ Len(blob) = write_cursor
  /\ Len(chunk_index) = write_cursor
  /\ \A i \in 1 .. write_cursor :
       /\ blob[i] = sorted_hashes[i]
       /\ chunk_index[i].hash = sorted_hashes[i]
       /\ chunk_index[i].compressed_length = CompLen[sorted_hashes[i]]
       /\ chunk_index[i].offset =
            IF i = 1 THEN 0
            ELSE chunk_index[i-1].offset + chunk_index[i-1].compressed_length
  /\ offset = IF write_cursor = 0 THEN 0
              ELSE chunk_index[write_cursor].offset
                     + chunk_index[write_cursor].compressed_length

Elems(s) == {s[i] : i \in DOMAIN s}

Distinct(s) == \A i, j \in DOMAIN s : s[i] = s[j] => i = j

Held == {job[w] : w \in Worker} \ {NoHash}

(* A chunk that was read is in one place at a time between the read        *)
(* callback and the blob (a failed worker keeps the one it lost): it is    *)
(* never compressed by two workers, read twice or written twice.           *)
ChunkInOnePlace ==
  /\ Distinct(pending) /\ Distinct(to_compress)
  /\ Distinct(from_compress) /\ Distinct(blob)
  /\ \A u, w \in Worker : job[u] = job[w] /\ job[u] # NoHash => u = w
  /\ Elems(pending) \cap
       (Elems(to_compress) \cup Held \cup Elems(from_compress)
          \cup reordering_buffer \cup Elems(blob)) = {}
  /\ Elems(to_compress) \cap
       (Held \cup Elems(from_compress) \cup reordering_buffer
          \cup Elems(blob)) = {}
  /\ Held \cap (Elems(from_compress) \cup reordering_buffer
                   \cup Elems(blob)) = {}
  /\ Elems(from_compress) \cap (reordering_buffer \cup Elems(blob)) = {}
  /\ reordering_buffer \cap Elems(blob) = {}

(* Every chunk of the batches asked for is in a channel, with a worker, in *)
(* the reordering buffer or in the blob.                                   *)
AllPresent ==
  \A i \in 1 .. read_end :
    sorted_hashes[i] \in Elems(pending) \cup Elems(to_compress) \cup Held
                          \cup Elems(from_compress) \cup reordering_buffer
                          \cup Elems(blob)

(* Ok is returned only for the complete blob, with no worker's error       *)
(* ignored and no thread left behind.                                      *)
SuccessIsComplete ==
  result = "Ok" => blob = sorted_hashes /\ failed = {} /\ AllEnded

(* "Worker pool terminated" is never reported for a pool in which no       *)
(* compression failed: workers outlive the I/O thread otherwise.           *)
WorkerErrorHasCause == io_result = "WorkerError" => failed # {}

(* A read callback that reports cancellation makes the call return         *)
(* Cancelled, unless a compression error was seen first; and Cancelled is  *)
(* never invented.                                                         *)
ReadCancelReported ==
  /\ main_pc = "returned" /\ "read" \in cancelled /\ failed = {}
       => result = "Cancelled"
  /\ result = "Cancelled" => "read" \in cancelled

(* When a thread waits: the I/O thread for room or for a result, a worker  *)
(* for a chunk, the calling thread, which polls, for the I/O thread's end, *)
(* an error or the workers' ends.  One that has ended waits for ever.      *)
IoWaits ==
  \/ io_pc = "send" /\ ~ PoolGone /\ Len(to_compress) >= HighThreshold
  \/ io_pc = "recv" /\ ~ PoolGone /\ from_compress = << >>
  \/ io_pc = "done"
WorkerWaits(w) ==
  \/ worker_pc[w] = "recv" /\ to_compress = << >> /\ ~ SenderDropped
  \/ worker_pc[w] = "exited"
MainWaits ==
  \/ main_pc = "monitor" /\ io_pc # "done" /\ ~ ErrorPending
  \/ main_pc = "join" /\ ~ PoolGone
  \/ main_pc = "returned"

(* As long as the read callback has returned what it was asked for, some   *)
(* thread can go on until all have ended: whatever the thresholds, nobody  *)
(* waits for a result that nobody makes or for room that nobody makes.     *)
(* Only a call that returned a worker's error leaves threads that may.     *)
NeverAllWait ==
  AllPresent /\ IoWaits /\ (\A w \in Worker : WorkerWaits(w)) /\ MainWaits =>
    AllEnded \/ (main_pc = "returned" /\ failed # {})

(* All of these: the pipeline moves each chunk once, keeps its index true, *)
(* blames the right one for a failure, and goes on.                        *)
Safe ==
  TypeOK /\ IndexLocatesBlob /\ ChunkInOnePlace /\ SuccessIsComplete
    /\ WorkerErrorHasCause /\ ReadCancelReported /\ NeverAllWait

(* Once the call has returned, neither callback is called again: their     *)
(* owner may be gone.  Only the early return for a failed compression      *)
(* leaves the I/O thread calling them.                                     *)
QuietAfterReturn ==
  [][main_pc = "returned" /\ failed = {} => ~ (IoReadBatch \/ IoWrite)]_vars



(* A compression error is returned while the I/O thread may still write:   *)
(* for the writer the call has not ended then.                             *)
WriterOutcome == IF result = "CompressError" THEN "running" ELSE result

Blob == INSTANCE ChunkBlob WITH Failures <- Errors, outcome <- WriterOutcome

(* The threads together implement the sequential writer: chunks in order,  *)
(* each where its index entry says, Ok only after the last, nothing after  *)
(* the end.                                                                *)
BlobSpec == Blob!Spec
=============================================================================
