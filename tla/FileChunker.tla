----------------------------- MODULE FileChunker -----------------------------
(***************************************************************************)
(* `process_files` of cli_application (compress_modes/default.rs): a pool  *)
(* of workers cuts the input files into chunks and sends these to the      *)
(* calling thread, which makes batches of them and hands them to a writer  *)
(* thread that inserts them in the TempCache.  Each worker also records    *)
(* the chunks and the verification hash of its file, in two maps keyed by  *)
(* the name of the file.                                                   *)
(*                                                                         *)
(* The pool has no identities: a file is where its worker is with it.      *)
(***************************************************************************)
EXTENDS TempCache, FiniteSets, SequencesExt

CONSTANTS
  File,           (* The paths of the input files.                         *)
  file_name,      (* For each path, its last component.                    *)
  contents,       (* For each path, the hashes of its chunks.              *)
  POOL_SIZE,      (* Threads of the pool, task_thread_count.               *)
  BATCH_SIZE,     (* Chunks in a batch, and in the channel: 1000.          *)
  MAX_BATCHES,    (* Batches in the channel to the writer: 100.            *)
  Faults          (* What may go wrong in this environment.                *)

ASSUME ChunkerAssumption ==
  /\ IsFiniteSet(File)
  /\ contents \in [File -> Seq(Hash)]
  /\ POOL_SIZE \in Nat \ {0}
  /\ BATCH_SIZE \in Nat \ {0}
  /\ MAX_BATCHES \in Nat \ {0}
  /\ Faults \subseteq {"cancel", "open", "read", "insert"}

VARIABLES
  stage,          (* Where each file is on its way through the pool.       *)
  sent,           (* How many chunks its worker has sent and recorded.     *)
  pool_ended,     (* The thread that runs the pool has ended.              *)
  veri_hashes,    (* For each name: a file, and how much of it is hashed.  *)
  file_manifest,  (* For each name: a file, and how many chunks are kept.  *)
  channel,        (* Chunks on their way to the calling thread.            *)
  chunk_batch,    (* The batch it is filling.                              *)
  batches,        (* Batches on their way to the writer.                   *)
  main_pc,        (* Where the calling thread is.                          *)
  result,         (* What it returns.                                      *)
  inserting,      (* The rest of the batch the writer is inserting.        *)
  writer_pc,      (* Where the writer is.                                  *)
  writer_result,  (* What it returned.                                     *)
  running         (* FALSE once the user has asked to stop.                *)

pool   == <<stage, sent, pool_ended, veri_hashes, file_manifest>>
main   == <<chunk_batch, main_pc, result>>
writer == <<inserting, writer_pc, writer_result>>
vars   == <<cache, pool, channel, main, batches, writer, running>>

Names == {file_name[f] : f \in File}

Record == File \X Nat

WriterErrors == {"Cancelled", "Io"}
Errors == WriterErrors \cup {"FlumeSendError", "Worker"}

TypeOK ==
  /\ CacheTypeOK
  /\ stage \in [File -> {"todo", "chunking", "hashed", "done", "failed"}]
  /\ sent \in [File -> Nat]
  /\ \A f \in File : sent[f] <= Len(contents[f])
  /\ pool_ended \in BOOLEAN
  /\ DOMAIN veri_hashes \subseteq Names
  /\ \A n \in DOMAIN veri_hashes : veri_hashes[n] \in Record
  /\ DOMAIN file_manifest \subseteq Names
  /\ \A n \in DOMAIN file_manifest : file_manifest[n] \in Record
  /\ channel \in Seq(Hash) /\ Len(channel) <= BATCH_SIZE
  /\ chunk_batch \in Seq(Hash) /\ Len(chunk_batch) <= BATCH_SIZE
  /\ main_pc = "recv" => Len(chunk_batch) < BATCH_SIZE
  /\ batches \in Seq(Seq(Hash)) /\ Len(batches) <= MAX_BATCHES
  /\ inserting \in Seq(Hash)
  /\ main_pc \in {"recv", "send", "flush", "join", "returned"}
  /\ writer_pc \in {"recv", "insert", "ended"}
  /\ writer_result \in WriterErrors \cup {"Ok"}
  /\ result \in Errors \cup {"running", "Ok"}
  /\ running \in BOOLEAN

Init ==
  /\ CacheInit
  /\ stage = [f \in File |-> "todo"]
  /\ sent = [f \in File |-> 0]
  /\ pool_ended = FALSE
  /\ veri_hashes = [n \in {} |-> n]
  /\ file_manifest = [n \in {} |-> n]
  /\ channel = << >>
  /\ chunk_batch = << >>
  /\ batches = << >>
  /\ main_pc = "recv"
  /\ result = "running"
  /\ inserting = << >>
  /\ writer_pc = "recv"
  /\ writer_result = "Ok"
  /\ running = TRUE
-----------------------------------------------------------------------------
(***************************************************************************)
(* Mutants: plausible mistakes in the definitions below, which the         *)
(* properties must notice.                                                 *)
(***************************************************************************)

(* ResultOf: nobody looks at what the pool returned.                       *)
ResultOfWriter == writer_result

(* ReceiverGone: something else still holds the receiver.                  *)
ReceiverKept == FALSE

(* RecordOf: the last chunk is left out.                                   *)
RecordPrefix(f) == <<f, IF sent[f] = 0 THEN 0 ELSE sent[f] - 1>>
-----------------------------------------------------------------------------
(***************************************************************************)
(* The pool: file_chunk_worker, and the closure that calls it.             *)
(***************************************************************************)

Busy == {f \in File : stage[f] \in {"chunking", "hashed"}}

Failed == \E f \in File : stage[f] = "failed"

(* process_files has returned, and with it the receiver has gone.          *)
ReceiverGone == main_pc = "returned"

(* Any file may be next.  After an error the others are skipped, but those *)
(* that are not told in time may still be started.                         *)
StartFile(f) ==
  /\ stage[f] = "todo"
  /\ ~ pool_ended
  /\ Cardinality(Busy) < POOL_SIZE
  /\ \/ stage' = [stage EXCEPT ![f] = "chunking"]
     \/ /\ "open" \in Faults
        /\ stage' = [stage EXCEPT ![f] = "failed"]
  /\ UNCHANGED <<cache, sent, pool_ended, veri_hashes, file_manifest, channel,
                 main, batches, writer, running>>

(* The chunk is recorded once the channel, which has room for a batch, has *)
(* taken it.                                                               *)
SendChunk(f) ==
  /\ stage[f] = "chunking"
  /\ sent[f] < Len(contents[f])
  /\ ~ ReceiverGone
  /\ Len(channel) < BATCH_SIZE
  /\ channel' = Append(channel, contents[f][sent[f] + 1])
  /\ sent' = [sent EXCEPT ![f] = @ + 1]
  /\ UNCHANGED <<cache, stage, pool_ended, veri_hashes, file_manifest, main,
                 batches, writer, running>>

ReadFails(f) ==
  /\ "read" \in Faults
  /\ stage[f] = "chunking"
  /\ stage' = [stage EXCEPT ![f] = "failed"]
  /\ UNCHANGED <<cache, sent, pool_ended, veri_hashes, file_manifest, channel,
                 main, batches, writer, running>>

(* The chunk loop ends with the file, or with a chunk that was hashed and  *)
(* could not be sent.                                                      *)
RecordHash(f) ==
  /\ stage[f] = "chunking"
  /\ \/ /\ sent[f] = Len(contents[f])
        /\ veri_hashes' = With(veri_hashes, file_name[f], <<f, sent[f]>>)
     \/ /\ sent[f] < Len(contents[f])
        /\ ReceiverGone
        /\ veri_hashes' = With(veri_hashes, file_name[f], <<f, sent[f] + 1>>)
  /\ stage' = [stage EXCEPT ![f] = "hashed"]
  /\ UNCHANGED <<cache, sent, pool_ended, file_manifest, channel, main,
                 batches, writer, running>>

RecordOf(f) == <<f, sent[f]>>

RecordManifest(f) ==
  /\ stage[f] = "hashed"
  /\ file_manifest' = With(file_manifest, file_name[f], RecordOf(f))
  /\ stage' = [stage EXCEPT ![f] = "done"]
  /\ UNCHANGED <<cache, sent, pool_ended, veri_hashes, channel, main, batches,
                 writer, running>>

(* The last sender of the channel is dropped when the pool is done.        *)
PoolEnds ==
  /\ ~ pool_ended
  /\ Busy = {}
  /\ Failed \/ \A f \in File : stage[f] # "todo"
  /\ pool_ended' = TRUE
  /\ UNCHANGED <<cache, stage, sent, veri_hashes, file_manifest, channel,
                 main, batches, writer, running>>

FileProgress(f) ==
  \/ StartFile(f)
  \/ SendChunk(f)
  \/ RecordHash(f)
  \/ RecordManifest(f)

FileNext(f) == FileProgress(f) \/ ReadFails(f)
-----------------------------------------------------------------------------
(***************************************************************************)
(* The calling thread.                                                     *)
(***************************************************************************)

(* One more chunk makes the batch whole.                                   *)
BatchFull == Len(chunk_batch) + 1 >= BATCH_SIZE

(* The flag is looked at once a chunk has been received; the chunk and all *)
(* threads are then left to themselves.                                    *)
Receive ==
  /\ main_pc = "recv"
  /\ channel # << >>
  /\ channel' = Tail(channel)
  /\ \/ /\ ~ running
        /\ main_pc' = "returned"
        /\ result' = "Cancelled"
        /\ UNCHANGED chunk_batch
     \/ /\ running
        /\ chunk_batch' = Append(chunk_batch, Head(channel))
        /\ main_pc' = IF BatchFull THEN "send" ELSE "recv"
        /\ UNCHANGED result
  /\ UNCHANGED <<cache, pool, batches, writer, running>>

(* The loop ends when no sender is left and the channel is empty.          *)
LastBatch ==
  /\ main_pc = "recv"
  /\ channel = << >>
  /\ pool_ended
  /\ main_pc' = IF chunk_batch = << >> THEN "join" ELSE "flush"
  /\ UNCHANGED <<cache, pool, channel, chunk_batch, result, batches, writer,
                 running>>

(* A send waits for room, and fails once the writer has gone.              *)
SendBatch ==
  /\ main_pc \in {"send", "flush"}
  /\ \/ /\ writer_pc # "ended"
        /\ Len(batches) < MAX_BATCHES
        /\ batches' = Append(batches, chunk_batch)
        /\ chunk_batch' = << >>
        /\ main_pc' = IF main_pc = "send" THEN "recv" ELSE "join"
        /\ UNCHANGED result
     \/ /\ writer_pc = "ended"
        /\ main_pc' = "returned"
        /\ result' = "FlumeSendError"
        /\ UNCHANGED <<batches, chunk_batch>>
  /\ UNCHANGED <<cache, pool, channel, writer, running>>

(* The writer's error comes before that of the pool.                       *)
ResultOf ==
  CASE writer_result # "Ok" -> writer_result
    [] writer_result = "Ok" /\ Failed -> "Worker"
    [] OTHER -> "Ok"

JoinThreads ==
  /\ main_pc = "join"
  /\ writer_pc = "ended"
  /\ pool_ended
  /\ main_pc' = "returned"
  /\ result' = ResultOf
  /\ UNCHANGED <<cache, pool, channel, chunk_batch, batches, writer, running>>

MainNext == Receive \/ LastBatch \/ SendBatch \/ JoinThreads
-----------------------------------------------------------------------------
(***************************************************************************)
(* The writer thread and insert_batch_cb.                                  *)
(***************************************************************************)

WriterFails(error) ==
  /\ writer_pc' = "ended"
  /\ writer_result' = error
  /\ inserting' = << >>

(* The file is opened anew for each batch.                                 *)
TakeBatch ==
  /\ writer_pc = "recv"
  /\ batches # << >>
  /\ batches' = Tail(batches)
  /\ \/ /\ ~ running
        /\ WriterFails("Cancelled")
     \/ /\ running
        /\ OnDisk
        /\ "insert" \in Faults
        /\ WriterFails("Io")
     \/ /\ running
        /\ writer_pc' = "insert"
        /\ inserting' = Head(batches)
        /\ UNCHANGED writer_result
  /\ UNCHANGED <<cache, pool, channel, main, running>>

Insert ==
  /\ writer_pc = "insert"
  /\ inserting # << >>
  /\ \/ /\ InsertItem(Head(inserting))
        /\ inserting' = Tail(inserting)
        /\ UNCHANGED <<writer_pc, writer_result>>
     \/ /\ "insert" \in Faults
        /\ InsertFails(Head(inserting))
        /\ WriterFails("Io")
  /\ UNCHANGED <<pool, channel, main, batches, running>>

BatchInserted ==
  /\ writer_pc = "insert"
  /\ inserting = << >>
  /\ writer_pc' = "recv"
  /\ UNCHANGED <<cache, pool, channel, main, batches, inserting,
                 writer_result, running>>

(* The calling thread drops its sender before it joins, or by returning.   *)
Disconnected == main_pc \in {"join", "returned"}

WriterEnds ==
  /\ writer_pc = "recv"
  /\ batches = << >>
  /\ Disconnected
  /\ writer_pc' = "ended"
  /\ UNCHANGED <<cache, pool, channel, main, batches, inserting,
                 writer_result, running>>

WriterNext == TakeBatch \/ Insert \/ BatchInserted \/ WriterEnds
-----------------------------------------------------------------------------
(* The user interrupts the program.                                        *)
Cancel ==
  /\ "cancel" \in Faults
  /\ running
  /\ running' = FALSE
  /\ UNCHANGED <<cache, pool, channel, main, batches, writer>>

AllEnded == main_pc = "returned" /\ pool_ended /\ writer_pc = "ended"

Ended == AllEnded /\ UNCHANGED vars

Next ==
  \/ \E f \in File : FileNext(f)
  \/ PoolEnds
  \/ MainNext
  \/ WriterNext
  \/ Cancel
  \/ Ended

Spec == Init /\ [][Next]_vars

(* Every thread goes on when it can; no read need fail, and nobody need     *)
(* interrupt the program.                                                  *)
Fairness ==
  /\ \A f \in File : WF_vars(FileProgress(f))
  /\ WF_vars(PoolEnds)
  /\ WF_vars(MainNext)
  /\ WF_vars(WriterNext)

FairSpec == Spec /\ Fairness
-----------------------------------------------------------------------------
(***************************************************************************)
(* Properties.                                                             *)
(***************************************************************************)

(* The cache returns for each key the bytes that were inserted, although   *)
(* a failed write may have left bytes in the file that no entry knows of.  *)
CacheFaithful == \A h \in Keys : ChunkOf(h) = Data[h]

HashesOf(s) == {s[i] : i \in 1 .. Len(s)}

(* A chunk whose worker recorded it is on its way or in the cache.         *)
InFlight ==
  HashesOf(channel) \cup HashesOf(chunk_batch) \cup HashesOf(inserting)
    \cup UNION {HashesOf(batches[i]) : i \in 1 .. Len(batches)}

NoChunkLost ==
  (result = "running" /\ writer_result = "Ok") =>
    \A f \in File : \A i \in 1 .. sent[f] : contents[f][i] \in Keys \cup InFlight

(* Ok is returned only when each name has the manifest of all chunks of a  *)
(* file with that name, all of them in the cache, and every thread has     *)
(* ended.                                                                  *)
OkIsComplete ==
  result = "Ok" =>
    /\ AllEnded
    /\ \A n \in Names :
         /\ n \in DOMAIN file_manifest /\ n \in DOMAIN veri_hashes
         /\ \E f \in File :
              /\ file_name[f] = n
              /\ file_manifest[n] = <<f, Len(contents[f])>>
              /\ HashesOf(contents[f]) \subseteq Keys

(* When names differ, the verification hash that Ok comes with is that of  *)
(* the file in the manifest, and of all of it.                             *)
NamesDiffer ==
  \A f, g \in File : file_name[f] = file_name[g] => f = g

HashMatchesManifest ==
  (result = "Ok" /\ NamesDiffer) =>
    \A f \in File : veri_hashes[file_name[f]] = file_manifest[file_name[f]]

(* An error has its cause: a channel is found closed only after the writer *)
(* failed, and cancellation is reported only if there was one.             *)
ErrorHasCause ==
  /\ result = "FlumeSendError" => writer_result # "Ok"
  /\ result = "Cancelled" => ~ running
  /\ result = "Worker" => Failed

(* When a stage waits: the workers for room in the channel; the calling    *)
(* thread for a chunk, for room for its batch, or for the others' ends; the *)
(* writer for a batch.  A thread that has ended waits for ever.            *)
PoolWaits ==
  \/ pool_ended
  \/ /\ Busy # {}
     /\ \A f \in Busy : /\ stage[f] = "chunking" /\ sent[f] < Len(contents[f])
                         /\ ~ ReceiverGone /\ Len(channel) >= BATCH_SIZE
MainWaits ==
  \/ main_pc = "recv" /\ channel = << >> /\ ~ pool_ended
  \/ main_pc \in {"send", "flush"} /\ writer_pc # "ended" /\ Len(batches) >= MAX_BATCHES
  \/ main_pc = "join" /\ ~ (writer_pc = "ended" /\ pool_ended)
  \/ main_pc = "returned"
WriterWaits ==
  \/ writer_pc = "recv" /\ batches = << >> /\ ~ Disconnected
  \/ writer_pc = "ended"

(* Until all have ended one of them can go on, without a further file being *)
(* started: the stages never wait for each other in a circle.              *)
NeverAllWait == PoolWaits /\ MainWaits /\ WriterWaits => AllEnded

(* All of these: chunks reach the cache and read back from it, a file's    *)
(* hash goes with its manifest, an error has its cause, and the stages go  *)
(* on.                                                                     *)
Safe ==
  /\ TypeOK /\ CacheFaithful /\ NoChunkLost /\ HashMatchesManifest /\ ErrorHasCause
  /\ NeverAllWait

(* The call returns, and threads it left running end by themselves.        *)
NoThreadLeft == <>AllEnded

(* The pipeline implements the store: chunks are added, none changes, none *)
(* is missing with Ok, and none is added after it.                         *)
Store ==
  INSTANCE ChunkStore WITH
    Input    <- UNION {HashesOf(contents[f]) : f \in File},
    Failures <- Errors,
    store    <- [h \in Keys |-> ChunkOf(h)],
    outcome  <- result

StoreSpec == Store!Spec
=============================================================================
