---------------------------- MODULE AudioBlocks ----------------------------
(***************************************************************************)
(* compress_audio_blocks: worker threads compress the blocks that one I/O   *)
(* thread prefetches, and the same I/O thread writes the results in the     *)
(* order of the hashes, keeping those that come early in a buffer.  The     *)
(* caller polls until the I/O thread has ended or a worker reports an       *)
(* error.                                                                   *)
(***************************************************************************)
EXTENDS Integers, Sequences, FiniteSets, SequencesExt

CONSTANTS
  Pool,                     \* the compressing threads
  PREFETCH_LOW_THRESHOLD,   \* blocks queued below which the next batch is read
  PREFETCH_HIGH_THRESHOLD,  \* blocks read at a time, and the queue's capacity
  CompLen(_)                \* the compressed length of a block

ASSUME AudioBlocksAssumption ==
  /\ IsFiniteSet(Pool) /\ Pool # {}
  /\ PREFETCH_LOW_THRESHOLD \in Nat \ {0}
  /\ PREFETCH_HIGH_THRESHOLD \in Nat \ {0}

VARIABLES
  running,        \* FALSE once the user has cancelled
  blocks,         \* audio_block_hashes
  caller,         \* "idle", "poll", "join" or "returned"
  returns,        \* what the caller was given
  to_compress,    \* the queue of read blocks, by their indices
  from_compress,  \* the queue of compressed blocks
  errors,         \* whether a worker has reported an error
  worker,         \* each worker: the index it compresses, Idle or Ended
  io,             \* the I/O thread: where it is and how it ended
  fetched,        \* blocks it has read and not queued yet
  read_cursor,    \* how many blocks it has read
  reorder,        \* the blocks that came early
  blob,           \* what was written, in order
  audio_index     \* hashes with their offsets and lengths

audioVars == <<blocks, caller, returns, to_compress, from_compress, errors, worker, io,
               fetched, read_cursor, reorder, blob, audio_index>>

Idle == 0
Ended == -1

Total == Len(blocks)
(* The next block to be written is the one after those in the index.        *)
next_needed == Len(audio_index) + 1

AudioInit ==
  /\ blocks = << >>
  /\ caller = "idle"
  /\ returns = "none"
  /\ to_compress = << >> /\ from_compress = << >>
  /\ errors = FALSE
  /\ worker = [p \in Pool |-> Idle]
  /\ io = "loop"
  /\ fetched = << >>
  /\ read_cursor = 0
  /\ reorder = {}
  /\ blob = << >>
  /\ audio_index = << >>

Start(hashes) ==
  /\ caller = "idle"
  /\ caller' = "poll"
  /\ blocks' = hashes
  /\ UNCHANGED <<returns, to_compress, from_compress, errors, worker, io, fetched,
                 read_cursor, reorder, blob, audio_index>>

-----------------------------------------------------------------------------
(* The I/O thread.                                                          *)

Started == caller # "idle"
IoEnded == io \in {"ok", "Worker", "External", "PoolDied"}
IoAt(pc) == Started /\ io = pc
KeptByIo == UNCHANGED <<running, blocks, caller, returns, errors, worker>>

(* Mutant of WantsMore: the last block is not read.                         *)
WantsAllButLast == Len(to_compress) < PREFETCH_LOW_THRESHOLD /\ read_cursor < Total - 1

WantsMore == Len(to_compress) < PREFETCH_LOW_THRESHOLD /\ read_cursor < Total

(* The next batch is asked for.  Whatever the callback fails with, a        *)
(* cancellation too, becomes the text of a Worker error.                    *)
Prefetch ==
  /\ IoAt("loop")
  /\ next_needed <= Total
  /\ WantsMore
  /\ \/ /\ running
        /\ LET upto == IF read_cursor + PREFETCH_HIGH_THRESHOLD < Total
                       THEN read_cursor + PREFETCH_HIGH_THRESHOLD ELSE Total
           IN /\ fetched' = [k \in 1..(upto - read_cursor) |-> read_cursor + k]
              /\ read_cursor' = upto
        /\ io' = "send"
     \/ /\ io' = "Worker"
        /\ UNCHANGED <<fetched, read_cursor>>
  /\ UNCHANGED <<to_compress, from_compress, reorder, blob, audio_index>>
  /\ KeptByIo

NoPrefetch ==
  /\ IoAt("loop")
  /\ next_needed <= Total
  /\ ~WantsMore
  /\ io' = "receive"
  /\ UNCHANGED <<to_compress, from_compress, fetched, read_cursor, reorder, blob, audio_index>>
  /\ KeptByIo

PoolEnded == \A p \in Pool : worker[p] = Ended

(* The thread waits while the queue is full.                                *)
QueueBlock ==
  /\ IoAt("send")
  /\ fetched # << >>
  /\ ~PoolEnded
  /\ Len(to_compress) < PREFETCH_HIGH_THRESHOLD
  /\ to_compress' = Append(to_compress, Head(fetched))
  /\ fetched' = Tail(fetched)
  /\ UNCHANGED <<from_compress, io, read_cursor, reorder, blob, audio_index>>
  /\ KeptByIo

AllQueued ==
  /\ IoAt("send")
  /\ fetched = << >>
  /\ io' = "receive"
  /\ UNCHANGED <<to_compress, from_compress, fetched, read_cursor, reorder, blob, audio_index>>
  /\ KeptByIo

(* No worker is left to send to, or to receive from.                        *)
PoolDied ==
  /\ \/ IoAt("send") /\ fetched # << >>
     \/ IoAt("receive") /\ from_compress = << >>
  /\ PoolEnded
  /\ io' = "PoolDied"
  /\ UNCHANGED <<to_compress, from_compress, fetched, read_cursor, reorder, blob, audio_index>>
  /\ KeptByIo

Receive ==
  /\ IoAt("receive")
  /\ from_compress # << >>
  /\ reorder' = reorder \cup {Head(from_compress)}
  /\ from_compress' = Tail(from_compress)
  /\ io' = "write"
  /\ UNCHANGED <<to_compress, fetched, read_cursor, blob, audio_index>>
  /\ KeptByIo

(* Mutant of InTurn: the first block to have come, whosever turn it is.     *)
FirstCome == IF reorder = {} THEN 0 ELSE CHOOSE b \in reorder : \A c \in reorder : b <= c

(* The block whose turn it is, if it has come.                              *)
InTurn == IF next_needed \in reorder THEN next_needed ELSE 0

Offset == IF audio_index = << >> THEN 0
          ELSE Last(audio_index).offset + Last(audio_index).compressed_length

WriteBlock ==
  /\ IoAt("write")
  /\ InTurn # 0
  /\ \/ /\ blob' = Append(blob, blocks[InTurn])
        /\ audio_index' = Append(audio_index,
             [hash |-> blocks[InTurn], offset |-> Offset,
              compressed_length |-> CompLen(blocks[InTurn])])
        /\ reorder' = reorder \ {InTurn}
        /\ UNCHANGED io
     \/ /\ io' = "External"
        /\ UNCHANGED <<reorder, blob, audio_index>>
  /\ UNCHANGED <<to_compress, from_compress, fetched, read_cursor>>
  /\ KeptByIo

NothingInTurn ==
  /\ IoAt("write")
  /\ InTurn = 0
  /\ io' = "loop"
  /\ UNCHANGED <<to_compress, from_compress, fetched, read_cursor, reorder, blob, audio_index>>
  /\ KeptByIo

(* The last call of the write callback carries no bytes, and its answer is  *)
(* not looked at.                                                           *)
IoDone ==
  /\ IoAt("loop")
  /\ next_needed > Total
  /\ io' = "ok"
  /\ UNCHANGED <<to_compress, from_compress, fetched, read_cursor, reorder, blob, audio_index>>
  /\ KeptByIo

IoStep == Prefetch \/ NoPrefetch \/ QueueBlock \/ AllQueued \/ PoolDied \/ Receive
          \/ WriteBlock \/ NothingInTurn \/ IoDone

-----------------------------------------------------------------------------
(* The pool and the caller.                                                 *)

KeptByWorker == UNCHANGED <<running, blocks, caller, returns, io, fetched, read_cursor, reorder,
                            blob, audio_index>>

Take(p) ==
  /\ Started
  /\ worker[p] = Idle
  /\ to_compress # << >>
  /\ worker' = [worker EXCEPT ![p] = Head(to_compress)]
  /\ to_compress' = Tail(to_compress)
  /\ UNCHANGED <<from_compress, errors>>
  /\ KeptByWorker

Compressing(p) == worker[p] \in 1..Total

Compressed(p) ==
  /\ Compressing(p)
  /\ IF IoEnded
     THEN worker' = [worker EXCEPT ![p] = Ended] /\ UNCHANGED from_compress
     ELSE /\ worker' = [worker EXCEPT ![p] = Idle]
          /\ from_compress' = Append(from_compress, worker[p])
  /\ UNCHANGED <<to_compress, errors>>
  /\ KeptByWorker

CompressFails(p) ==
  /\ Compressing(p)
  /\ worker' = [worker EXCEPT ![p] = Ended]
  /\ errors' = TRUE
  /\ UNCHANGED <<to_compress, from_compress>>
  /\ KeptByWorker

NoMoreWork(p) ==
  /\ worker[p] = Idle
  /\ IoEnded
  /\ to_compress = << >>
  /\ worker' = [worker EXCEPT ![p] = Ended]
  /\ UNCHANGED <<to_compress, from_compress, errors>>
  /\ KeptByWorker

PoolStep(p) == Take(p) \/ Compressed(p) \/ CompressFails(p) \/ NoMoreWork(p)

KeptByCaller == UNCHANGED <<running, blocks, to_compress, from_compress, errors, worker, io,
                            fetched, read_cursor, reorder, blob, audio_index>>

SeesIoEnd ==
  /\ caller = "poll"
  /\ IoEnded
  /\ caller' = "join"
  /\ UNCHANGED returns
  /\ KeptByCaller

(* The call ends at once, whatever the other threads are doing.             *)
SeesError ==
  /\ caller = "poll"
  /\ errors
  /\ caller' = "returned"
  /\ returns' = "Flac"
  /\ KeptByCaller

(* Mutant of IoResult: the I/O thread's error is not passed on.             *)
IoResultOk == "ok"

IoResult == io

JoinAll ==
  /\ caller = "join"
  /\ PoolEnded
  /\ caller' = "returned"
  /\ returns' = IoResult
  /\ KeptByCaller

CallerStep == SeesIoEnd \/ SeesError \/ JoinAll

AudioStep == IoStep \/ (\E p \in Pool : PoolStep(p)) \/ CallerStep

-----------------------------------------------------------------------------
AudioTypeOK ==
  /\ caller \in {"idle", "poll", "join", "returned"}
  /\ returns \in {"none", "ok", "Worker", "External", "PoolDied", "Flac"}
  /\ worker \in [Pool -> 0..Total \cup {Ended}]
  /\ Len(to_compress) <= PREFETCH_HIGH_THRESHOLD
  /\ read_cursor \in 0..Total
  /\ reorder \subseteq 1..Total

(* Who has to wait for another.                                             *)
IoWaits ==
  \/ IoEnded
  \/ ~PoolEnded /\ io = "send" /\ fetched # << >> /\ Len(to_compress) >= PREFETCH_HIGH_THRESHOLD
  \/ ~PoolEnded /\ io = "receive" /\ from_compress = << >>
PoolWaits(p) == worker[p] = Ended \/ (worker[p] = Idle /\ to_compress = << >> /\ ~IoEnded)
CallerWaits ==
  \/ caller = "poll" /\ ~IoEnded /\ ~errors
  \/ caller = "join" /\ ~PoolEnded
  \/ caller = "returned"
AudioWaits == caller = "idle" \/ (IoWaits /\ CallerWaits /\ \A p \in Pool : PoolWaits(p))
=============================================================================
