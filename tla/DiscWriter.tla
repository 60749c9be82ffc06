----------------------------- MODULE DiscWriter -----------------------------
(***************************************************************************)
(* One turn of the loop of `extract_ssmd_data` (cli_application,           *)
(* modes/extract.rs) with the `write_disc` of lib_ss_cd that it calls: two *)
(* worker threads decompress the data and the audio stream of a disc, each *)
(* into a bounded buffer under a mutex and a condition variable, while the *)
(* calling thread takes one sector after another from the buffer that has  *)
(* it, rebuilds it and writes it to a temporary file, which is renamed     *)
(* when the whole disc has the recorded hash.                              *)
(*                                                                         *)
(* A buffer is the number of bytes in it.  The code between a lock and the *)
(* matching unlock or wait is one step.                                    *)
(*                                                                         *)
(* It has no name in common with Extraction, the other half of             *)
(* modes/extract.rs: one module extends both.                              *)
(***************************************************************************)
EXTENDS Naturals, Sequences

CONSTANTS
  sectors,    (* The disc: each sector's stream and the bytes it takes.    *)
  blocks,     (* For each stream, the decompressed length of its blocks.   *)
  MaxBuffer,  (* MAX_BUFFER_SIZE, 25 MiB in the code.                      *)
  BytesPushed, (* For each stream, what its first n blocks hold.           *)
  BytesTaken, (* For each stream, what the first n sectors take from it.   *)
  DiscFaults   (* What may go wrong in this environment.                   *)

Stream == {"data", "audio"}

TotalSectors == Len(sectors)

ResumeThreshold == MaxBuffer \div 2

(* Every block fits beside a sector that is still incomplete: blocks are   *)
(* at most a FastCDC maximum chunk of 16 MiB, sectors at most 2352 bytes.  *)
ASSUME DiscAssumption ==
  /\ sectors \in Seq([stream : Stream, size : Nat \ {0}])
  /\ blocks \in [Stream -> Seq(Nat \ {0})]
  /\ MaxBuffer \in Nat \ {0}
  /\ \A i \in 1 .. TotalSectors :
       LET s == sectors[i].stream
       IN  /\ sectors[i].size <= ResumeThreshold
           /\ \A b \in DOMAIN blocks[s] :
                blocks[s][b] + sectors[i].size <= MaxBuffer
  /\ DiscFaults \subseteq {"load", "rebuild", "write", "hash", "flush",
                           "rename", "cue"}

(* The running totals, which the properties speak of: any disc and any     *)
(* blocks have them.  An archive has every byte its sectors take.          *)
ASSUME TotalsAssumption ==
  \A s \in Stream :
    /\ BytesPushed[s] \in [0 .. Len(blocks[s]) -> Nat]
    /\ BytesPushed[s][0] = 0
    /\ \A n \in 1 .. Len(blocks[s]) :
         BytesPushed[s][n] = BytesPushed[s][n - 1] + blocks[s][n]
    /\ BytesTaken[s] \in [0 .. TotalSectors -> Nat]
    /\ BytesTaken[s][0] = 0
    /\ \A n \in 1 .. TotalSectors :
         /\ BytesTaken[s][n] = BytesTaken[s][n - 1]
              + (IF sectors[n].stream = s THEN sectors[n].size ELSE 0)
         /\ BytesTaken[s][n] <= BytesPushed[s][Len(blocks[s])]

VARIABLES
  filled,     (* Bytes in the buffer of each stream.                       *)
  finished,   (* The flag beside it: the worker's guard was dropped.       *)
  waiting,    (* Threads waiting on a stream's condition variable.         *)
  error,      (* Streams with an error in their error channel.             *)
  worker_pc,  (* Where each worker is.                                     *)
  pushed,     (* Blocks each worker has put into its buffer.               *)
  main_pc,    (* Where the calling thread is.                              *)
  loop_count, (* Sectors written.                                          *)
  output,     (* The disc image: a temporary file, renamed, or removed.    *)
  cue,        (* The cue sheet that goes with it.                          *)
  disc_result (* What the calling thread is left with.                     *)

buffers == <<filled, finished, waiting>>
workers == <<worker_pc, pushed>>
files   == <<output, cue>>
disc_vars == <<buffers, error, workers, main_pc, loop_count, files,
               disc_result>>

Reasons == {"worker", "premature", "sector", "hash", "flush", "rename", "cue"}

DiscTypeOK ==
  /\ filled \in [Stream -> Nat]
  /\ finished \in [Stream -> BOOLEAN]
  /\ waiting \subseteq Stream \X {"worker", "main"}
  /\ error \subseteq Stream
  /\ worker_pc \in [Stream -> {"load", "lock", "resume", "fit", "failed",
                               "exited"}]
  /\ pushed \in [Stream -> Nat]
  /\ \A s \in Stream : pushed[s] <= Len(blocks[s])
  /\ \A s \in Stream : worker_pc[s] \in {"lock", "resume", "fit"}
                         => pushed[s] < Len(blocks[s])
  /\ main_pc \in {"check", "pull", "wait", "unwind", "finish", "returned"}
  /\ loop_count \in 0 .. TotalSectors
  /\ main_pc \in {"pull", "wait"} => loop_count < TotalSectors
  /\ output \in {"tmp", "final", "removed"}
  /\ cue \in {"none", "partial", "complete"}
  /\ disc_result \in Reasons \cup {"running", "Ok"}

(* The temporary file has been created and its guard is in place.          *)
DiscInit ==
  /\ filled = [s \in Stream |-> 0]
  /\ finished = [s \in Stream |-> FALSE]
  /\ waiting = {}
  /\ error = {}
  /\ worker_pc = [s \in Stream |-> "load"]
  /\ pushed = [s \in Stream |-> 0]
  /\ main_pc = "check"
  /\ loop_count = 0
  /\ output = "tmp"
  /\ cue = "none"
  /\ disc_result = "running"
-----------------------------------------------------------------------------
(***************************************************************************)
(* Mutants: plausible mistakes in the definitions below, which the         *)
(* properties must notice.                                                 *)
(***************************************************************************)

(* WorkerGuardDrop: the flag is set and nobody is told.                    *)
GuardDropQuiet(s) ==
  /\ \/ worker_pc[s] = "load" /\ pushed[s] = Len(blocks[s])
     \/ worker_pc[s] = "failed"
  /\ finished' = [finished EXCEPT ![s] = TRUE]
  /\ worker_pc' = [worker_pc EXCEPT ![s] = "exited"]
  /\ UNCHANGED <<filled, waiting, error, pushed, main_pc, loop_count, files,
                 disc_result>>

(* Drained: the worker is not told of the room that was made.              *)
DrainedQuietly(s) ==
  /\ filled' = [filled EXCEPT ![s] = IF @ < sectors[loop_count + 1].size
                                     THEN 0
                                     ELSE @ - sectors[loop_count + 1].size]
  /\ UNCHANGED waiting

(* Drained: the whole buffer is taken for one sector.                      *)
DrainedWhole(s) ==
  /\ filled' = [filled EXCEPT ![s] = 0]
  /\ waiting' = {t \in waiting : t[1] # s}

(* LeaveScope: the error is dropped on the way out.                        *)
LeaveScopeSilently(reason) ==
  /\ main_pc' = "unwind"
  /\ UNCHANGED disc_result

(* FinishDisc: the guard is defused before the outcome is known.           *)
FinishKeepsFile ==
  /\ main_pc = "finish"
  /\ main_pc' = "returned"
  /\ \/ /\ disc_result # "running"
        /\ UNCHANGED <<output, cue, disc_result>>
     \/ /\ disc_result = "running"
        /\ output' = "final"
        /\ cue' = "complete"
        /\ disc_result' = "Ok"
  /\ UNCHANGED <<buffers, error, workers, loop_count>>
-----------------------------------------------------------------------------
(***************************************************************************)
(* The condition variables.                                                *)
(***************************************************************************)

(* notify_all on the condition variable of stream s.                       *)
NotifyAll(s) == waiting' = {t \in waiting : t[1] # s}

WaitAs(s, thread) == waiting' = waiting \cup {<<s, thread>>}

Awake(s, thread) == <<s, thread>> \notin waiting

(* A condition variable may wake a thread that nobody notified.            *)
SpuriousWakeup ==
  /\ \E t \in waiting : waiting' = waiting \ {t}
  /\ UNCHANGED <<filled, finished, error, workers, main_pc, loop_count, files,
                 disc_result>>
-----------------------------------------------------------------------------
(***************************************************************************)
(* A worker: spawn_chunk_decomp_worker and spawn_audio_decomp_worker.      *)
(***************************************************************************)

mainState == <<main_pc, loop_count, files, disc_result>>

BlockLen(s) == blocks[s][pushed[s] + 1]

(* The block is added even if it is too large for an empty buffer.         *)
HasRoom(s) == filled[s] + BlockLen(s) <= MaxBuffer \/ filled[s] = 0

WorkerLoad(s) ==
  /\ worker_pc[s] = "load"
  /\ pushed[s] < Len(blocks[s])
  /\ \/ /\ worker_pc' = [worker_pc EXCEPT ![s] = "lock"]
        /\ UNCHANGED error
     \/ /\ "load" \in DiscFaults
        /\ error' = error \cup {s}
        /\ worker_pc' = [worker_pc EXCEPT ![s] = "failed"]
  /\ UNCHANGED <<buffers, pushed, mainState>>

(* The second half of a push: wait for room, or add the block.             *)
PushOrWait(s) ==
  \/ /\ ~ HasRoom(s)
     /\ worker_pc' = [worker_pc EXCEPT ![s] = "fit"]
     /\ WaitAs(s, "worker")
     /\ UNCHANGED <<filled, pushed>>
  \/ /\ HasRoom(s)
     /\ filled' = [filled EXCEPT ![s] = @ + BlockLen(s)]
     /\ pushed' = [pushed EXCEPT ![s] = @ + 1]
     /\ worker_pc' = [worker_pc EXCEPT ![s] = "load"]
     /\ NotifyAll(s)

(* The first half: a full buffer is left alone until it is half empty.     *)
WorkerPush(s) ==
  /\ Awake(s, "worker")
  /\ \/ /\ \/ worker_pc[s] = "lock" /\ filled[s] >= MaxBuffer
           \/ worker_pc[s] = "resume"
        /\ filled[s] > ResumeThreshold
        /\ worker_pc' = [worker_pc EXCEPT ![s] = "resume"]
        /\ WaitAs(s, "worker")
        /\ UNCHANGED <<filled, pushed>>
     \/ /\ \/ worker_pc[s] = "lock" /\ filled[s] < MaxBuffer
           \/ worker_pc[s] = "resume" /\ filled[s] <= ResumeThreshold
           \/ worker_pc[s] = "fit"
        /\ PushOrWait(s)
  /\ UNCHANGED <<finished, error, mainState>>

(* Whatever is left to do before the thread ends: nothing, or an error     *)
(* that was sent.                                                          *)
WorkerEnding(s) ==
  \/ worker_pc[s] = "load" /\ pushed[s] = Len(blocks[s])
  \/ worker_pc[s] = "failed"

(* The guard sets the flag and notifies, on every way out.                 *)
WorkerGuardDrop(s) ==
  /\ WorkerEnding(s)
  /\ finished' = [finished EXCEPT ![s] = TRUE]
  /\ NotifyAll(s)
  /\ worker_pc' = [worker_pc EXCEPT ![s] = "exited"]
  /\ UNCHANGED <<filled, error, pushed, mainState>>

WorkerNext(s) == WorkerLoad(s) \/ WorkerPush(s) \/ WorkerGuardDrop(s)
-----------------------------------------------------------------------------
(***************************************************************************)
(* The calling thread.                                                     *)
(***************************************************************************)

Current == sectors[loop_count + 1]

(* An early return from the scope: both workers must end before it does.   *)
LeaveScope(reason) ==
  /\ main_pc' = "unwind"
  /\ disc_result' = reason

(* The error channel is looked at before each sector.                      *)
CheckError ==
  /\ main_pc = "check"
  /\ loop_count < TotalSectors
  /\ \/ /\ Current.stream \in error
        /\ error' = error \ {Current.stream}
        /\ LeaveScope("worker")
     \/ /\ Current.stream \notin error
        /\ main_pc' = "pull"
        /\ UNCHANGED <<error, disc_result>>
  /\ UNCHANGED <<buffers, workers, loop_count, files>>

MustWait(s) == filled[s] < Current.size /\ ~ finished[s]

Drained(s) ==
  /\ filled' = [filled EXCEPT ![s] = IF @ < Current.size THEN 0
                                                         ELSE @ - Current.size]
  /\ NotifyAll(s)

(* A sector that is whole is rebuilt and written.                          *)
TakeSector(s) ==
  \/ /\ filled[s] < Current.size
     /\ LeaveScope("premature")
     /\ UNCHANGED loop_count
  \/ /\ filled[s] >= Current.size
     /\ \/ /\ loop_count' = loop_count + 1
           /\ main_pc' = "check"
           /\ UNCHANGED disc_result
        \/ /\ {"rebuild", "write"} \cap DiscFaults # {}
           /\ LeaveScope("sector")
           /\ UNCHANGED loop_count

PullOrWait(s) ==
  \/ /\ MustWait(s)
     /\ WaitAs(s, "main")
     /\ main_pc' = "wait"
     /\ UNCHANGED <<filled, loop_count, disc_result>>
  \/ /\ ~ MustWait(s)
     /\ Drained(s)
     /\ TakeSector(s)

Pull ==
  /\ main_pc = "pull"
  /\ PullOrWait(Current.stream)
  /\ UNCHANGED <<finished, error, workers, files>>

(* After a wait the error channel is looked at again.                      *)
Woken ==
  /\ main_pc = "wait"
  /\ Awake(Current.stream, "main")
  /\ \/ /\ Current.stream \in error
        /\ error' = error \ {Current.stream}
        /\ LeaveScope("worker")
        /\ UNCHANGED <<filled, waiting, loop_count>>
     \/ /\ Current.stream \notin error
        /\ PullOrWait(Current.stream)
        /\ UNCHANGED error
  /\ UNCHANGED <<finished, workers, files>>

WorkersExited == \A s \in Stream : worker_pc[s] = "exited"

(* Both workers joined; the hash of what was written, the last flush.      *)
JoinAll ==
  /\ main_pc = "check"
  /\ loop_count = TotalSectors
  /\ WorkersExited
  /\ main_pc' = "finish"
  /\ \/ UNCHANGED disc_result
     \/ \E f \in {"hash", "flush"} \cap DiscFaults : disc_result' = f
  /\ UNCHANGED <<buffers, error, workers, loop_count, files>>

Unwind ==
  /\ main_pc = "unwind"
  /\ WorkersExited
  /\ main_pc' = "finish"
  /\ UNCHANGED <<buffers, error, workers, loop_count, files, disc_result>>

(* Back in extract_ssmd_data: the temporary file is renamed and the cue    *)
(* sheet written, or the guard removes it.                                 *)
FinishDisc ==
  /\ main_pc = "finish"
  /\ main_pc' = "returned"
  /\ \/ /\ disc_result # "running"
        /\ output' = "removed"
        /\ UNCHANGED <<cue, disc_result>>
     \/ /\ disc_result = "running"
        /\ "rename" \in DiscFaults
        /\ output' = "removed"
        /\ disc_result' = "rename"
        /\ UNCHANGED cue
     \/ /\ disc_result = "running"
        /\ output' = "final"
        /\ \/ cue' = "complete" /\ disc_result' = "Ok"
           \/ /\ "cue" \in DiscFaults
              /\ cue' \in {"none", "partial"}
              /\ disc_result' = "cue"
  /\ UNCHANGED <<buffers, error, workers, loop_count>>

MainNext == CheckError \/ Pull \/ Woken \/ JoinAll \/ Unwind \/ FinishDisc

Ended == main_pc = "returned" /\ UNCHANGED disc_vars

DiscNext ==
  \/ \E s \in Stream : WorkerNext(s)
  \/ MainNext
  \/ SpuriousWakeup
  \/ Ended

DiscSpec == DiscInit /\ [][DiscNext]_disc_vars

(* Threads that can run do; nothing is owed a spurious wakeup.             *)
Fairness ==
  /\ \A s \in Stream : WF_disc_vars(WorkerNext(s))
  /\ WF_disc_vars(MainNext)

FairSpec == DiscSpec /\ Fairness
-----------------------------------------------------------------------------
(***************************************************************************)
(* Properties.                                                             *)
(***************************************************************************)

(* Bytes neither vanish nor are taken twice: as long as no sector failed,  *)
(* the buffer holds what its worker pushed less what the sectors took.     *)
BytesConserved ==
  main_pc \in {"check", "pull", "wait"} =>
    \A s \in Stream :
      BytesPushed[s][pushed[s]] = BytesTaken[s][loop_count] + filled[s]

(* The calling thread and the worker it waits for never both wait, so one  *)
(* of them always runs: no wakeup is lost, and neither a half empty nor a  *)
(* nearly full buffer stalls both sides.                                   *)
NeverBothWait ==
  \A s \in Stream : ~ (<<s, "worker">> \in waiting /\ <<s, "main">> \in waiting)

(* Whoever waits for a worker waits for one that will still notify.        *)
WaitsForTheLiving ==
  \A s \in Stream : <<s, "main">> \in waiting => worker_pc[s] # "exited"

(* Nobody is left waiting.                                                 *)
NobodyStalls == NeverBothWait /\ WaitsForTheLiving

(* A stream ends early only because its worker failed: the worker never    *)
(* raises the flag while it holds bytes the disc still needs.              *)
PrematureHasCause ==
  disc_result = "premature" => Current.stream \in error

(* The buffers carry each stream's bytes to the disc, in their order, and  *)
(* end early for a cause only.                                             *)
BuffersSafe == DiscTypeOK /\ BytesConserved /\ PrematureHasCause

(* The image takes its final name only when it is whole.                   *)
FinalIsWhole ==
  output = "final" => loop_count = TotalSectors /\ WorkersExited

(* A disc is extracted to its end, unless something goes wrong: no wakeup  *)
(* is lost, and a buffer that is full or nearly full stalls nobody.        *)
Extracts ==
  <>(\/ disc_result = "Ok" /\ cue = "complete"
     \/ disc_result \in Reasons
     \/ error # {})

(* The one way in which the call does not return: it unwinds while a       *)
(* worker waits for room.                                                  *)
Stuck == main_pc = "unwind" /\ \E s \in Stream : <<s, "worker">> \in waiting

(* Otherwise it returns, and its temporary file is renamed or gone.        *)
ReturnsUnlessStuck ==
  <>(Stuck \/ (main_pc = "returned" /\ output # "tmp"))

(* Whatever happens the call returns, and a failed extraction leaves no    *)
(* temporary file behind.                                                  *)
CleansUp == <>(main_pc = "returned" /\ output # "tmp")
=============================================================================
