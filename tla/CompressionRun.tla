--------------------------- MODULE CompressionRun ---------------------------
(***************************************************************************)
(* `default_compression` of cli_application from its start to the exit of  *)
(* the process, and what it leaves on disk: the files are chunked and      *)
(* serialized, each is verified by a thread of its own, the compressed     *)
(* chunks are appended to a temporary file named after the process id, and *)
(* `write_final_archive` writes the archive and removes that file.  The    *)
(* process may crash, and others like it run after it.                     *)
(*                                                                         *)
(* What FileChunker and CompressChunks model is one step here, or one step *)
(* per chunk; a block <<r, i>> is the i-th compressed chunk of run r.      *)
(***************************************************************************)
EXTENDS Naturals, Sequences

CONSTANTS
  FILES,        (* Input files; a verification thread for each.            *)
  CHUNKS,       (* Compressed chunks in the archive.                       *)
  BUFFER_SIZE,  (* Chunks in the write buffer before it is written: 1000.  *)
  BUF_WRITER,   (* Data shorter than this waits in a BufWriter: 8 KiB.     *)
  MAX_RUNS,     (* Bound: how often the program is started.                *)
  PidReuse,     (* May a process have the id of an earlier one?            *)
  Faults        (* What may go wrong in this environment.                  *)

ASSUME RunAssumption ==
  /\ FILES \in Nat \ {0} /\ CHUNKS \in Nat /\ BUFFER_SIZE \in Nat \ {0}
  /\ BUF_WRITER \in Nat /\ MAX_RUNS \in Nat
  /\ PidReuse \in BOOLEAN
  /\ Faults \subseteq {"cancel", "crash", "chunk", "verify", "read",
                       "compress", "open", "write", "remove"}

VARIABLES
  run,             (* How many processes have been started.                *)
  pid,             (* The id of the last one.                              *)
  force,           (* Its --force flag.                                    *)
  pc,              (* Where it is.                                         *)
  running,         (* FALSE once the user has asked it to stop.            *)
  result,          (* How it ended.                                        *)
  verified,        (* What each verification thread has found.             *)
  joined,          (* How many of them have been joined.                   *)
  written,         (* Chunks handed to the write callback.                 *)
  write_buffer,    (* Those it has not written yet.                        *)
  orphan,          (* The I/O thread of a build that returned without it.  *)
  removal_failed,  (* The temporary file could not be removed.             *)
  tmp,             (* For each process id, its temporary file.             *)
  archive,         (* The archive on disk.                                 *)
  before           (* What it was when the process started (history).      *)

args   == <<run, pid, force, before>>
verify == <<verified, joined>>
build  == <<written, write_buffer, orphan>>
disk   == <<tmp, archive, removal_failed>>
vars   == <<args, pc, running, result, verify, build, disk>>

Pid == 1 .. MAX_RUNS
Block == (1 .. MAX_RUNS) \X (1 .. CHUNKS)

(* A file that does not exist; no file is ever this sequence.              *)
Absent == << <<0, 0>> >>

(* An archive: whose header it has, and the blocks after the header.       *)
NoHeader == 0
PartOfHeader == MAX_RUNS + 1
Archive == [header : 0 .. MAX_RUNS + 1, data : Seq(Block)]

NoArchive == [header |-> NoHeader, data |-> << >>]

TypeOK ==
  /\ run \in 0 .. MAX_RUNS
  /\ pid \in 0 .. MAX_RUNS
  /\ force \in BOOLEAN
  /\ pc \in {"idle", "chunk", "serialize", "verify", "build", "header", "copy",
             "remove", "unwind", "returned"}
  /\ running \in BOOLEAN
  /\ result \in {"none", "Ok", "Cancelled", "Error"}
  /\ verified \in [1 .. FILES -> {"none", "reading", "ok", "cancelled",
                                  "failed"}]
  /\ joined \in 0 .. FILES
  /\ written \in 0 .. CHUNKS
  /\ write_buffer \in Seq(Block) /\ Len(write_buffer) <= BUFFER_SIZE
  /\ orphan \in {"none", "running", "ended"}
  /\ removal_failed \in BOOLEAN
  /\ tmp \in [Pid -> Seq(Block) \cup {Absent}]
  /\ archive \in Archive /\ before \in Archive

Init ==
  /\ run = 0 /\ pid = 0 /\ force = FALSE
  /\ pc = "idle" /\ running = TRUE /\ result = "none"
  /\ verified = [f \in 1 .. FILES |-> "none"] /\ joined = 0
  /\ written = 0 /\ write_buffer = << >> /\ orphan = "none"
  /\ tmp = [p \in Pid |-> Absent] /\ removal_failed = FALSE
  /\ archive = NoArchive /\ before = NoArchive
-----------------------------------------------------------------------------
(***************************************************************************)
(* Mutants: plausible mistakes in the definitions below, which the         *)
(* properties must notice.                                                 *)
(***************************************************************************)

(* LeftOver: the buffer is not flushed after the last chunk.               *)
LeftOverIgnored == << >>

(* JoinResult: an error of a verification thread is only logged.           *)
JoinResultIgnored(v) == v # "reading"

(* CancelSeen: the flag is also looked at while the archive is written.    *)
CancelSeenLate ==
  /\ ~ running
  /\ pc \in {"chunk", "serialize", "build", "copy"}

(* VerifyEnds: a thread that is cancelled does not report.                 *)
VerifyEndsQuietly(f) ==
  /\ verified[f] = "reading"
  /\ running
  /\ verified' = [verified EXCEPT ![f] = "ok"]
  /\ UNCHANGED <<args, pc, running, result, joined, build, disk>>
-----------------------------------------------------------------------------
(***************************************************************************)
(* Starting a process.                                                     *)
(***************************************************************************)

(* The output path may lack the suffix the archive will have; only the     *)
(* path as given is looked for.                                            *)
StartRun ==
  /\ pc = "idle"
  /\ run < MAX_RUNS
  /\ run' = run + 1
  /\ pid' \in IF PidReuse THEN Pid ELSE {run'}
  /\ force' \in BOOLEAN
  /\ \E suffix_given \in BOOLEAN :
       (suffix_given /\ archive.header # NoHeader) => force'
  /\ before' = archive
  /\ pc' = "chunk"
  /\ running' = TRUE
  /\ result' = "none"
  /\ verified' = [f \in 1 .. FILES |-> "none"]
  /\ joined' = 0
  /\ written' = 0 /\ write_buffer' = << >> /\ orphan' = "none"
  /\ removal_failed' = FALSE
  /\ UNCHANGED <<tmp, archive>>

Cancel ==
  /\ "cancel" \in Faults
  /\ pc # "idle"
  /\ running
  /\ running' = FALSE
  /\ UNCHANGED <<args, pc, result, verify, build, disk>>

(* The process ends, whatever its threads were doing.                      *)
Exit ==
  /\ \/ pc = "returned"
     \/ "crash" \in Faults /\ pc # "idle"
  /\ pc' = "idle"
  /\ UNCHANGED <<args, running, result, verify, build, disk>>

(* An early return: what has been set up is undone on the way out.         *)
Fail(error) ==
  /\ pc' = "unwind"
  /\ result' = error

(* The callbacks look at the flag before they look at the cache; nothing   *)
(* looks at it once the last chunk has been read.                          *)
CancelSeen ==
  /\ ~ running
  /\ \/ pc \in {"chunk", "serialize"}
     \/ pc = "build" /\ written < CHUNKS
-----------------------------------------------------------------------------
(***************************************************************************)
(* Chunking, serializing, verifying.                                       *)
(***************************************************************************)

Prepare ==
  /\ pc \in {"chunk", "serialize"}
  /\ \/ /\ pc = "chunk"
        /\ pc' = "serialize"
        /\ UNCHANGED <<result, verified>>
     \/ /\ pc = "serialize"
        /\ pc' = "verify"
        /\ verified' = [f \in 1 .. FILES |-> "reading"]
        /\ UNCHANGED result
     \/ /\ "chunk" \in Faults
        /\ Fail("Error")
        /\ UNCHANGED verified
  /\ UNCHANGED <<args, running, joined, build, disk>>

(* Some layers lose what kind of error the callback has returned.          *)
Cancelled ==
  /\ CancelSeen
  /\ Fail("Cancelled") \/ Fail("Error")
  /\ UNCHANGED <<args, running, verify, build, disk>>

(* verify_single_file; the threads not joined yet outlive an early return. *)
VerifyEnds(f) ==
  /\ pc # "idle"
  /\ verified[f] = "reading"
  /\ \E v \in {"ok", "cancelled", "failed"} :
       /\ v = "cancelled" => ~ running
       /\ v = "failed" => "verify" \in Faults
       /\ verified' = [verified EXCEPT ![f] = v]
  /\ UNCHANGED <<args, pc, running, result, joined, build, disk>>

JoinResult(v) == v = "ok"

(* The threads are joined in the order of the files.                       *)
JoinVerify ==
  /\ pc = "verify"
  /\ joined < FILES
  /\ LET v == verified[joined + 1]
     IN  \/ /\ JoinResult(v)
            /\ joined' = joined + 1
            /\ UNCHANGED <<pc, result>>
         \/ /\ ~ JoinResult(v)
            /\ v # "reading"
            /\ Fail(IF v = "cancelled" THEN "Cancelled" ELSE "Error")
            /\ UNCHANGED joined
  /\ UNCHANGED <<args, running, verified, build, disk>>

(* The guard of the temporary file is made before build is called.         *)
VerifyPassed ==
  /\ pc = "verify"
  /\ joined = FILES
  /\ pc' = "build"
  /\ UNCHANGED <<args, running, result, verify, build, disk>>
-----------------------------------------------------------------------------
(***************************************************************************)
(* Building: the temporary file.                                           *)
(***************************************************************************)

OldTmp == IF tmp[pid] = Absent THEN << >> ELSE tmp[pid]

(* append_data_to_file succeeds.                                           *)
AppendData(data) ==
  /\ tmp' = [tmp EXCEPT ![pid] = OldTmp \o data]
  /\ UNCHANGED <<archive, removal_failed>>

(* It fails after it has written some of the data.                         *)
AppendFails(data) ==
  /\ \/ /\ "open" \in Faults
        /\ UNCHANGED tmp
     \/ /\ "write" \in Faults
        /\ Len(data) >= BUF_WRITER
        /\ \E n \in 0 .. Len(data) :
             /\ n < Len(data)
             /\ tmp' = [tmp EXCEPT ![pid] = OldTmp \o SubSeq(data, 1, n)]
  /\ UNCHANGED <<archive, removal_failed>>

(* Data that fits the BufWriter is written when that is dropped, which     *)
(* tells nobody that it could not be.                                      *)
AppendLost(data) ==
  /\ "write" \in Faults
  /\ Len(data) < BUF_WRITER
  /\ \E n \in 0 .. Len(data) :
       /\ n < Len(data)
       /\ tmp' = [tmp EXCEPT ![pid] = OldTmp \o SubSeq(data, 1, n)]
  /\ UNCHANGED <<archive, removal_failed>>

Emptied(buffer) == << >>

(* The write callback, called by the I/O thread of compress_chunks; which  *)
(* may do so after build has returned.                                     *)
WriteChunk ==
  /\ pc = "build" \/ (pc # "idle" /\ orphan = "running")
  /\ written < CHUNKS
  /\ LET buffer == Append(write_buffer, <<run, written + 1>>)
     IN  \/ /\ Len(buffer) < BUFFER_SIZE
            /\ write_buffer' = buffer
            /\ written' = written + 1
            /\ UNCHANGED <<pc, result, orphan, disk>>
         \/ /\ Len(buffer) >= BUFFER_SIZE
            /\ AppendData(buffer) \/ AppendLost(buffer)
            /\ write_buffer' = Emptied(buffer)
            /\ written' = written + 1
            /\ UNCHANGED <<pc, result, orphan>>
         \/ /\ Len(buffer) >= BUFFER_SIZE
            /\ AppendFails(buffer)
            /\ UNCHANGED <<write_buffer, written>>
            /\ \/ pc = "build" /\ Fail("Error") /\ UNCHANGED orphan
               \/ /\ pc # "build"
                  /\ orphan' = "ended"
                  /\ UNCHANGED <<pc, result>>
  /\ UNCHANGED <<args, running, verify>>

(* A chunk cannot be read, or a worker cannot compress one, and then the   *)
(* I/O thread is left to itself.                                           *)
BuildFails ==
  /\ pc = "build"
  /\ \/ "read" \in Faults /\ UNCHANGED orphan
     \/ /\ "compress" \in Faults
        /\ written < CHUNKS
        /\ orphan' = "running"
  /\ Fail("Error")
  /\ UNCHANGED <<args, running, verify, written, write_buffer, disk>>

(* It ends for want of the chunk that was not compressed, if not before.   *)
OrphanEnds ==
  /\ pc # "idle"
  /\ orphan = "running"
  /\ orphan' = "ended"
  /\ UNCHANGED <<args, pc, running, result, verify, written, write_buffer,
                 disk>>

LeftOver == write_buffer

(* The last call of the callback writes what is left, even if it is        *)
(* nothing: there is a temporary file after it.                            *)
Flush ==
  /\ pc = "build"
  /\ written = CHUNKS
  /\ \/ /\ AppendData(LeftOver) \/ AppendLost(LeftOver)
        /\ write_buffer' = << >>
        /\ pc' = "header"
        /\ UNCHANGED result
     \/ /\ AppendFails(LeftOver)
        /\ Fail("Error")
        /\ UNCHANGED write_buffer
  /\ UNCHANGED <<args, running, verify, written, orphan>>
-----------------------------------------------------------------------------
(***************************************************************************)
(* write_final_archive, and the way out.                                   *)
(***************************************************************************)

WriteHeader ==
  /\ pc = "header"
  /\ \/ /\ archive' = [header |-> run, data |-> << >>]
        /\ pc' = "copy"
        /\ UNCHANGED result
     \/ /\ "open" \in Faults
        /\ Fail("Error")
        /\ UNCHANGED archive
     \/ /\ "write" \in Faults
        /\ archive' = [header |-> PartOfHeader, data |-> << >>]
        /\ Fail("Error")
  /\ UNCHANGED <<args, running, verify, build, tmp, removal_failed>>

CopyBlob ==
  /\ pc = "copy"
  /\ \/ /\ archive' = [archive EXCEPT !.data = tmp[pid]]
        /\ pc' = "remove"
        /\ UNCHANGED result
     \/ /\ {"open", "write"} \cap Faults # {}
        /\ \E n \in 0 .. Len(tmp[pid]) :
             /\ "write" \notin Faults => n = 0
             /\ archive' = [archive EXCEPT !.data = SubSeq(tmp[pid], 1, n)]
        /\ Fail("Error")
  /\ UNCHANGED <<args, running, verify, build, tmp, removal_failed>>

RemoveTmp ==
  /\ pc = "remove"
  /\ pc' = "unwind"
  /\ \/ /\ tmp' = [tmp EXCEPT ![pid] = Absent]
        /\ result' = "Ok"
     \/ /\ "remove" \in Faults
        /\ result' = "Error"
        /\ UNCHANGED tmp
  /\ UNCHANGED <<args, running, verify, build, archive, removal_failed>>

(* The guard removes the temporary file, if there is one and it can; a     *)
(* failure is logged.  Before build there is neither a guard nor a file    *)
(* of this process.                                                        *)
GuardDrop ==
  \/ /\ tmp' = [tmp EXCEPT ![pid] = Absent]
     /\ UNCHANGED removal_failed
  \/ /\ "remove" \in Faults
     /\ tmp[pid] # Absent
     /\ removal_failed' = TRUE
     /\ UNCHANGED tmp

Guarded == FILES = joined

Unwind ==
  /\ pc = "unwind"
  /\ pc' = "returned"
  /\ \/ Guarded /\ GuardDrop
     \/ ~ Guarded /\ UNCHANGED <<tmp, removal_failed>>
  /\ UNCHANGED <<args, running, result, verify, build, archive>>

Step ==
  \/ Prepare
  \/ Cancelled
  \/ JoinVerify
  \/ VerifyPassed
  \/ WriteChunk
  \/ Flush
  \/ WriteHeader
  \/ CopyBlob
  \/ RemoveTmp
  \/ Unwind

(* Every run has been made.                                                *)
Done == pc = "idle" /\ run = MAX_RUNS /\ UNCHANGED vars

Next ==
  \/ StartRun
  \/ Step
  \/ \E f \in 1 .. FILES : VerifyEnds(f)
  \/ BuildFails
  \/ OrphanEnds
  \/ Cancel
  \/ Exit
  \/ Done

Spec == Init /\ [][Next]_vars

(* A process goes on when it can.  Nothing need fail, be cancelled or      *)
(* crash, and nobody need start the program.                               *)
Fairness ==
  /\ WF_vars(Step)
  /\ \A f \in 1 .. FILES : WF_vars(VerifyEnds(f))

FairSpec == Spec /\ Fairness
-----------------------------------------------------------------------------
(***************************************************************************)
(* Properties.                                                             *)
(***************************************************************************)

Complete(a) ==
  /\ a.header \in 1 .. MAX_RUNS
  /\ a.data = [i \in 1 .. CHUNKS |-> <<a.header, i>>]

(* Ok means a whole archive, with the chunks of this run at the places its *)
(* own index gives, whatever earlier runs have left behind.                *)
OkIsComplete == result = "Ok" => archive.header = run /\ Complete(archive)

(* No archive is touched before every file has been read back with the     *)
(* hash of the original.                                                   *)
OnlyVerifiedIsWritten ==
  archive # before => \A f \in 1 .. FILES : verified[f] = "ok"

(* A cancelled run leaves the archive that was there as it was, and        *)
(* nothing in the temporary directory.                                     *)
CancelLeavesNothing ==
  (result = "Cancelled" /\ pc = "returned" /\ ~ removal_failed) =>
    ~ running /\ archive = before /\ tmp[pid] = Absent

(* Whatever happened, the temporary file is gone when the call returns,    *)
(* unless it could not be removed.                                         *)
TmpRemoved ==
  (pc = "returned" /\ ~ removal_failed) => tmp[pid] = Absent

(* The same, but for a run whose I/O thread was left behind.               *)
TmpRemovedIfJoined == orphan = "none" => TmpRemoved

(* All of these: nothing is written before it is verified, and the         *)
(* temporary file does not outlive the call.                               *)
Safe == TypeOK /\ OnlyVerifiedIsWritten /\ TmpRemovedIfJoined

(* Every run comes to its end.                                             *)
RunEnds == (pc # "idle") ~> (pc \in {"returned", "idle"})
=============================================================================
