------------------------ MODULE CompressionRunProofs ------------------------
(***************************************************************************)
(* Proofs of the invariants of CompressionRun, for any number of files,    *)
(* chunks, runs and any faults.  Those that depend on what earlier         *)
(* processes left behind assume that no process id is used twice, and      *)
(* OkComplete that no data is short enough to wait in a BufWriter.  TLC    *)
(* refutes it with PidReuse, and with BUF_WRITER above one.                *)
(***************************************************************************)
EXTENDS CompressionRun, SequenceTheorems, TLAPS

-----------------------------------------------------------------------------
(***************************************************************************)
(* Sequences of blocks.                                                    *)
(***************************************************************************)

(* The first n blocks of run r: the blob when n of them were written.      *)
Blob(r, n) == [i \in 1 .. n |-> <<r, i>>]

(* A file that exists is never the value that stands for one that does     *)
(* not.                                                                    *)
LEMMA AbsentIsNoFile == Absent \notin Seq(Block)
<1>1. SUFFICES ASSUME Absent \in Seq(Block) PROVE FALSE
  OBVIOUS
<1>2. Absent[1] = <<0, 0>> /\ Len(Absent) = 1
  BY DEF Absent
<1>3. Absent[1] \in Block
  BY <1>1, <1>2
<1>4. <<0, 0>> \notin Block
  BY RunAssumption DEF Block, RunAssumption
<1> QED
  BY <1>2, <1>3, <1>4

(* A prefix of a sequence of blocks is one.                                *)
LEMMA PrefixIsBlocks ==
  ASSUME NEW s \in Seq(Block), NEW n \in 0 .. Len(s)
  PROVE  SubSeq(s, 1, n) \in Seq(Block)
OBVIOUS

LEMMA EmptyIsBlocks == << >> \in Seq(Block) /\ Len(<< >>) = 0
OBVIOUS

LEMMA NoArchiveType == NoArchive \in Archive
BY RunAssumption, EmptyIsBlocks
   DEF NoArchive, Archive, NoHeader, RunAssumption

(* The next block extends the blob.                                        *)
LEMMA BlobGrows ==
  ASSUME NEW r, NEW n \in Nat, <<r, n + 1>> \in Block,
         NEW s \in Seq(Block), NEW t \in Seq(Block),
         s \o t = Blob(r, n)
  PROVE  s \o Append(t, <<r, n + 1>>) = Blob(r, n + 1)
<1> DEFINE b == <<r, n + 1>>
<1>1. b \in Block
  OBVIOUS
<1> HIDE DEF b
<1>2. Append(t, b) = t \o <<b>> /\ Append(s \o t, b) = (s \o t) \o <<b>>
  BY <1>1, AppendIsConcat, ConcatProperties
<1>3. s \o Append(t, b) = Append(s \o t, b)
  BY <1>1, <1>2, ConcatAssociative
<1>4. Append(Blob(r, n), <<r, n + 1>>) = Blob(r, n + 1)
  BY DEF Blob
<1> QED
  BY <1>3, <1>4 DEF b
-----------------------------------------------------------------------------
(***************************************************************************)
(* Type correctness.                                                       *)
(***************************************************************************)

(* A process that runs has a number and an id, and what it copies exists.  *)
PlaceInv ==
  /\ pc # "idle" => run \in Pid /\ pid \in Pid
  /\ pc \in {"header", "copy"} => tmp[pid] # Absent

TypeInv == TypeOK /\ PlaceInv

(* append_data_to_file, whatever becomes of it, leaves blocks in the file  *)
(* of this process.                                                        *)
LEMMA AppendType ==
  ASSUME TypeInv, pc # "idle", NEW data \in Seq(Block),
         AppendData(data) \/ AppendLost(data) \/ AppendFails(data)
  PROVE  /\ tmp' \in [Pid -> Seq(Block) \cup {Absent}]
         /\ UNCHANGED <<archive, removal_failed>>
         /\ (AppendData(data) \/ AppendLost(data)) => tmp'[pid] # Absent
         /\ tmp[pid] # Absent => tmp'[pid] # Absent
<1>1. pid \in Pid /\ OldTmp \in Seq(Block)
  BY DEF TypeInv, TypeOK, PlaceInv, OldTmp
<1>2. ASSUME NEW d \in Seq(Block) PROVE OldTmp \o d \in Seq(Block)
  BY <1>1, <1>2, ConcatProperties
<1>3. ASSUME NEW n \in 0 .. Len(data) PROVE SubSeq(data, 1, n) \in Seq(Block)
  BY <1>3, PrefixIsBlocks
<1>4. ASSUME NEW d \in Seq(Block),
             tmp' = [tmp EXCEPT ![pid] = OldTmp \o d]
      PROVE  /\ tmp' \in [Pid -> Seq(Block) \cup {Absent}]
             /\ tmp'[pid] # Absent
  BY <1>1, <1>2, <1>4, AbsentIsNoFile DEF TypeInv, TypeOK
<1>5. CASE AppendData(data)
  BY <1>4, <1>5 DEF AppendData
<1>6. CASE AppendLost(data)
  BY <1>3, <1>4, <1>6 DEF AppendLost
<1>7. CASE AppendFails(data)
  <2>1. UNCHANGED <<archive, removal_failed>>
    BY <1>7 DEF AppendFails
  <2>2. tmp' \in [Pid -> Seq(Block) \cup {Absent}]
    BY <1>3, <1>4, <1>7 DEF AppendFails, TypeInv, TypeOK
  <2>3. /\ (AppendData(data) \/ AppendLost(data)) => tmp'[pid] # Absent
        /\ tmp[pid] # Absent => tmp'[pid] # Absent
    BY <1>3, <1>4, <1>7 DEF AppendData, AppendLost, AppendFails
  <2> QED
    BY <2>1, <2>2, <2>3
<1> QED
  BY <1>5, <1>6, <1>7

(* The number of the running process and of its next chunk make a block.   *)
LEMMA BlockType ==
  ASSUME TypeInv, pc # "idle", written < CHUNKS
  PROVE  <<run, written + 1>> \in Block
BY RunAssumption DEF TypeInv, TypeOK, PlaceInv, Pid, Block, RunAssumption

LEMMA TypeInit == Init => TypeInv
<1> SUFFICES ASSUME Init PROVE TypeInv
  OBVIOUS
<1> USE RunAssumption DEF Init, RunAssumption
<1>1. write_buffer \in Seq(Block) /\ Len(write_buffer) <= BUFFER_SIZE
  BY EmptyIsBlocks
<1>2. archive \in Archive /\ before \in Archive
  BY NoArchiveType
<1>3. tmp \in [Pid -> Seq(Block) \cup {Absent}]
  OBVIOUS
<1>4. /\ run \in 0 .. MAX_RUNS /\ pid \in 0 .. MAX_RUNS
      /\ joined \in 0 .. FILES /\ written \in 0 .. CHUNKS
  OBVIOUS
<1> QED
  BY <1>1, <1>2, <1>3, <1>4 DEF TypeInv, TypeOK, PlaceInv

LEMMA TypeStep == TypeInv /\ [Next]_vars => TypeInv'
<1> SUFFICES ASSUME TypeInv, [Next]_vars PROVE TypeInv'
  OBVIOUS
<1> USE RunAssumption DEF TypeInv, PlaceInv, RunAssumption
<1>1. CASE StartRun
  <2>1. run' \in Pid /\ pid' \in Pid
    BY <1>1 DEF StartRun, TypeOK, Pid
  <2>2. write_buffer' \in Seq(Block) /\ Len(write_buffer') <= BUFFER_SIZE
    BY <1>1, EmptyIsBlocks DEF StartRun
  <2>3. pc' = "chunk" /\ PlaceInv'
    BY <1>1, <2>1 DEF StartRun
  <2> QED
    <3>1. /\ run' \in 0 .. MAX_RUNS /\ pid' \in 0 .. MAX_RUNS
          /\ joined' \in 0 .. FILES /\ written' \in 0 .. CHUNKS
      BY <1>1, <2>1 DEF StartRun, Pid
    <3>2. verified' \in [1 .. FILES -> {"none", "reading", "ok", "cancelled",
                                       "failed"}]
      BY <1>1 DEF StartRun
    <3>3. /\ force' \in BOOLEAN /\ running' \in BOOLEAN /\ result' = "none"
          /\ orphan' = "none" /\ removal_failed' \in BOOLEAN
      BY <1>1 DEF StartRun
    <3>4. /\ tmp' \in [Pid -> Seq(Block) \cup {Absent}]
          /\ archive' \in Archive /\ before' \in Archive
      BY <1>1 DEF StartRun, TypeOK
    <3> QED
      BY <2>2, <2>3, <3>1, <3>2, <3>3, <3>4 DEF TypeOK
<1>2. CASE Prepare
  BY <1>2 DEF Prepare, Fail, TypeOK, args, build, disk
<1>3. CASE Cancelled
  BY <1>3 DEF Cancelled, CancelSeen, Fail, TypeOK, args, verify, build, disk
<1>4. CASE JoinVerify
  BY <1>4 DEF JoinVerify, Fail, TypeOK, args, build, disk
<1>5. CASE VerifyPassed
  BY <1>5 DEF VerifyPassed, TypeOK, args, verify, build, disk
<1>6. CASE WriteChunk
  <2> DEFINE buffer == Append(write_buffer, <<run, written + 1>>)
  <2>1. pc # "idle" /\ written < CHUNKS
    BY <1>6 DEF WriteChunk
  <2>2. /\ buffer \in Seq(Block)
        /\ Len(buffer) = Len(write_buffer) + 1
        /\ written + 1 \in 0 .. CHUNKS
    BY <2>1, BlockType DEF TypeOK
  <2>3. UNCHANGED <<args, running, verify>>
    BY <1>6 DEF WriteChunk
  <2> HIDE DEF buffer
  <2>4. CASE /\ Len(buffer) < BUFFER_SIZE
             /\ write_buffer' = buffer
             /\ written' = written + 1
             /\ UNCHANGED <<pc, result, orphan, disk>>
    BY <2>1, <2>2, <2>3, <2>4 DEF TypeOK, args, verify, disk
  <2>5. CASE /\ AppendData(buffer) \/ AppendLost(buffer)
             /\ write_buffer' = << >>
             /\ written' = written + 1
             /\ UNCHANGED <<pc, result, orphan>>
    <3>1. /\ tmp' \in [Pid -> Seq(Block) \cup {Absent}]
          /\ UNCHANGED <<archive, removal_failed>>
          /\ tmp'[pid] # Absent
      BY <2>1, <2>2, <2>5, AppendType
    <3> QED
      BY <2>1, <2>2, <2>3, <2>5, <3>1 DEF TypeOK, args, verify
  <2>6. CASE /\ AppendFails(buffer)
             /\ UNCHANGED <<write_buffer, written>>
             /\ \/ pc = "build" /\ Fail("Error") /\ UNCHANGED orphan
                \/ /\ pc # "build"
                   /\ orphan' = "ended"
                   /\ UNCHANGED <<pc, result>>
    <3>1. /\ tmp' \in [Pid -> Seq(Block) \cup {Absent}]
          /\ UNCHANGED <<archive, removal_failed>>
          /\ tmp[pid] # Absent => tmp'[pid] # Absent
      BY <2>1, <2>2, <2>6, AppendType
    <3> QED
      BY <2>1, <2>3, <2>6, <3>1 DEF TypeOK, Fail, args, verify
  <2> QED
    BY <1>6, <2>4, <2>5, <2>6 DEF WriteChunk, Emptied, buffer
<1>7. CASE Flush
  <2>1. /\ pc # "idle" /\ write_buffer \in Seq(Block)
        /\ UNCHANGED <<args, running, verify, written, orphan>>
    BY <1>7 DEF Flush, TypeOK
  <2>2. CASE /\ AppendData(write_buffer) \/ AppendLost(write_buffer)
             /\ write_buffer' = << >>
             /\ pc' = "header"
             /\ UNCHANGED result
    <3>1. /\ tmp' \in [Pid -> Seq(Block) \cup {Absent}]
          /\ UNCHANGED <<archive, removal_failed>>
          /\ tmp'[pid] # Absent
      BY <2>1, <2>2, AppendType
    <3> QED
      BY <2>1, <2>2, <3>1 DEF TypeOK, args, verify
  <2>3. CASE /\ AppendFails(write_buffer)
             /\ Fail("Error")
             /\ UNCHANGED write_buffer
    <3>1. /\ tmp' \in [Pid -> Seq(Block) \cup {Absent}]
          /\ UNCHANGED <<archive, removal_failed>>
      BY <2>1, <2>3, AppendType
    <3> QED
      BY <2>1, <2>3, <3>1 DEF TypeOK, Fail, args, verify
  <2> QED
    BY <1>7, <2>2, <2>3 DEF Flush, LeftOver
<1>8. CASE WriteHeader
  <2>1. ASSUME NEW h \in 0 .. MAX_RUNS + 1
        PROVE  [header |-> h, data |-> << >>] \in Archive
    BY EmptyIsBlocks DEF Archive
  <2>2. run \in 0 .. MAX_RUNS + 1 /\ PartOfHeader \in 0 .. MAX_RUNS + 1
    BY DEF TypeOK, PartOfHeader
  <2>3. archive' \in Archive
    BY <1>8, <2>1, <2>2 DEF WriteHeader, TypeOK
  <2> QED
    BY <1>8, <2>3 DEF WriteHeader, Fail, TypeOK, args, verify, build
<1>9. CASE CopyBlob
  <2>1. /\ pc = "copy" /\ pid \in Pid /\ tmp[pid] \in Seq(Block)
        /\ UNCHANGED <<args, running, verify, build, tmp, removal_failed>>
    BY <1>9 DEF CopyBlob, TypeOK
  <2>2. archive' \in Archive
    <3>1. ASSUME NEW d \in Seq(Block)
          PROVE  [archive EXCEPT !.data = d] \in Archive
      BY DEF TypeOK, Archive
    <3>2. \/ archive' = [archive EXCEPT !.data = tmp[pid]]
          \/ \E n \in 0 .. Len(tmp[pid]) :
               archive' = [archive EXCEPT !.data = SubSeq(tmp[pid], 1, n)]
      BY <1>9 DEF CopyBlob
    <3> QED
      BY <2>1, <3>1, <3>2, PrefixIsBlocks
  <2>3. pc' \in {"remove", "unwind"} /\ result' \in {result, "Error"}
    BY <1>9 DEF CopyBlob, Fail
  <2> QED
    BY <2>1, <2>2, <2>3 DEF TypeOK, args, verify, build
<1>10. CASE RemoveTmp
  BY <1>10 DEF RemoveTmp, TypeOK, args, verify, build
<1>11. CASE Unwind
  BY <1>11 DEF Unwind, GuardDrop, TypeOK, args, verify, build
<1>12. ASSUME NEW f \in 1 .. FILES, VerifyEnds(f) PROVE TypeInv'
  BY <1>12 DEF VerifyEnds, TypeOK, args, build, disk
<1>13. CASE BuildFails
  BY <1>13 DEF BuildFails, Fail, TypeOK, args, verify, disk
<1>14. CASE OrphanEnds
  BY <1>14 DEF OrphanEnds, TypeOK, args, verify, disk
<1>15. CASE Cancel
  BY <1>15 DEF Cancel, TypeOK, args, verify, build, disk
<1>16. CASE Exit
  BY <1>16 DEF Exit, TypeOK, args, verify, build, disk
<1>17. CASE UNCHANGED vars
  BY <1>17 DEF vars, TypeOK, args, verify, build, disk
<1> QED
  BY <1>1, <1>2, <1>3, <1>4, <1>5, <1>6, <1>7, <1>8, <1>9, <1>10, <1>11,
     <1>12, <1>13, <1>14, <1>15, <1>16, <1>17 DEF Next, Step, Done

(* Every variable keeps its type: the write buffer never holds more than   *)
(* the chunks it is meant for, and files hold blocks.                      *)
THEOREM TypeCorrect == Spec => []TypeOK
<1>1. TypeInv => TypeOK
  BY DEF TypeInv
<1> QED
  BY TypeInit, TypeStep, <1>1, PTL DEF Spec
-----------------------------------------------------------------------------
(***************************************************************************)
(* Nothing is written before everything is verified.                       *)
(***************************************************************************)

(* The threads that were joined have found their file good; only when all  *)
(* have been is the archive touched.                                       *)
VerifyInv ==
  /\ \A f \in 1 .. joined : verified[f] = "ok"
  /\ pc \in {"chunk", "serialize"} => joined = 0
  /\ pc \in {"build", "header", "copy", "remove"} => joined = FILES
  /\ archive # before => joined = FILES

LEMMA VerifyInit == Init => VerifyInv
BY DEF Init, VerifyInv

LEMMA VerifyStep == TypeInv /\ VerifyInv /\ [Next]_vars => VerifyInv'
<1> SUFFICES ASSUME TypeInv, VerifyInv, [Next]_vars PROVE VerifyInv'
  OBVIOUS
<1>1. joined \in 0 .. FILES
  BY DEF TypeInv, TypeOK
<1> USE RunAssumption DEF VerifyInv, RunAssumption
<1>2. CASE StartRun
  BY <1>2 DEF StartRun
<1>3. CASE Prepare
  BY <1>1, <1>3 DEF Prepare, Fail, args, build, disk
<1>4. CASE Cancelled
  BY <1>4 DEF Cancelled, Fail, args, verify, build, disk
<1>5. CASE JoinVerify
  BY <1>1, <1>5 DEF JoinVerify, JoinResult, Fail, args, build, disk
<1>6. CASE VerifyPassed
  BY <1>6 DEF VerifyPassed, args, verify, build, disk
<1>7. CASE WriteChunk \/ Flush
  <2>1. UNCHANGED <<args, verify, archive>>
    BY <1>7
       DEF WriteChunk, Flush, AppendData, AppendLost, AppendFails, disk
  <2>2. pc' \in {pc, "unwind"} \/ (pc = "build" /\ pc' = "header")
    BY <1>7 DEF WriteChunk, Flush, Fail
  <2> QED
    BY <2>1, <2>2 DEF args, verify
<1>8. CASE WriteHeader \/ CopyBlob
  <2>1. /\ pc \in {"header", "copy"}
        /\ pc' \in {"copy", "remove", "unwind"}
        /\ UNCHANGED <<args, verify>>
    BY <1>8 DEF WriteHeader, CopyBlob, Fail
  <2> QED
    BY <2>1 DEF args, verify
<1>9. CASE RemoveTmp
  BY <1>9 DEF RemoveTmp, args, verify
<1>10. CASE Unwind
  BY <1>10 DEF Unwind, args, verify
<1>11. ASSUME NEW f \in 1 .. FILES, VerifyEnds(f) PROVE VerifyInv'
  <2>1. UNCHANGED <<args, pc, joined, disk>>
    BY <1>11 DEF VerifyEnds
  <2>2. \A g \in 1 .. joined : verified'[g] = verified[g]
    BY <1>1, <1>11 DEF VerifyEnds
  <2> QED
    BY <2>1, <2>2 DEF args, disk
<1>12. CASE BuildFails
  BY <1>12 DEF BuildFails, Fail, args, verify, disk
<1>13. CASE OrphanEnds \/ Cancel \/ Exit
  BY <1>13 DEF OrphanEnds, Cancel, Exit, args, verify, disk
<1>14. CASE UNCHANGED vars
  BY <1>14 DEF vars, args, verify, disk
<1> QED
  BY <1>2, <1>3, <1>4, <1>5, <1>6, <1>7, <1>8, <1>9, <1>10, <1>11, <1>12,
     <1>13, <1>14 DEF Next, Step, Done

(* The archive that was there is not touched before every file has been    *)
(* read back with the hash of the original: whatever fails, is cancelled   *)
(* or was left behind.                                                     *)
THEOREM VerifiedFirst == Spec => []OnlyVerifiedIsWritten
<1>1. VerifyInv => OnlyVerifiedIsWritten
  BY DEF VerifyInv, OnlyVerifiedIsWritten
<1> QED
  BY TypeInit, TypeStep, VerifyInit, VerifyStep, <1>1, PTL DEF Spec
-----------------------------------------------------------------------------
(***************************************************************************)
(* The temporary file, when no process id is used twice.                   *)
(***************************************************************************)

(* The file of this process appears only once the guard is there; the      *)
(* guard removes it; and only an I/O thread left behind makes it again.    *)
TmpInv ==
  /\ pc # "idle" => pid = run
  /\ \A p \in Pid : p > run => tmp[p] = Absent
  /\ pc \in {"chunk", "serialize", "verify"} => tmp[pid] = Absent
  /\ pc \notin {"idle", "unwind", "returned"} =>
       orphan = "none" /\ result = "none"
  /\ pc = "unwind" /\ ~ Guarded => tmp[pid] = Absent /\ orphan = "none"
  /\ pc = "returned" /\ ~ removal_failed /\ orphan = "none" =>
       tmp[pid] = Absent

(* Only a run that was cancelled says so, and it has touched no archive.   *)
CancelInv ==
  /\ \A f \in 1 .. FILES : verified[f] = "cancelled" => ~ running
  /\ pc \in {"chunk", "serialize", "verify", "build", "header"} =>
       archive = before
  /\ result = "Cancelled" => ~ running /\ orphan = "none" /\ archive = before

LEMMA TmpInit == ~ PidReuse /\ Init => TmpInv /\ CancelInv
BY DEF Init, TmpInv, CancelInv

LEMMA TmpStep ==
  ~ PidReuse /\ TypeInv /\ VerifyInv /\ TmpInv /\ [Next]_vars => TmpInv'
<1> SUFFICES ASSUME ~ PidReuse, TypeInv, VerifyInv, TmpInv, [Next]_vars
             PROVE  TmpInv'
  OBVIOUS
<1>1. /\ run \in 0 .. MAX_RUNS
      /\ pc # "idle" => run \in Pid /\ pid \in Pid /\ pid = run
      /\ tmp \in [Pid -> Seq(Block) \cup {Absent}]
  BY DEF TypeInv, TypeOK, PlaceInv, TmpInv
<1> USE RunAssumption DEF TmpInv, Guarded, RunAssumption
<1>2. CASE StartRun
  <2>1. run' = run + 1 /\ pid' = run' /\ pid' \in Pid /\ tmp' = tmp
    BY <1>1, <1>2 DEF StartRun, Pid
  <2>2. \A p \in Pid : p > run' => tmp'[p] = Absent
    BY <1>1, <2>1 DEF Pid
  <2>3. tmp'[pid'] = Absent
    BY <1>1, <2>1 DEF Pid
  <2> QED
    BY <1>2, <2>1, <2>2, <2>3 DEF StartRun
<1>3. CASE Prepare
  BY <1>3 DEF Prepare, Fail, VerifyInv, args, build, disk
<1>4. CASE Cancelled
  BY <1>4 DEF Cancelled, CancelSeen, Fail, VerifyInv, args, verify, build,
              disk
<1>5. CASE JoinVerify
  BY <1>5 DEF JoinVerify, Fail, args, build, disk
<1>6. CASE VerifyPassed
  BY <1>6 DEF VerifyPassed, args, verify, build, disk
<1>7. CASE WriteChunk \/ Flush
  <2>1. UNCHANGED <<args, verify>> /\ removal_failed' = removal_failed
    BY <1>7
       DEF WriteChunk, Flush, AppendData, AppendLost, AppendFails, disk
  <2>2. \A p \in Pid : p # pid => tmp'[p] = tmp[p]
    BY <1>1, <1>7
       DEF WriteChunk, Flush, AppendData, AppendLost, AppendFails, disk
  <2>3. \/ pc = "build" /\ orphan = "none" /\ UNCHANGED orphan
        \/ pc \in {"unwind", "returned"} /\ orphan = "running"
    BY <1>7 DEF WriteChunk, Flush
  <2>4. CASE pc = "build" /\ orphan = "none" /\ UNCHANGED orphan
    <3>1. \/ pc' \in {"build", "header"} /\ UNCHANGED result
          \/ pc' = "unwind"
      BY <1>7, <2>4 DEF WriteChunk, Flush, Fail
    <3> QED
      BY <1>1, <2>1, <2>2, <2>4, <3>1 DEF VerifyInv, args, verify, Pid
  <2>5. CASE pc \in {"unwind", "returned"} /\ orphan = "running"
    <3>1. pc' = pc /\ orphan' \in {"running", "ended"}
      BY <1>7, <2>5 DEF WriteChunk, Flush
    <3> QED
      BY <1>1, <2>1, <2>2, <2>5, <3>1 DEF args, verify, Pid
  <2> QED
    BY <2>3, <2>4, <2>5
<1>8. CASE WriteHeader \/ CopyBlob
  <2>1. /\ pc \in {"header", "copy"}
        /\ \/ pc' \in {"copy", "remove"} /\ UNCHANGED result
           \/ pc' = "unwind"
        /\ UNCHANGED <<args, verify, build, tmp>>
    BY <1>8 DEF WriteHeader, CopyBlob, Fail
  <2> QED
    BY <2>1 DEF VerifyInv, args, verify, build
<1>9. CASE RemoveTmp
  <2>1. /\ pc = "remove" /\ pc' = "unwind"
        /\ UNCHANGED <<args, verify, build>>
        /\ \A p \in Pid : p # pid => tmp'[p] = tmp[p]
    BY <1>1, <1>9 DEF RemoveTmp
  <2> QED
    BY <1>1, <2>1 DEF VerifyInv, args, verify, build, Pid
<1>10. CASE Unwind
  <2>1. /\ pc = "unwind" /\ pc' = "returned"
        /\ UNCHANGED <<args, verify, build>>
        /\ \A p \in Pid : p # pid => tmp'[p] = tmp[p]
    BY <1>1, <1>10 DEF Unwind, GuardDrop
  <2>2. tmp'[pid] = Absent \/ removal_failed'
    BY <1>1, <1>10 DEF Unwind, GuardDrop
  <2> QED
    BY <1>1, <2>1, <2>2 DEF args, verify, build, Pid
<1>11. ASSUME NEW f \in 1 .. FILES, VerifyEnds(f) PROVE TmpInv'
  BY <1>11 DEF VerifyEnds, args, build, disk
<1>12. CASE BuildFails
  BY <1>12 DEF BuildFails, Fail, VerifyInv, args, verify, disk
<1>13. CASE OrphanEnds
  BY <1>13 DEF OrphanEnds, args, verify, disk
<1>14. CASE Cancel \/ Exit
  BY <1>14 DEF Cancel, Exit, args, verify, build, disk
<1>15. CASE UNCHANGED vars
  BY <1>15 DEF vars, args, verify, build, disk
<1> QED
  BY <1>2, <1>3, <1>4, <1>5, <1>6, <1>7, <1>8, <1>9, <1>10, <1>11, <1>12,
     <1>13, <1>14, <1>15 DEF Next, Step, Done

LEMMA CancelStep ==
  TypeInv /\ TmpInv /\ CancelInv /\ [Next]_vars => CancelInv'
<1> SUFFICES ASSUME TypeInv, TmpInv, CancelInv, [Next]_vars PROVE CancelInv'
  OBVIOUS
<1>1. /\ joined \in 0 .. FILES
      /\ verified \in [1 .. FILES -> {"none", "reading", "ok", "cancelled",
                                      "failed"}]
  BY DEF TypeInv, TypeOK
<1>2. pc \notin {"idle", "unwind", "returned"} =>
        orphan = "none" /\ result = "none"
  BY DEF TmpInv
<1> USE RunAssumption DEF CancelInv, RunAssumption
<1>3. CASE StartRun
  BY <1>3 DEF StartRun
<1>4. CASE Prepare
  BY <1>4 DEF Prepare, Fail, args, build, disk
<1>5. CASE Cancelled
  BY <1>2, <1>5 DEF Cancelled, CancelSeen, Fail, args, verify, build, disk
<1>6. CASE JoinVerify
  BY <1>1, <1>2, <1>6 DEF JoinVerify, Fail, args, build, disk
<1>7. CASE VerifyPassed
  BY <1>7 DEF VerifyPassed, args, verify, build, disk
<1>8. CASE WriteChunk \/ Flush
  <2>1. UNCHANGED <<args, running, verify, archive>>
    BY <1>8
       DEF WriteChunk, Flush, AppendData, AppendLost, AppendFails, disk
  <2>2. \/ pc = "build" /\ pc' \in {"build", "header", "unwind"}
           /\ result' \in {result, "Error"} /\ UNCHANGED orphan
        \/ orphan = "running" /\ UNCHANGED <<pc, result>>
    BY <1>2, <1>8 DEF WriteChunk, Flush, Fail
  <2> QED
    BY <2>1, <2>2 DEF args, verify
<1>9. CASE WriteHeader \/ CopyBlob \/ RemoveTmp
  <2>1. /\ pc' \in {"copy", "remove", "unwind"}
        /\ result' \in {"none", "Ok", "Error"}
        /\ UNCHANGED <<args, running, verify, build>>
    BY <1>2, <1>9 DEF WriteHeader, CopyBlob, RemoveTmp, Fail
  <2> QED
    BY <2>1 DEF args, verify, build
<1>10. CASE Unwind
  BY <1>10 DEF Unwind, args, verify, build
<1>11. ASSUME NEW f \in 1 .. FILES, VerifyEnds(f) PROVE CancelInv'
  BY <1>1, <1>11 DEF VerifyEnds, args, build, disk
<1>12. CASE BuildFails
  BY <1>12 DEF BuildFails, Fail, args, verify, disk
<1>13. CASE OrphanEnds
  BY <1>13 DEF OrphanEnds, args, verify, disk
<1>14. CASE Cancel \/ Exit
  BY <1>14 DEF Cancel, Exit, args, verify, build, disk
<1>15. CASE UNCHANGED vars
  BY <1>15 DEF vars, args, verify, build, disk
<1> QED
  BY <1>3, <1>4, <1>5, <1>6, <1>7, <1>8, <1>9, <1>10, <1>11, <1>12, <1>13,
     <1>14, <1>15 DEF Next, Step, Done

(* When no process id is used twice, the temporary file is gone when the   *)
(* call returns, unless it could not be removed or an I/O thread was left  *)
(* behind.                                                                 *)
THEOREM TmpGone ==
  ASSUME ~ PidReuse
  PROVE  Spec => []TmpRemovedIfJoined
<1>1. Init => TmpInv
  BY TmpInit
<1>2. TypeInv /\ VerifyInv /\ TmpInv /\ [Next]_vars => TmpInv'
  BY TmpStep
<1>3. TmpInv => TmpRemovedIfJoined
  BY DEF TmpInv, TmpRemovedIfJoined, TmpRemoved
<1> QED
  BY TypeInit, TypeStep, VerifyInit, VerifyStep, <1>1, <1>2, <1>3, PTL
     DEF Spec

(* A run that ends as cancelled was cancelled, and has left everything as  *)
(* it was, its temporary file included.                                    *)
THEOREM CancelClean ==
  ASSUME ~ PidReuse
  PROVE  Spec => []CancelLeavesNothing
<1>1. Init => TmpInv /\ CancelInv
  BY TmpInit
<1>2. TypeInv /\ VerifyInv /\ TmpInv /\ [Next]_vars => TmpInv'
  BY TmpStep
<1>3. TmpInv /\ CancelInv => CancelLeavesNothing
  BY DEF TmpInv, CancelInv, CancelLeavesNothing
<1> QED
  BY TypeInit, TypeStep, VerifyInit, VerifyStep, CancelStep, <1>1, <1>2, <1>3,
     PTL DEF Spec
-----------------------------------------------------------------------------
(***************************************************************************)
(* The archive is whole, when besides no data waits in a BufWriter.        *)
(***************************************************************************)

(* What the file and the buffer hold together is the blob so far; the      *)
(* archive is this run's, and then has the whole blob.                     *)
BlobInv ==
  /\ pc \in {"chunk", "serialize", "verify"} =>
       written = 0 /\ write_buffer = << >>
  /\ pc = "build" => OldTmp \o write_buffer = Blob(run, written)
  /\ pc \in {"header", "copy", "remove"} => tmp[pid] = Blob(run, CHUNKS)
  /\ pc = "copy" => archive.header = run
  /\ pc = "remove" \/ result = "Ok" =>
       /\ run \in Pid
       /\ archive.header = run
       /\ archive.data = Blob(run, CHUNKS)

LEMMA BlobInit == Init => BlobInv
BY DEF Init, BlobInv

LEMMA BlobStep ==
  /\ BUF_WRITER <= 1
  /\ TypeInv /\ TmpInv /\ BlobInv /\ [Next]_vars
  => BlobInv'
<1> SUFFICES ASSUME BUF_WRITER <= 1, TypeInv, TmpInv, BlobInv, [Next]_vars
             PROVE  BlobInv'
  OBVIOUS
<1>1. /\ pc # "idle" => run \in Pid /\ pid \in Pid
      /\ tmp \in [Pid -> Seq(Block) \cup {Absent}]
      /\ write_buffer \in Seq(Block)
      /\ written \in 0 .. CHUNKS
  BY DEF TypeInv, TypeOK, PlaceInv
<1>2. /\ pc \in {"chunk", "serialize", "verify"} => tmp[pid] = Absent
      /\ pc \notin {"idle", "unwind", "returned"} =>
           orphan = "none" /\ result = "none"
  BY DEF TmpInv
<1>3. ASSUME NEW data \in Seq(Block) PROVE ~ AppendLost(data)
  BY RunAssumption, <1>3 DEF AppendLost, RunAssumption
<1> USE RunAssumption DEF BlobInv, RunAssumption
<1>4. CASE StartRun
  BY <1>4 DEF StartRun
<1>5. CASE Prepare
  BY <1>2, <1>5 DEF Prepare, Fail, args, build, disk
<1>6. CASE Cancelled
  BY <1>2, <1>6 DEF Cancelled, CancelSeen, Fail, args, verify, build, disk
<1>7. CASE JoinVerify
  BY <1>2, <1>7 DEF JoinVerify, Fail, args, build, disk
<1>8. CASE VerifyPassed
  <2>1. /\ pc = "verify" /\ pc' = "build"
        /\ UNCHANGED <<args, result, build, disk>>
    BY <1>8 DEF VerifyPassed
  <2>2. OldTmp' \o write_buffer' = << >>
    BY <1>1, <1>2, <2>1, EmptyIsBlocks, ConcatEmptySeq
       DEF OldTmp, args, build, disk
  <2>3. Blob(run', written') = << >>
    BY <2>1 DEF Blob, build
  <2> QED
    BY <1>2, <2>1, <2>2, <2>3 DEF args, build, disk
<1>9. CASE WriteChunk
  <2> DEFINE buffer == Append(write_buffer, <<run, written + 1>>)
  <2>1. pc # "idle" /\ written < CHUNKS /\ UNCHANGED <<args, archive>>
    BY <1>9 DEF WriteChunk, AppendData, AppendLost, AppendFails, disk
  <2>2. CASE pc # "build"
    BY <1>2, <1>9, <2>1, <2>2 DEF WriteChunk, args
  <2>3. CASE pc = "build" /\ pc' = "unwind"
    BY <1>9, <2>1, <2>3 DEF WriteChunk, Fail, args
  <2>4. CASE pc = "build" /\ pc' # "unwind"
    <3>1. /\ buffer \in Seq(Block)
          /\ OldTmp \o buffer = Blob(run, written + 1)
          /\ OldTmp \in Seq(Block)
      <4>1. <<run, written + 1>> \in Block
        BY <2>1, BlockType
      <4>2. OldTmp \in Seq(Block)
        BY <1>1, <2>1, EmptyIsBlocks DEF OldTmp
      <4>3. buffer \in Seq(Block)
        BY <1>1, <4>1, AppendProperties
      <4>4. OldTmp \o write_buffer = Blob(run, written) /\ written \in Nat
        BY <1>1, <2>4
      <4>5. OldTmp \o buffer = Blob(run, written + 1)
        BY <1>1, <4>1, <4>2, <4>4, BlobGrows
      <4> QED
        BY <4>2, <4>3, <4>5
    <3> HIDE DEF buffer
    <3>2. /\ pc' = pc /\ result' = result /\ written' = written + 1
          /\ \/ write_buffer' = buffer /\ tmp' = tmp
             \/ AppendData(buffer) /\ write_buffer' = << >>
      BY <1>3, <1>9, <2>4, <3>1
         DEF WriteChunk, Fail, Emptied, disk, buffer
    <3>3. OldTmp' \o write_buffer' = OldTmp \o buffer
      <4>1. CASE write_buffer' = buffer /\ tmp' = tmp
        BY <2>1, <4>1 DEF OldTmp, args
      <4>2. CASE AppendData(buffer) /\ write_buffer' = << >>
        <5>1. OldTmp \o buffer \in Seq(Block)
          BY <3>1, ConcatProperties
        <5>2. OldTmp' = OldTmp \o buffer
          <6>1. tmp'[pid] = OldTmp \o buffer
            BY <1>1, <2>1, <4>2 DEF AppendData
          <6> QED
            BY <2>1, <5>1, <6>1, AbsentIsNoFile DEF OldTmp, args
        <5> QED
          BY <4>2, <5>1, <5>2, ConcatEmptySeq
      <4> QED
        BY <3>2, <4>1, <4>2
    <3> QED
      BY <1>2, <2>1, <2>4, <3>1, <3>2, <3>3 DEF args
  <2> QED
    BY <2>2, <2>3, <2>4
<1>10. CASE Flush
  <2>1. /\ pc = "build" /\ written = CHUNKS
        /\ UNCHANGED <<args, archive, written>>
    BY <1>10 DEF Flush, AppendData, AppendLost, AppendFails
  <2>2. CASE pc' = "unwind"
    BY <1>2, <1>10, <2>1, <2>2 DEF Flush, Fail, args
  <2>3. CASE pc' # "unwind"
    <3>1. /\ AppendData(write_buffer)
          /\ pc' = "header" /\ UNCHANGED result
      BY <1>1, <1>3, <1>10, <2>3 DEF Flush, Fail, LeftOver
    <3>2. tmp'[pid] = OldTmp \o write_buffer
      BY <1>1, <2>1, <3>1 DEF AppendData
    <3> QED
      BY <1>2, <2>1, <3>1, <3>2 DEF args
  <2> QED
    BY <2>2, <2>3
<1>11. CASE WriteHeader
  BY <1>2, <1>11 DEF WriteHeader, Fail, args, build
<1>12. CASE CopyBlob
  <2>1. /\ pc = "copy" /\ UNCHANGED <<args, build, tmp>>
        /\ archive \in Archive /\ run \in Pid
    BY <1>1, <1>12 DEF CopyBlob, TypeInv, TypeOK
  <2>2. CASE pc' = "unwind"
    BY <1>2, <1>12, <2>1, <2>2 DEF CopyBlob, Fail
  <2>3. CASE pc' # "unwind"
    <3>1. /\ archive' = [archive EXCEPT !.data = tmp[pid]]
          /\ pc' = "remove" /\ UNCHANGED result
      BY <1>12, <2>3 DEF CopyBlob, Fail
    <3>2. archive'.header = run /\ archive'.data = Blob(run, CHUNKS)
      BY <2>1, <3>1 DEF Archive
    <3> QED
      BY <1>2, <2>1, <3>1, <3>2 DEF args
  <2> QED
    BY <2>2, <2>3
<1>13. CASE RemoveTmp
  BY <1>13 DEF RemoveTmp, args
<1>14. CASE Unwind
  BY <1>14 DEF Unwind, args
<1>15. ASSUME NEW f \in 1 .. FILES, VerifyEnds(f) PROVE BlobInv'
  BY <1>15 DEF VerifyEnds, OldTmp, args, build, disk
<1>16. CASE BuildFails
  BY <1>16 DEF BuildFails, Fail, args, disk
<1>17. CASE OrphanEnds \/ Cancel
  BY <1>17 DEF OrphanEnds, Cancel, OldTmp, args, verify, build, disk
<1>18. CASE Exit
  BY <1>18 DEF Exit, args, disk
<1>19. CASE UNCHANGED vars
  BY <1>19 DEF vars, OldTmp, args, build, disk
<1> QED
  BY <1>4, <1>5, <1>6, <1>7, <1>8, <1>9, <1>10, <1>11, <1>12, <1>13, <1>14,
     <1>15, <1>16, <1>17, <1>18, <1>19 DEF Next, Step, Done

(* Ok means that the archive on disk is this run's and has all its chunks  *)
(* at the places its index gives, when no process id is used twice and no  *)
(* data is short enough to be lost in a BufWriter.                         *)
THEOREM OkComplete ==
  ASSUME ~ PidReuse, BUF_WRITER <= 1
  PROVE  Spec => []OkIsComplete
<1>1. Init => TmpInv
  BY TmpInit
<1>2. TypeInv /\ VerifyInv /\ TmpInv /\ [Next]_vars => TmpInv'
  BY TmpStep
<1>3. TypeInv /\ TmpInv /\ BlobInv /\ [Next]_vars => BlobInv'
  BY BlobStep
<1>4. BlobInv => OkIsComplete
  BY DEF BlobInv, OkIsComplete, Complete, Blob, Pid
<1> QED
  BY TypeInit, TypeStep, VerifyInit, VerifyStep, BlobInit, <1>1, <1>2, <1>3,
     <1>4, PTL DEF Spec

(* Nothing replaces the archive before it is verified, and the temporary   *)
(* file does not outlive the call, when no process id is used twice.       *)
THEOREM RunSafe ==
  ASSUME ~ PidReuse
  PROVE  Spec => []Safe
BY TypeCorrect, VerifiedFirst, TmpGone, PTL DEF Safe
=============================================================================
