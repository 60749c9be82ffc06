----------------------------- MODULE Extraction -----------------------------
(***************************************************************************)
(* `extract_ssmc_data` of cli_application (modes/extract.rs): the files    *)
(* asked for are restored one after the other, each written chunk by chunk *)
(* through a BufWriter to a temporary file, which is renamed; the BufWriter *)
(* is dropped after that, and then the guard of the temporary file.        *)
(*                                                                         *)
(* A file on disk is Absent, Other (not written by this call), or          *)
(* <<name, n>>, the first n chunks of an archived file.  A rename takes    *)
(* the open file with it.                                                  *)
(***************************************************************************)
EXTENDS Naturals, Sequences, Functions

CONSTANTS
  Name,     (* The names in the table of contents.                         *)
  roms,     (* Those asked for, in order.                                  *)
  Chunks,   (* For each, how many chunks it has.                           *)
  TmpOf,    (* For each, its path with the extension `tmp`.                *)
  BUFFER,   (* Chunks the BufWriter holds: 0 if they are larger than it.   *)
  Faults,   (* What may go wrong in this environment.                      *)
  Absent, Other

Path == Name \cup Range(TmpOf)
Whole(name) == <<name, Chunks[name]>>
Content == (Name \X Nat) \cup {Absent, Other}

ASSUME ExtractionAssumption ==
  /\ roms \in Seq(Name)
  /\ Chunks \in [Name -> Nat]
  /\ DOMAIN TmpOf = Name
  /\ BUFFER \in Nat
  /\ Faults \subseteq {"cancel", "crash", "create", "chunk", "write", "rename",
                       "remove"}
  /\ Absent # Other
  /\ Absent \notin Name \X Nat /\ Other \notin Name \X Nat

VARIABLES
  running,   (* FALSE once the user has asked it to stop.                  *)
  pc,        (* Where the loop is.                                         *)
  rom,       (* Which of the files it is at.                               *)
  taken,     (* Chunks of it that went to the BufWriter.                   *)
  buffered,  (* Chunks of it that are still there.                         *)
  place,     (* The path of the open file.                                 *)
  disk,      (* What is at each path.                                      *)
  result,    (* How the call ended.                                        *)
  before,    (* What was at each path before the call (history).           *)
  lost,      (* A BufWriter was dropped with data it could not write       *)
             (* (history).                                                 *)
  tmp_left   (* The guard could not remove a file (history).               *)

writer == <<taken, buffered, place>>
history == <<before, lost, tmp_left>>
vars == <<running, pc, rom, writer, disk, result, history>>

name == roms[rom]
tmp  == TmpOf[name]

TypeOK ==
  /\ running \in BOOLEAN
  /\ pc \in {"next", "chunks", "renamed", "failed", "guard", "returned",
             "crashed"}
  /\ rom \in 1 .. Len(roms) + 1
  /\ pc \in {"chunks", "renamed", "failed", "guard"} => rom <= Len(roms)
  /\ pc \in {"chunks", "renamed", "failed"} =>
       /\ taken \in 0 .. Chunks[name]
       /\ buffered <= taken
       /\ place \in {name, tmp}
       /\ disk[place] \in {name} \X (0 .. taken)
  /\ buffered \in 0 .. BUFFER
  /\ disk \in [Path -> Content] /\ before \in [Path -> {Absent, Other}]
  /\ result \in {"none", "Ok", "Cancelled", "Error"}
  /\ lost \in BOOLEAN /\ tmp_left \in BOOLEAN

(* The metadata is parsed, the output directory exists, and every index is *)
(* within the archive.                                                     *)
Init ==
  /\ running = TRUE
  /\ pc = "next"
  /\ rom = 1
  /\ taken = 0 /\ buffered = 0
  /\ place = Absent
  /\ before \in [Path -> {Absent, Other}]
  /\ disk = before
  /\ result = "none"
  /\ lost = FALSE /\ tmp_left = FALSE
-----------------------------------------------------------------------------
(***************************************************************************)
(* Mutants: plausible mistakes in the definitions below, which the         *)
(* properties must notice.                                                 *)
(***************************************************************************)

(* Fail: a file that failed is skipped.                                    *)
FailForgets(error) ==
  /\ pc' = "failed"
  /\ UNCHANGED result

(* AllTaken: the last chunk is left out.                                   *)
AllTakenEarly == taken + 1 >= Chunks[name]

(* Created: the file is opened once and used for all.                      *)
CreatedOnce ==
  /\ place' = IF rom = 1 THEN tmp ELSE place
  /\ disk' = [disk EXCEPT ![place'] = <<name, 0>>]
-----------------------------------------------------------------------------
(* An early return: the BufWriter and the guard are dropped on the way.    *)
Fail(error) ==
  /\ pc' = "failed"
  /\ result' = error

(* A file that has this path already, whoever's it is, is truncated.       *)
Created ==
  /\ place' = tmp
  /\ disk' = [disk EXCEPT ![tmp] = <<name, 0>>]

(* If it cannot be created, only the guard is there to be dropped.         *)
CreateTmp ==
  /\ pc = "next"
  /\ rom <= Len(roms)
  /\ \/ /\ Created
        /\ taken' = 0 /\ buffered' = 0
        /\ pc' = "chunks"
        /\ UNCHANGED result
     \/ /\ "create" \in Faults
        /\ pc' = "guard"
        /\ result' = "Error"
        /\ UNCHANGED <<disk, writer>>
  /\ UNCHANGED <<running, rom, history>>

AllTaken == taken = Chunks[name]

(* A chunk is not in the index, cannot be read or decompressed, or has not *)
(* the hash it should have.                                                *)
ChunkFails ==
  /\ pc = "chunks"
  /\ ~ AllTaken
  /\ "chunk" \in Faults
  /\ Fail("Error")
  /\ UNCHANGED <<running, rom, writer, disk, history>>

(* The flag is looked at after a chunk was decompressed.                   *)
Cancelled ==
  /\ pc = "chunks"
  /\ ~ AllTaken
  /\ ~ running
  /\ Fail("Cancelled")
  /\ UNCHANGED <<running, rom, writer, disk, history>>

(* n more chunks reach the open file.                                      *)
Reach(n) == disk' = [disk EXCEPT ![place] = <<name, disk[place][2] + n>>]

(* write_all when the chunk fits.                                          *)
Buffer ==
  /\ buffered < BUFFER
  /\ buffered' = buffered + 1
  /\ UNCHANGED disk

(* write_all when it does not: what is there is written first.             *)
WriteThrough ==
  /\ buffered = BUFFER
  /\ IF BUFFER = 0
     THEN Reach(1) /\ buffered' = 0
     ELSE Reach(buffered) /\ buffered' = 1

WriteChunk ==
  /\ pc = "chunks"
  /\ ~ AllTaken
  /\ running
  /\ \/ /\ Buffer \/ WriteThrough
        /\ taken' = taken + 1
        /\ UNCHANGED <<pc, result>>
     \/ /\ "write" \in Faults
        /\ buffered = BUFFER
        /\ \E n \in 0 .. buffered :
             Reach(n) /\ buffered' = buffered - n
        /\ Fail("Error")
        /\ UNCHANGED taken
  /\ UNCHANGED <<running, rom, place, history>>

(* The chunks that are still in the BufWriter are not asked about.         *)
Rename ==
  /\ pc = "chunks"
  /\ AllTaken
  /\ \/ /\ disk' = [p \in Path |-> CASE p = name -> disk[tmp]
                                     [] p = tmp /\ p # name -> Absent
                                     [] OTHER -> disk[p]]
        /\ place' = name
        /\ pc' = "renamed"
        /\ UNCHANGED result
     \/ /\ "rename" \in Faults
        /\ Fail("Error")
        /\ UNCHANGED <<disk, place>>
  /\ UNCHANGED <<running, rom, taken, buffered, history>>

(* The drop of the BufWriter writes what is left, and ignores the error.   *)
CloseWriter ==
  /\ pc \in {"renamed", "failed"}
  /\ \E n \in 0 .. buffered :
       /\ n < buffered => "write" \in Faults
       /\ Reach(n)
       /\ lost' = (lost \/ n < buffered)
  /\ buffered' = 0
  /\ pc' = "guard"
  /\ UNCHANGED <<running, rom, taken, place, result, before, tmp_left>>

(* What the drop of the guard asks before it removes the file.             *)
Removed == disk[tmp] # Absent

GuardDrop ==
  /\ pc = "guard"
  /\ \/ /\ disk' = IF Removed THEN [disk EXCEPT ![tmp] = Absent] ELSE disk
        /\ UNCHANGED tmp_left
     \/ /\ "remove" \in Faults
        /\ disk[tmp] # Absent
        /\ tmp_left' = TRUE
        /\ UNCHANGED disk
  /\ IF result = "none"
     THEN pc' = "next" /\ rom' = rom + 1
     ELSE pc' = "returned" /\ UNCHANGED rom
  /\ UNCHANGED <<running, writer, result, before, lost>>

Finish ==
  /\ pc = "next"
  /\ rom > Len(roms)
  /\ pc' = "returned"
  /\ result' = "Ok"
  /\ UNCHANGED <<running, rom, writer, disk, history>>

Cancel ==
  /\ "cancel" \in Faults
  /\ running
  /\ pc \notin {"returned", "crashed"}
  /\ running' = FALSE
  /\ UNCHANGED <<pc, rom, writer, disk, result, history>>

Crash ==
  /\ "crash" \in Faults
  /\ pc \notin {"returned", "crashed"}
  /\ pc' = "crashed"
  /\ UNCHANGED <<running, rom, writer, disk, result, history>>

Done == pc \in {"returned", "crashed"} /\ UNCHANGED vars

Step ==
  \/ CreateTmp
  \/ ChunkFails
  \/ Cancelled
  \/ WriteChunk
  \/ Rename
  \/ CloseWriter
  \/ GuardDrop
  \/ Finish

Next == Step \/ Cancel \/ Crash \/ Done

Spec == Init /\ [][Next]_vars
-----------------------------------------------------------------------------
(***************************************************************************)
(* Properties.                                                             *)
(***************************************************************************)

(* Ok means that every file asked for is on disk, whole.                   *)
OkIsWhole ==
  result = "Ok" => \A i \in 1 .. Len(roms) : disk[roms[i]] = Whole(roms[i])

(* The same, but for data that was lost when a BufWriter was dropped.      *)
OkIsWholeUnlessLost == lost \/ OkIsWhole

(* Between two files and at the return, whatever has gone wrong, a file    *)
(* that was asked for is as it was or whole.                               *)
Atomic ==
  (pc \in {"next", "returned"} /\ ~ lost) =>
    \A i \in 1 .. Len(roms) :
      disk[roms[i]] \in {before[roms[i]], Whole(roms[i])}

(* Whatever happens after, even a crash, a file that was finished stays    *)
(* whole, unless it is asked for once more.                                *)
FinishedStayWhole ==
  ~ lost => \A i \in 1 .. rom - 1 :
              \/ disk[roms[i]] = Whole(roms[i])
              \/ rom <= Len(roms) /\ roms[i] = name

(* No temporary file is left behind at the return, unless it could not be  *)
(* removed.                                                                *)
TmpRemoved ==
  (pc = "returned" /\ ~ tmp_left) =>
    \A i \in 1 .. Len(roms) : i <= rom => disk[TmpOf[roms[i]]] = Absent

(* All of these: each file is old or whole, and nothing else is left.      *)
Safe == TypeOK /\ Atomic /\ TmpRemoved
=============================================================================
