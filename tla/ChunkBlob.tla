------------------------------ MODULE ChunkBlob ------------------------------
(***************************************************************************)
(* What `compress_chunks` promises to its caller, with no threads in it:   *)
(* the chunks of `sorted_hashes` are written one after another, in that    *)
(* order, each is entered in the chunk index with the offset at which its  *)
(* bytes start, and the call ends once: with Ok, when every chunk has been *)
(* written, or with an error, after which nothing more is written.         *)
(***************************************************************************)
EXTENDS Naturals, Sequences

CONSTANTS
  sorted_hashes,  (* The sequence of chunk hashes to be written.           *)
  CompLen,        (* The compressed length of each chunk, in bytes.        *)
  Failures        (* The errors the call may return.                       *)

VARIABLES
  blob,           (* The chunks handed to the write callback, in order.    *)
  chunk_index,    (* The locations recorded for them.                      *)
  outcome         (* "running", "Ok" or a member of Failures.              *)

blobVars == <<blob, chunk_index, outcome>>

(* The offset just after the last chunk an index locates.                  *)
EndOf(index) ==
  IF index = << >>
  THEN 0
  ELSE index[Len(index)].offset + index[Len(index)].compressed_length

Init ==
  /\ blob = << >>
  /\ chunk_index = << >>
  /\ outcome = "running"

WriteNext ==
  /\ outcome = "running"
  /\ Len(blob) < Len(sorted_hashes)
  /\ LET h == sorted_hashes[Len(blob) + 1]
     IN  /\ blob' = Append(blob, h)
         /\ chunk_index' = Append(chunk_index,
                                  [hash              |-> h,
                                   offset            |-> EndOf(chunk_index),
                                   compressed_length |-> CompLen[h]])
  /\ UNCHANGED outcome

Succeed ==
  /\ outcome = "running"
  /\ Len(blob) = Len(sorted_hashes)
  /\ outcome' = "Ok"
  /\ UNCHANGED <<blob, chunk_index>>

Fail ==
  /\ outcome = "running"
  /\ outcome' \in Failures
  /\ UNCHANGED <<blob, chunk_index>>

Next == WriteNext \/ Succeed \/ Fail

Spec == Init /\ [][Next]_blobVars
=============================================================================
