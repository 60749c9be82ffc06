----------------------------- MODULE AudioBlob -----------------------------
(***************************************************************************)
(* What `compress_audio_blocks` promises, with no threads in it: it is      *)
(* asked for some blocks once, writes them one behind the other in the      *)
(* order asked for, enters each in the index with the offset at which its   *)
(* bytes begin, and answers once: "ok" when every block has been written,   *)
(* or an error.  After "ok" nothing is written any more, and after an       *)
(* error neither, unless that error gives the writer up, which goes on      *)
(* then: but never with anything else than the next block.                  *)
(***************************************************************************)
EXTENDS Integers, Sequences

CONSTANTS
  Hash,          \* the hashes of blocks
  CompLen(_),    \* the compressed length of a block
  Failures,      \* the errors after which nothing is written
  Abandonments   \* the errors that leave the writer to itself

VARIABLES
  asked,         \* the hashes of the blocks to be written
  blob,          \* the blocks written
  audio_index,   \* hashes with offsets and lengths
  answer         \* "idle", "working", "ok" or one of the errors

blobVars == <<asked, blob, audio_index, answer>>

Init ==
  /\ asked = << >> /\ blob = << >> /\ audio_index = << >>
  /\ answer = "idle"

Ask ==
  /\ answer = "idle"
  /\ asked' \in Seq(Hash)
  /\ answer' = "working"
  /\ UNCHANGED <<blob, audio_index>>

EndOf(index) ==
  IF index = << >> THEN 0
  ELSE index[Len(index)].offset + index[Len(index)].compressed_length

Writing == answer \in {"working"} \cup Abandonments
Left == Len(asked) - Len(blob)

WriteNext ==
  /\ Writing
  /\ Left > 0
  /\ LET next == asked[Len(blob) + 1]
     IN /\ blob' = Append(blob, next)
        /\ audio_index' = Append(audio_index, [hash |-> next, offset |-> EndOf(audio_index),
                                               compressed_length |-> CompLen(next)])
  /\ UNCHANGED <<asked, answer>>

Answer ==
  /\ answer = "working"
  /\ \/ answer' = "ok" /\ Left = 0
     \/ answer' \in Failures \cup Abandonments
  /\ UNCHANGED <<asked, blob, audio_index>>

Next == Ask \/ WriteNext \/ Answer

Spec == Init /\ [][Next]_blobVars
=============================================================================
