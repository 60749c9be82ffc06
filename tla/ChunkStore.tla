----------------------------- MODULE ChunkStore -----------------------------
(***************************************************************************)
(* What chunking the input files amounts to, with no threads and no file   *)
(* in it: a store that maps hashes to chunks, to which chunks of the input *)
(* are added one at a time and in any order, from which nothing is taken   *)
(* and in which nothing changes.  Ok is the outcome only when every chunk  *)
(* of the input is there, and after it the store is frozen.                *)
(***************************************************************************)
EXTENDS Naturals

CONSTANTS
  Data,      (* The bytes of the chunk with a given hash.                  *)
  Input,     (* The hashes of the chunks of all input files.               *)
  Failures   (* The errors chunking may end with.                          *)

VARIABLES store, outcome

storeVars == <<store, outcome>>

Init ==
  /\ store = [h \in {} |-> Data[h]]
  /\ outcome = "running"

Insert(h) ==
  /\ outcome # "Ok"
  /\ store' = [k \in DOMAIN store \cup {h} |-> IF k \in DOMAIN store
                                               THEN store[k] ELSE Data[k]]
  /\ UNCHANGED outcome

Succeed ==
  /\ outcome = "running"
  /\ Input \subseteq DOMAIN store
  /\ outcome' = "Ok"
  /\ UNCHANGED store

Fail ==
  /\ outcome = "running"
  /\ outcome' \in Failures
  /\ UNCHANGED store

Next == (\E h \in Input : Insert(h)) \/ Succeed \/ Fail

Spec == Init /\ [][Next]_storeVars
=============================================================================
