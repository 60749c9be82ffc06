---------------------------- MODULE MCFileChunker ----------------------------
(* Instances of FileChunker for TLC.                                       *)
EXTENDS FileChunker

CONSTANTS a, b, c, f1, f2, f3

(* Chunks of different lengths.                                            *)
Bytes == [h \in Hash |-> CASE h = a -> <<1>>
                           [] h = b -> <<2, 3>>
                           [] OTHER -> <<3, 1>>]

(* Three files: two share chunks, one has a chunk twice, one is empty.     *)
Contents == [f \in File |-> CASE f = f1 -> <<a, b, a>>
                              [] f = f2 -> <<b, c>>
                              [] OTHER  -> << >>]

Distinct == [f \in File |-> f]
=============================================================================
