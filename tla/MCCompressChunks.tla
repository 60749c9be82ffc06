-------------------------- MODULE MCCompressChunks --------------------------
(* Instances of CompressChunks for TLC.                                    *)
EXTENDS CompressChunks

CONSTANTS h1, h2, h3, h4, h5

(* Five chunks in an order that is not that of their names.                *)
FiveChunks == <<h2, h1, h4, h5, h3>>

(* Compressed lengths that tell neighbouring chunks apart.                 *)
Lengths == [h \in Hash |-> CASE h \in {h2, h5} -> 1
                             [] h \in {h1, h3} -> 2
                             [] OTHER          -> 4]
=============================================================================
