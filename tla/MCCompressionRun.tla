-------------------------- MODULE MCCompressionRun --------------------------
(* Instances of CompressionRun for TLC.                                    *)
EXTENDS CompressionRun
=============================================================================
