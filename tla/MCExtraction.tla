---------------------------- MODULE MCExtraction ----------------------------
(* Instances of Extraction for TLC.                                        *)
EXTENDS Extraction

CONSTANTS rom_bin, rom_cue, other_bin, rom_tmp, other_tmp

(* Two files whose temporary file is the same, and a third; one is asked   *)
(* for twice.                                                              *)
Roms == <<rom_bin, rom_cue, other_bin, rom_bin>>

Sizes == [n \in Name |-> CASE n = rom_bin -> 3
                           [] n = rom_cue -> 0
                           [] OTHER -> 2]

Tmps == [n \in Name |-> IF n = other_bin THEN other_tmp ELSE rom_tmp]
=============================================================================
