---------------------------- MODULE MCArchiveRun ----------------------------
(* Files that share chunks, an empty one, and two of one name.              *)
EXTENDS ArchiveRun

F(name, content) == [name |-> name, content |-> content]
A == <<"a", "b", "a", "b">>
B == <<"b", "b", "a">>
C == <<"a", "c">>
MCInputs == { << F(2, A), F(1, B) >>, << F(1, A), F(2, C), F(3, << >>) >>,
              << F(1, A), F(1, B) >>, << F(1, << >>), F(2, << >>) >> }

Arg(mode, tune, w, d) == [mode |-> mode, auto_tune |-> tune, window |-> w, dictionary |-> d]
MCArguments == { Arg("default", FALSE, 0, 0), Arg("default", FALSE, 3, 0),
                 Arg("default", FALSE, 9, 3), Arg("default", TRUE, 0, 0),
                 Arg("default", TRUE, 2, 0), Arg("default", TRUE, 0, 3),
                 Arg("default", TRUE, 1, 1), Arg("default", FALSE, 1, 0),
                 Arg("optical", FALSE, 0, 0) }

(* Pieces of as many bytes as the window.                                   *)
MCCut(w, s) ==
  [k \in 1..Ceil(Len(s), w) |-> SubSeq(s, (k - 1) * w + 1, IF k * w < Len(s) THEN k * w ELSE Len(s))]
MCCompLen(h) == IF Len(h) = 1 THEN 2 ELSE Len(h)
MCFormatSize(format) == IF format = SSMC THEN 3 ELSE 4
=============================================================================
