----------------------------- MODULE MCDiscMap -----------------------------
(* Two workers.  The first disc is any of three sectors over five layouts;  *)
(* the second is one of two that share bytes with it.                       *)
EXTENDS DiscMap

Track(type, zero, one) == [type |-> type, zero |-> zero, one |-> one]
Bin(tracks, sectors) == [tracks |-> tracks, sectors |-> sectors, partial |-> FALSE]

Made(i, mode, form, sub, ecc, offset) ==
  [mode |-> mode, form |-> form, addr |-> i + offset, sub |-> <<"sub", sub>>, user |-> <<"u0", "u1", "u2", "u3">>[i + 1], ecc |-> ecc]

(* The kinds of sectors at place i.                                         *)
At(i) == {Made(i, 1, 1, "r", "good", 2), Made(i, 1, 1, "r", "x", 2),
          Made(i, 2, 1, "s", "good", 2), Made(i, 2, 1, "s", "x", 2),
          Made(i, 2, 2, "t", "good", 2), Made(i, 2, 1, "s", "good", 4), Zero}

MCSector == UNION {At(i) : i \in 0..3}
            \cup {Made(0, 2, 2, "t", "x", 2), Made(0, 3, 1, "r", "good", 2)}

(* Layouts of four sectors: all data; a data pregap; audio before data;     *)
(* audio between data, in three bins; audio first, from the second sector.  *)
Layouts(s) == {
  << Bin(<<Track("MODE2", NoIndex, 0)>>, s) >>,
  << Bin(<<Track("MODE1", 0, 1)>>, s) >>,
  << Bin(<<Track("AUDIO", 0, 1), Track("MODE1", 1, 2)>>, s) >>,
  << Bin(<<Track("MODE1", NoIndex, 0)>>, SubSeq(s, 1, 1)),
     Bin(<<Track("AUDIO", 0, 1)>>, SubSeq(s, 2, 3)),
     Bin(<<Track("MODE2", NoIndex, 0)>>, SubSeq(s, 4, 4)) >>,
  << Bin(<<Track("AUDIO", NoIndex, 1)>>, s) >>,
  << Bin(<<Track("MODE2", 0, 1), Track("AUDIO", 2, 3)>>, s) >> }

Firsts == UNION {Layouts(<<a, b, c, d>>) : a \in At(0), b \in {Made(1, 1, 1, "r", "good", 2), Made(1, 2, 1, "s", "x", 2), Made(1, 2, 1, "s", "good", 4), Zero},
                               c \in {Made(2, 2, 2, "t", "good", 2)},
                               d \in {Made(3, 1, 1, "r", "x", 2), Made(3, 2, 1, "s", "good", 2)}}

Refused == {
  << >>,
  << [Bin(<<Track("MODE1", NoIndex, 0)>>, << >>) EXCEPT !.partial = TRUE] >>,
  << Bin(<<Track("MODE1", 0, NoIndex)>>, <<Zero>>) >>,
  << Bin(<<Track("MODE1", NoIndex, 0)>>, <<Made(0, 3, 1, "r", "good", 2)>>) >> }

Second == << Bin(<<Track("MODE2", NoIndex, 0)>>,
                 <<Made(0, 2, 2, "t", "x", 2), Made(1, 2, 1, "s", "good", 2)>>) >>

MCBatches == {[w \in Worker |-> IF w = 1 THEN d ELSE Second] : d \in Firsts \cup Refused}
=============================================================================
