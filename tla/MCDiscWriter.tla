---------------------------- MODULE MCDiscWriter ----------------------------
(***************************************************************************)
(* A disc of five data and three audio sectors; neither stream fits its    *)
(* buffer of six bytes: the audio worker meets a full buffer, the data     *)
(* worker one without room for its block.                                  *)
(***************************************************************************)
EXTENDS DiscWriter, SequencesExt

Sector(s, n) == [stream |-> s, size |-> n]

MixedDisc ==
  <<Sector("data", 2), Sector("audio", 3), Sector("data", 2),
    Sector("data", 2), Sector("audio", 3), Sector("data", 2),
    Sector("audio", 3), Sector("data", 2)>>

MixedBlocks == [data |-> <<3, 4, 3>>, audio |-> <<3, 3, 3>>]

(* The totals of both.                                                     *)
Sum(lengths) == FoldSeq(LAMBDA n, total : n + total, 0, lengths)

MixedPushed == [s \in {"data", "audio"} |->
  [n \in 0 .. Len(MixedBlocks[s]) |-> Sum(SubSeq(MixedBlocks[s], 1, n))]]

MixedTaken == [s \in {"data", "audio"} |->
  [n \in 0 .. Len(MixedDisc) |->
     Sum([i \in 1 .. n |-> IF MixedDisc[i].stream = s THEN MixedDisc[i].size ELSE 0])]]
=============================================================================
