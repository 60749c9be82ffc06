---------------------------- MODULE MCOpticalRun ----------------------------
(* Two discs that share a chunk; their sheets in one directory, in two,     *)
(* under one title; a disc of audio only; no cue sheet at all.              *)
EXTENDS OpticalRun

Run_(kind, pieces) == [kind |-> kind, pieces |-> pieces]
A == << Run_("data", <<"d1", "d2">>), Run_("audio", <<"a1">>) >>
B == << Run_("audio", <<"a2", "a3">>), Run_("data", <<"d2">>) >>
Audio1 == << Run_("audio", <<"a1">>) >>

CueSheet(dir, title, bin) == [dir |-> dir, title |-> title, bin |-> bin]
Bins(xa, xb, ya, yb) == [k \in {"x", "y"} \X {"a", "b"} |->
  CASE k = <<"x", "a">> -> xa [] k = <<"x", "b">> -> xb
    [] k = <<"y", "a">> -> ya [] k = <<"y", "b">> -> yb]

MCInputs == {
  [sheets |-> <<CueSheet("x", "s", "a"), CueSheet("x", "t", "b")>>,
   bins |-> Bins(A, B, << >>, << >>), lists |-> << {"s", "t"}, {}, {"t"} >>],
  [sheets |-> <<CueSheet("x", "s", "a"), CueSheet("y", "t", "a")>>,
   bins |-> Bins(A, << >>, B, << >>), lists |-> << >>],
  [sheets |-> <<CueSheet("x", "s", "a"), CueSheet("x", "s", "b")>>,
   bins |-> Bins(Audio1 \o A, A, << >>, << >>), lists |-> << {"s"} >>],
  [sheets |-> <<CueSheet("x", "s", "a"), CueSheet("y", "t", "b")>>,
   bins |-> Bins(Audio1, << >>, << >>, A), lists |-> << >>],
  [sheets |-> << >>, bins |-> Bins(<< >>, << >>, << >>, << >>), lists |-> << {"u"} >>] }

MCCompLen(b) == IF b = "a1" THEN 2 ELSE 3
=============================================================================
