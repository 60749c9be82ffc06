--------------------------- MODULE MCVerification ---------------------------
(* Files of none to six batches, one more than a channel and its sender     *)
(* hold, and discs whose lanes take turns, come one after the other, or     *)
(* outrun each other; one has no data.                                      *)
EXTENDS Verification

Sizes == {0, 1, 4, 11, 12}
Tracks(data, audio) == [i \in 1..data |-> "data"] \o [i \in 1..audio |-> "audio"]
SomeDiscs == {Tracks(0, 3), Tracks(5, 0), Tracks(3, 3), Tracks(1, 7),
              <<"audio", "data", "audio", "data">>}
=============================================================================
