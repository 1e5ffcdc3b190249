------------------------------- MODULE MCDht -------------------------------
(* The widths of the data sheet, as the code expects them.                  *)
EXTENDS Dht, TLC
SomeClimates == [0 .. 3 -> {{0}, {1}}]
AnswerWidths == <<{-10, 10}, {80}, {80}>>
LowWidths    == {50}
HighWidths   == 0 :> {26, 28} @@ 1 :> {70}
FaultyWidths == {0, 2, 20, 30, 45, 71, 5000}
=============================================================================
