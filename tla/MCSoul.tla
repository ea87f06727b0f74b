------------------------------- MODULE MCSoul -------------------------------
(* Soul for TLC: two texts, one of them refused by the guard. *)
EXTENDS Soul

CONSTANTS w1, w2, bad
TwoWords == {w1, bad}
ThreeWords == {w1, w2, bad}
OneBad == {bad}
=============================================================================
