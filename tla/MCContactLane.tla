--------------------------- MODULE MCContactLane ---------------------------
(* ContactLane for TLC. *)
EXTENDS ContactLane

TwoCosts == {1, 2}
=============================================================================
