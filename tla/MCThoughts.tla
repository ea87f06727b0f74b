---------------------------- MODULE MCThoughts -----------------------------
(* Thoughts for TLC. *)
EXTENDS Thoughts

=============================================================================
