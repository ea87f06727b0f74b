----------------------------- MODULE MCNoticing -----------------------------
(* Noticing for TLC. *)
EXTENDS Noticing

=============================================================================
