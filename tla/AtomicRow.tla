----------------------------- MODULE AtomicRow -----------------------------
(***************************************************************************)
(* What the one runtime_state row promises its writers: every operation    *)
(* reads the latest committed row, changes the fields it owns and lands    *)
(* whole.  A field is the number of writes it carries, so a lost write is  *)
(* a field that is behind.  Some fields are written once in a life (the    *)
(* birth); only a factory wipe starts another.                             *)
(***************************************************************************)
EXTENDS Naturals

CONSTANTS Fields,   \* the fields the promise covers
          Ops,      \* the sets of fields one operation writes together
          Once      \* the fields that are written at most once in a life

VARIABLE row

Init == row = [f \in Fields |-> 0]

Write(W) ==
  /\ \A f \in W \cap Once : row[f] = 0
  /\ row' = [f \in Fields |-> row[f] + IF f \in W THEN 1 ELSE 0]

Wipe == row' = [f \in Fields |-> 0]

Next == (\E W \in Ops : Write(W)) \/ Wipe

Spec == Init /\ [][Next]_row
=============================================================================
