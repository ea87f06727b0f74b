--------------------------- MODULE MCStateActor ---------------------------
(* Small gateways for TLC: who runs on which thread. *)
EXTENDS StateActor, TLC

CONSTANTS loop, exec1, exec2   \* the gateway loop and two executor threads

ThreeThreads == {loop, exec1, exec2}
TwoThreads   == {loop, exec1}
OneThread    == {loop}

\* Every writer but the injector's stamp takes the lock across load and commit.
LockedMay == (loop  :> {"frame", "reserve", "adopt"}) @@
             (exec1 :> {"frame", "soul"}) @@
             (exec2 :> {"soul", "stamp"})
LockedFields == Fields \ {"shown"}

\* One thread does everything, so nothing runs between a load and its commit.
SingleMay == loop :> Jobs

\* A heartbeat whose launch is rolled back, beside an agent turn that writes
\* the being's first soul.
BirthMay == (loop :> {"heartbeat"}) @@ (exec1 :> {"soul"})

\* A heartbeat frame beside an agent turn whose injector shows the ritual.
ShownMay == (loop :> {"frame"}) @@ (exec1 :> {"stamp"})
=============================================================================
