-------------------------- MODULE StateActorProofs --------------------------
(***************************************************************************)
(* Type correctness of StateActor for every set of threads, and, whenever  *)
(* the writers are serialized, that no protected write is lost, that a     *)
(* birth happens once and that the row implements AtomicRow.               *)
(***************************************************************************)
EXTENDS StateActor, TLAPS

USE ThreadsAssumption, MayAssumption, ProtectedAssumption, MaxWritesAssumption

(***************************************************************************)
(* When are the writers serialized?  Either one thread does everything, or *)
(* every whole-row commit is made by a job that took the lock before it    *)
(* loaded.  The injector's stamp may then run beside them, but the group   *)
(* it writes is not protected.                                             *)
(***************************************************************************)
OneWriter == \A t, u \in Threads : t = u
LockHeldThroughout ==
  /\ \A t \in Threads :
       May[t] \subseteq {"frame", "reserve", "soul", "adopt", "stamp"}
  /\ (\E t \in Threads : "stamp" \in May[t]) => "shown" \notin Protected
Serialized == OneWriter \/ LockHeldThroughout

\* A thread past its load holds the protected fields as the row has them.
Fresh ==
  \A t \in Threads : pc[t] # "idle" =>
    \A f \in Protected : snap[t][f] = db[f]

\* The lock belongs to the thread between its load and its commit, and a
\* thread runs only what it may.
Held ==
  \A t \in Threads :
    /\ pc[t] = "locked" <=> lock = t
    /\ pc[t] = "locked" => job[t] \in May[t] \cap Locking
    /\ pc[t] \in {"dispatch", "tail"} =>
         job[t] \in May[t] \cap {"heartbeat", "completion"}
    /\ pc[t] = "loaded" => job[t] \in May[t] \cap Loading

\* The inductive invariant.
IInv == TypeOK /\ Held /\ Fresh /\ NothingLost /\ BornOnce

-----------------------------------------------------------------------------

\* Adding a commit's writes to a row gives a row, field by field.
LEMMA PlusIsRow ==
  ASSUME NEW row \in Row, NEW W
  PROVE  /\ Plus(row, W) \in Row
         /\ \A f \in Fields :
              Plus(row, W)[f] = IF f \in W THEN row[f] + 1 ELSE row[f]
BY DEF Plus, Row

LEMMA ZeroIsRow == Zero \in Row
BY DEF Zero, Row

\* The end of a job keeps the types and gives the thread back.
LEMMA FinishTypes ==
  ASSUME TypeOK, NEW t \in Threads, Finish(t)
  PROVE  /\ pc' \in [Threads -> {"idle", "locked", "dispatch", "tail", "loaded"}]
         /\ job' \in [Threads -> Jobs \cup {"none"}]
         /\ snap' \in [Threads -> Row]
         /\ \A u \in Threads : pc'[u] = "idle" <=> job'[u] = "none"
BY ZeroIsRow DEF TypeOK, Finish, Go

LEMMA CommitWholeTypes ==
  ASSUME TypeOK, NEW t \in Threads, NEW W, CommitWhole(t, W)
  PROVE  db' \in Row /\ intended' \in Row
BY PlusIsRow DEF TypeOK, CommitWhole

LEMMA MergeTypes ==
  ASSUME TypeOK, NEW W, Merge(W)
  PROVE  db' \in Row /\ intended' \in Row
BY PlusIsRow DEF TypeOK, Merge

\* The job names are not "none", and a thread that runs a step of a job has one.
LEMMA JobNames ==
  /\ "none" \notin Jobs
  /\ Frames \subseteq Jobs /\ Locking \subseteq Jobs /\ Loading \subseteq Jobs
BY DEF Jobs, Locking, Loading, Frames

LEMMA InitTypes == Init => TypeOK
BY ZeroIsRow, JobNames DEF Init, TypeOK

\* Every step keeps the types.
LEMMA StepTypes == TypeOK /\ [Next]_vars => TypeOK'
<1> SUFFICES ASSUME TypeOK, [Next]_vars PROVE TypeOK'
  OBVIOUS
<1>1. ASSUME NEW t \in Threads, NEW j \in Jobs, Acquire(t, j) PROVE TypeOK'
  BY <1>1, JobNames DEF TypeOK, Acquire, Go
<1>2. ASSUME NEW t \in Threads, NEW j \in Jobs, Load(t, j) PROVE TypeOK'
  BY <1>2, JobNames DEF TypeOK, Load, Go
<1>3. ASSUME NEW t \in Threads, CommitFrame(t) PROVE TypeOK'
  <2>1. db' \in Row /\ intended' \in Row
    BY <1>3, CommitWholeTypes DEF CommitFrame
  <2>2. CASE job[t] = "frame"
    BY <1>3, <2>1, <2>2, FinishTypes DEF TypeOK, CommitFrame
  <2>3. CASE job[t] # "frame"
    BY <1>3, <2>1, <2>3, JobNames DEF TypeOK, CommitFrame, Go
  <2> QED BY <2>2, <2>3
<1>4. ASSUME NEW t \in Threads, CommitReserve(t) PROVE TypeOK'
  BY <1>4, CommitWholeTypes, FinishTypes DEF TypeOK, CommitReserve
<1>5. ASSUME NEW t \in Threads, StampSoul(t) PROVE TypeOK'
  BY <1>5, MergeTypes, FinishTypes DEF TypeOK, StampSoul
<1>6. ASSUME NEW t \in Threads, AdoptSoul(t) PROVE TypeOK'
  BY <1>6, MergeTypes, FinishTypes DEF TypeOK, AdoptSoul
<1>7. ASSUME NEW t \in Threads, Abandon(t) PROVE TypeOK'
  BY <1>7, FinishTypes DEF TypeOK, Abandon
<1>8. ASSUME NEW t \in Threads, Rollback(t) PROVE TypeOK'
  <2>1. db' \in Row /\ intended' \in Row
    BY <1>8, CommitWholeTypes DEF Rollback
  <2>2. CASE job[t] = "completion"
    BY <1>8, <2>1, <2>2 DEF TypeOK, Rollback, AfterDispatch, Go
  <2>3. CASE job[t] # "completion"
    BY <1>8, <2>1, <2>3, FinishTypes DEF TypeOK, Rollback, AfterDispatch
  <2> QED BY <2>2, <2>3
<1>9. ASSUME NEW t \in Threads, Dispatched(t) PROVE TypeOK'
  <2>1. CASE job[t] = "completion"
    BY <1>9, <2>1 DEF TypeOK, Dispatched, Go
  <2>2. CASE job[t] # "completion"
    BY <1>9, <2>2, FinishTypes DEF TypeOK, Dispatched
  <2> QED BY <2>1, <2>2
<1>10. ASSUME NEW t \in Threads, CompletionTail(t) PROVE TypeOK'
  BY <1>10, CommitWholeTypes, FinishTypes DEF TypeOK, CompletionTail
<1>11. ASSUME NEW t \in Threads, CommitRecover(t) PROVE TypeOK'
  BY <1>11, CommitWholeTypes, FinishTypes DEF TypeOK, CommitRecover
<1>12. ASSUME NEW t \in Threads, CommitAdmin(t) PROVE TypeOK'
  BY <1>12, CommitWholeTypes, FinishTypes DEF TypeOK, CommitAdmin
<1>13. ASSUME NEW t \in Threads, Decline(t) PROVE TypeOK'
  BY <1>13, FinishTypes DEF TypeOK, Decline
<1>14. ASSUME NEW t \in Threads, Stamp(t) PROVE TypeOK'
  BY <1>14, MergeTypes DEF TypeOK, Stamp
<1>15. ASSUME NEW t \in Threads, Reset(t) PROVE TypeOK'
  BY <1>15, ZeroIsRow DEF TypeOK, Reset
<1>16. CASE Crash
  BY <1>16, ZeroIsRow, JobNames DEF TypeOK, Crash
<1>17. CASE UNCHANGED vars
  BY <1>17 DEF TypeOK, vars
<1> QED
  BY <1>1, <1>2, <1>3, <1>4, <1>5, <1>6, <1>7, <1>8, <1>9, <1>10, <1>11,
     <1>12, <1>13, <1>14, <1>15, <1>16, <1>17 DEF Next

\* Every variable keeps its type and a thread is idle exactly when it has no
\* job, whatever the threads run and however their steps interleave.
THEOREM TypeCorrect == Spec => []TypeOK
BY InitTypes, StepTypes, PTL DEF Spec

-----------------------------------------------------------------------------
(* Serialized writers lose nothing. *)

\* A thread in the middle of a job, or one that may wipe, is alone.
LEMMA OthersIdle ==
  ASSUME Serialized, TypeOK, Held, NEW t \in Threads,
         pc[t] # "idle" \/ "reset" \in May[t]
  PROVE  \A u \in Threads : u # t => pc[u] = "idle"
<1>1. CASE OneWriter
  BY <1>1 DEF OneWriter
<1>2. CASE LockHeldThroughout
  <2>1. \A u \in Threads : pc[u] \in {"idle", "locked"}
    BY <1>2 DEF LockHeldThroughout, Held, TypeOK, Loading
  <2>2. pc[t] # "idle"
    BY <1>2 DEF LockHeldThroughout
  <2> QED BY <2>1, <2>2 DEF Held
<1> QED BY <1>1, <1>2 DEF Serialized

\* A whole-row commit of a fresh State loses nothing and births nobody.
LEMMA WholeKeeps ==
  ASSUME IInv, NEW t \in Threads, pc[t] # "idle", NEW W, "born" \notin W,
         CommitWhole(t, W), births' = births
  PROVE  NothingLost' /\ BornOnce'
<1>1. \A f \in Fields : intended'[f] = IF f \in W THEN intended[f] + 1
                                                  ELSE intended[f]
  BY PlusIsRow DEF IInv, TypeOK, CommitWhole
<1>2. \A f \in Fields : db'[f] = IF f \in W THEN snap[t][f] + 1
                                            ELSE snap[t][f]
  BY PlusIsRow DEF IInv, TypeOK, CommitWhole
<1>3. NothingLost'
  BY <1>1, <1>2 DEF IInv, Fresh, NothingLost
<1>4. BornOnce'
  BY <1>1 DEF IInv, BornOnce, Fields
<1> QED BY <1>3, <1>4

\* So does a merge that leaves the birth alone.
LEMMA MergeKeeps ==
  ASSUME IInv, NEW W, "born" \notin W, Merge(W), births' = births
  PROVE  NothingLost' /\ BornOnce'
<1>1. \A f \in Fields :
        /\ intended'[f] = IF f \in W THEN intended[f] + 1 ELSE intended[f]
        /\ db'[f] = IF f \in W THEN db[f] + 1 ELSE db[f]
  BY PlusIsRow DEF IInv, TypeOK, Merge
<1>2. NothingLost'
  BY <1>1 DEF IInv, NothingLost
<1>3. BornOnce'
  BY <1>1 DEF IInv, BornOnce, Fields
<1> QED BY <1>2, <1>3

\* A job that ends while the other threads are idle leaves nothing stale.
LEMMA FinishFresh ==
  ASSUME IInv, NEW t \in Threads, \A u \in Threads : u # t => pc[u] = "idle",
         Finish(t)
  PROVE  Fresh'
BY DEF IInv, TypeOK, Finish, Go, Fresh

\* A job that goes on after its commit caches the row it just committed.
LEMMA ContinueFresh ==
  ASSUME IInv, NEW t \in Threads, \A u \in Threads : u # t => pc[u] = "idle",
         NEW where, Go(t, where), snap' = [snap EXCEPT ![t] = db']
  PROVE  Fresh'
BY DEF IInv, TypeOK, Go, Fresh

\* The end of a job, with or without the lock, keeps the lock's owner.
LEMMA UnlockHeld ==
  ASSUME IInv, NEW t \in Threads, pc[t] = "locked", lock' = NoThread, Finish(t)
  PROVE  Held'
BY DEF IInv, TypeOK, Held, Finish, Go

LEMMA EndHeld ==
  ASSUME IInv, NEW t \in Threads, pc[t] # "locked", lock' = lock, Finish(t)
  PROVE  Held'
BY DEF IInv, TypeOK, Held, Finish, Go

LEMMA InitSafe == Init => IInv
<1> SUFFICES ASSUME Init PROVE IInv
  OBVIOUS
<1>1. TypeOK
  BY InitTypes
<1>2. Held /\ Fresh
  BY DEF Init, Held, Fresh
<1>3. NothingLost /\ BornOnce
  BY DEF Init, NothingLost, BornOnce, Zero, Fields
<1> QED BY <1>1, <1>2, <1>3 DEF IInv

\* Under serialized writers every step keeps the invariant.
LEMMA StepSafe == Serialized => (IInv /\ [Next]_vars => IInv')
<1> SUFFICES ASSUME Serialized, IInv, [Next]_vars PROVE IInv'
  OBVIOUS
<1>a. TypeOK' /\ TypeOK /\ Held
  BY StepTypes DEF IInv
<1>1. ASSUME NEW t \in Threads, NEW j \in Jobs, Acquire(t, j) PROVE IInv'
  <2>1. Held'
    BY <1>1, <1>a DEF Acquire, Go, Held, TypeOK
  <2>2. Fresh'
    BY <1>1, <1>a DEF IInv, Acquire, Go, Fresh, TypeOK
  <2>3. NothingLost' /\ BornOnce'
    BY <1>1 DEF IInv, Acquire, NothingLost, BornOnce
  <2> QED BY <2>1, <2>2, <2>3, <1>a DEF IInv
<1>2. ASSUME NEW t \in Threads, NEW j \in Jobs, Load(t, j) PROVE IInv'
  <2>1. Held'
    BY <1>2, <1>a DEF Load, Go, Held, TypeOK
  <2>2. Fresh'
    BY <1>2, <1>a DEF IInv, Load, Go, Fresh, TypeOK
  <2>3. NothingLost' /\ BornOnce'
    BY <1>2 DEF IInv, Load, NothingLost, BornOnce
  <2> QED BY <2>1, <2>2, <2>3, <1>a DEF IInv
<1>3. ASSUME NEW t \in Threads, CommitFrame(t) PROVE IInv'
  <2>1. pc[t] = "locked" /\ \A u \in Threads : u # t => pc[u] = "idle"
    BY <1>3, <1>a, OthersIdle DEF CommitFrame
  <2>2. NothingLost' /\ BornOnce'
    BY <1>3, <2>1, WholeKeeps DEF CommitFrame, FrameWrites
  <2>3. CASE job[t] = "frame"
    BY <1>3, <1>a, <2>1, <2>2, <2>3, FinishFresh, UnlockHeld
    DEF CommitFrame, IInv
  <2>4. CASE job[t] # "frame"
    <3>1. Fresh'
      BY <1>3, <2>1, <2>4, ContinueFresh DEF CommitFrame
    <3>2. Held'
      BY <1>3, <1>a, <2>1, <2>4 DEF CommitFrame, Go, Held, TypeOK, Frames
    <3> QED BY <3>1, <3>2, <2>2, <1>a DEF IInv
  <2> QED BY <2>3, <2>4
<1>4. ASSUME NEW t \in Threads, CommitReserve(t) PROVE IInv'
  <2>1. pc[t] = "locked" /\ \A u \in Threads : u # t => pc[u] = "idle"
    BY <1>4, <1>a, OthersIdle DEF CommitReserve
  <2>2. NothingLost' /\ BornOnce'
    BY <1>4, <2>1, WholeKeeps DEF CommitReserve
  <2> QED BY <1>4, <1>a, <2>1, <2>2, FinishFresh, UnlockHeld
          DEF CommitReserve, IInv
<1>5. ASSUME NEW t \in Threads, StampSoul(t) PROVE IInv'
  <2> DEFINE W == {"soul"} \cup IF db["born"] = 0 THEN {"born"} ELSE {}
  <2>1. pc[t] = "locked" /\ \A u \in Threads : u # t => pc[u] = "idle"
    BY <1>5, <1>a, OthersIdle DEF StampSoul
  <2>2. \A f \in Fields :
          /\ intended'[f] = IF f \in W THEN intended[f] + 1 ELSE intended[f]
          /\ db'[f] = IF f \in W THEN db[f] + 1 ELSE db[f]
    BY <1>5, <1>a, PlusIsRow DEF StampSoul, Merge, TypeOK
  <2>3. NothingLost'
    BY <2>2 DEF IInv, NothingLost
  <2>4. BornOnce'
    <3> SUFFICES ASSUME "born" \in Protected
                 PROVE  births' = intended'["born"] /\ births' <= 1
      BY DEF BornOnce
    <3>1. db["born"] = intended["born"] /\ snap[t]["born"] = db["born"]
      BY <2>1 DEF IInv, NothingLost, Fresh
    <3>2. births = intended["born"] /\ births <= 1
      BY DEF IInv, BornOnce
    <3>3. intended'["born"] = IF db["born"] = 0 THEN intended["born"] + 1
                                                ELSE intended["born"]
      BY <2>2 DEF Fields
    <3>4. births' = IF db["born"] = 0 THEN births + 1 ELSE births
      BY <1>5, <3>1 DEF StampSoul
    <3> QED BY <3>1, <3>2, <3>3, <3>4, <1>a DEF TypeOK
  <2> QED BY <1>5, <1>a, <2>1, <2>3, <2>4, FinishFresh, UnlockHeld
          DEF StampSoul, IInv
<1>6. ASSUME NEW t \in Threads, AdoptSoul(t) PROVE IInv'
  <2>1. pc[t] = "locked" /\ \A u \in Threads : u # t => pc[u] = "idle"
    BY <1>6, <1>a, OthersIdle DEF AdoptSoul
  <2>2. NothingLost' /\ BornOnce'
    BY <1>6, MergeKeeps DEF AdoptSoul
  <2> QED BY <1>6, <1>a, <2>1, <2>2, FinishFresh, UnlockHeld
          DEF AdoptSoul, IInv
<1>7. ASSUME NEW t \in Threads, Abandon(t) PROVE IInv'
  <2>1. pc[t] = "locked" /\ \A u \in Threads : u # t => pc[u] = "idle"
    BY <1>7, <1>a, OthersIdle DEF Abandon
  <2>2. NothingLost' /\ BornOnce'
    BY <1>7 DEF Abandon, IInv, NothingLost, BornOnce
  <2> QED BY <1>7, <1>a, <2>1, <2>2, FinishFresh, UnlockHeld
          DEF Abandon, IInv
<1>8. ASSUME NEW t \in Threads, Rollback(t) PROVE IInv'
  <2>1. pc[t] = "dispatch" /\ \A u \in Threads : u # t => pc[u] = "idle"
    BY <1>8, <1>a, OthersIdle DEF Rollback
  <2>2. NothingLost' /\ BornOnce'
    BY <1>8, <2>1, WholeKeeps DEF Rollback
  <2>3. CASE job[t] = "completion"
    <3>1. Fresh'
      BY <1>8, <2>1, <2>3, ContinueFresh DEF Rollback, AfterDispatch
    <3>2. Held'
      BY <1>8, <1>a, <2>1, <2>3 DEF Rollback, AfterDispatch, Go, Held, TypeOK
    <3> QED BY <3>1, <3>2, <2>2, <1>a DEF IInv
  <2>4. CASE job[t] # "completion"
    BY <1>8, <1>a, <2>1, <2>2, <2>4, FinishFresh, EndHeld
    DEF Rollback, AfterDispatch, IInv
  <2> QED BY <2>3, <2>4
<1>9. ASSUME NEW t \in Threads, Dispatched(t) PROVE IInv'
  <2>1. pc[t] = "dispatch" /\ \A u \in Threads : u # t => pc[u] = "idle"
    BY <1>9, <1>a, OthersIdle DEF Dispatched
  <2>2. NothingLost' /\ BornOnce'
    BY <1>9 DEF Dispatched, IInv, NothingLost, BornOnce
  <2>3. CASE job[t] = "completion"
    <3>1. Held'
      BY <1>9, <1>a, <2>1, <2>3 DEF Dispatched, Go, Held, TypeOK
    <3>2. Fresh'
      BY <1>9, <2>1, <2>3 DEF Dispatched, Go, IInv, Fresh, TypeOK
    <3> QED BY <3>1, <3>2, <2>2, <1>a DEF IInv
  <2>4. CASE job[t] # "completion"
    BY <1>9, <1>a, <2>1, <2>2, <2>4, FinishFresh, EndHeld
    DEF Dispatched, IInv
  <2> QED BY <2>3, <2>4
<1>10. ASSUME NEW t \in Threads, CompletionTail(t) PROVE IInv'
  <2>1. pc[t] = "tail" /\ \A u \in Threads : u # t => pc[u] = "idle"
    BY <1>10, <1>a, OthersIdle DEF CompletionTail
  <2>2. NothingLost' /\ BornOnce'
    BY <1>10, <2>1, WholeKeeps DEF CompletionTail
  <2> QED BY <1>10, <1>a, <2>1, <2>2, FinishFresh, EndHeld
          DEF CompletionTail, IInv
<1>11. ASSUME NEW t \in Threads, CommitRecover(t) PROVE IInv'
  <2>1. pc[t] = "loaded" /\ \A u \in Threads : u # t => pc[u] = "idle"
    BY <1>11, <1>a, OthersIdle DEF CommitRecover
  <2>2. NothingLost' /\ BornOnce'
    BY <1>11, <2>1, WholeKeeps DEF CommitRecover
  <2> QED BY <1>11, <1>a, <2>1, <2>2, FinishFresh, EndHeld
          DEF CommitRecover, IInv
<1>12. ASSUME NEW t \in Threads, CommitAdmin(t) PROVE IInv'
  <2>1. pc[t] = "loaded" /\ \A u \in Threads : u # t => pc[u] = "idle"
    BY <1>12, <1>a, OthersIdle DEF CommitAdmin
  <2>2. NothingLost' /\ BornOnce'
    BY <1>12, <2>1, WholeKeeps DEF CommitAdmin, AdminWrites
  <2> QED BY <1>12, <1>a, <2>1, <2>2, FinishFresh, EndHeld
          DEF CommitAdmin, IInv
<1>13. ASSUME NEW t \in Threads, Decline(t) PROVE IInv'
  <2>1. pc[t] = "loaded" /\ \A u \in Threads : u # t => pc[u] = "idle"
    BY <1>13, <1>a, OthersIdle DEF Decline
  <2>2. NothingLost' /\ BornOnce'
    BY <1>13 DEF Decline, IInv, NothingLost, BornOnce
  <2> QED BY <1>13, <1>a, <2>1, <2>2, FinishFresh, EndHeld
          DEF Decline, IInv
<1>14. ASSUME NEW t \in Threads, Stamp(t) PROVE IInv'
  <2>1. Held' /\ NothingLost' /\ BornOnce'
    <3>1. Held'
      BY <1>14, <1>a DEF Stamp, Held
    <3>2. NothingLost' /\ BornOnce'
      BY <1>14, MergeKeeps DEF Stamp
    <3> QED BY <3>1, <3>2
  <2>2. CASE OneWriter
    <3>1. \A u \in Threads : pc[u] = "idle"
      BY <1>14, <2>2 DEF OneWriter, Stamp
    <3>2. Fresh'
      BY <1>14, <3>1 DEF Stamp, Fresh
    <3> QED BY <3>2, <2>1, <1>a DEF IInv
  <2>3. CASE LockHeldThroughout
    <3>1. \A f \in Protected : db'[f] = db[f]
      BY <1>14, <1>a, <2>3, PlusIsRow
      DEF LockHeldThroughout, Stamp, Merge, TypeOK
    <3>2. Fresh'
      BY <1>14, <3>1 DEF IInv, Stamp, Fresh
    <3> QED BY <3>2, <2>1, <1>a DEF IInv
  <2> QED BY <2>2, <2>3 DEF Serialized
<1>15. ASSUME NEW t \in Threads, Reset(t) PROVE IInv'
  <2>1. \A u \in Threads : pc[u] = "idle"
    BY <1>15, <1>a, OthersIdle DEF Reset
  <2>2. Held' /\ Fresh'
    BY <1>15, <1>a, <2>1 DEF Reset, Held, Fresh
  <2>3. NothingLost' /\ BornOnce'
    BY <1>15 DEF Reset, NothingLost, BornOnce, Zero, Fields
  <2> QED BY <2>2, <2>3, <1>a DEF IInv
<1>16. CASE Crash
  <2>1. Held' /\ Fresh'
    BY <1>16 DEF Crash, Held, Fresh
  <2>2. NothingLost' /\ BornOnce'
    BY <1>16 DEF Crash, IInv, NothingLost, BornOnce
  <2> QED BY <2>1, <2>2, <1>a DEF IInv
<1>17. CASE UNCHANGED vars
  BY <1>17, <1>a DEF vars, IInv, Held, Fresh, NothingLost, BornOnce
<1> QED
  BY <1>1, <1>2, <1>3, <1>4, <1>5, <1>6, <1>7, <1>8, <1>9, <1>10, <1>11,
     <1>12, <1>13, <1>14, <1>15, <1>16, <1>17 DEF Next

\* Serialized writers lose no write to a protected field, in any reachable
\* state: no commit writes back an older value of it.
THEOREM SerializedSafe == Serialized => (Spec => []NothingLost)
<1> SUFFICES ASSUME Serialized PROVE Spec => []NothingLost
  OBVIOUS
<1>1. IInv /\ [Next]_vars => IInv'
  BY StepSafe
<1>2. IInv => NothingLost
  BY DEF IInv
<1> QED BY InitSafe, <1>1, <1>2, PTL DEF Spec

\* Nor do they give the being a second birth: two first souls that race, or a
\* frame that loaded before the first one, never stamp the birth twice.
THEOREM SerializedBirth == Serialized => (Spec => []BornOnce)
<1> SUFFICES ASSUME Serialized PROVE Spec => []BornOnce
  OBVIOUS
<1>1. IInv /\ [Next]_vars => IInv'
  BY StepSafe
<1>2. IInv => BornOnce
  BY DEF IInv
<1> QED BY InitSafe, <1>1, <1>2, PTL DEF Spec

-----------------------------------------------------------------------------
(* The row implements AtomicRow. *)

\* A whole-row commit of a fresh State acts on the latest protected fields.
LEMMA WholeActs ==
  ASSUME IInv, NEW t \in Threads, pc[t] # "idle",
         NEW W \in AllWrites, "born" \notin W, CommitWhole(t, W)
  PROVE  Atomic!Next
<1>1. \A f \in Fields : db'[f] = IF f \in W THEN snap[t][f] + 1
                                            ELSE snap[t][f]
  BY PlusIsRow DEF IInv, TypeOK, CommitWhole
<1>2. \A f \in Protected : db[f] \in Nat /\ snap[t][f] = db[f]
  BY DEF IInv, TypeOK, Fresh, Row
<1>3. Atomic!Write(W \cap Protected)
  BY <1>1, <1>2 DEF Atomic!Write
<1> QED BY <1>3 DEF Atomic!Next

\* So does a merge; it writes the birth only when there is none.
LEMMA MergeActs ==
  ASSUME IInv, NEW W \in AllWrites, "born" \in W => db["born"] = 0, Merge(W)
  PROVE  Atomic!Next
<1>1. \A f \in Fields : db'[f] = IF f \in W THEN db[f] + 1 ELSE db[f]
  BY PlusIsRow DEF IInv, TypeOK, Merge
<1>2. \A f \in Protected : db[f] \in Nat
  BY DEF IInv, TypeOK, Row
<1>3. Atomic!Write(W \cap Protected)
  BY <1>1, <1>2 DEF Atomic!Write
<1> QED BY <1>3 DEF Atomic!Next

LEMMA InitActs == Init => Atomic!Init
BY DEF Init, Zero, Atomic!Init

\* Every step is a step of AtomicRow or leaves the protected fields alone.
LEMMA StepActs ==
  IInv /\ [Next]_vars => [Atomic!Next]_([f \in Protected |-> db[f]])
<1> DEFINE Same == UNCHANGED [f \in Protected |-> db[f]]
<1> SUFFICES ASSUME IInv, [Next]_vars PROVE Atomic!Next \/ Same
  OBVIOUS
<1>a. FrameWrites \subseteq AllWrites /\ AdminWrites \subseteq AllWrites
      /\ {"internal"} \in AllWrites /\ {"vitals", "lane"} \in AllWrites
      /\ {"soul"} \in AllWrites /\ {"soul", "born"} \in AllWrites
      /\ {"shown"} \in AllWrites
  BY DEF AllWrites, FrameWrites
<1>1. ASSUME NEW t \in Threads, NEW j \in Jobs, Acquire(t, j) \/ Load(t, j)
      PROVE  Same
  BY <1>1 DEF Acquire, Load
<1>2. ASSUME NEW t \in Threads, CommitFrame(t) PROVE Atomic!Next
  BY <1>2, <1>a, WholeActs DEF CommitFrame, FrameWrites
<1>3. ASSUME NEW t \in Threads,
             CommitReserve(t) \/ CompletionTail(t) \/ CommitRecover(t)
      PROVE  Atomic!Next
  BY <1>3, <1>a, WholeActs DEF CommitReserve, CompletionTail, CommitRecover
<1>4. ASSUME NEW t \in Threads, StampSoul(t) PROVE Atomic!Next
  <2>1. CASE db["born"] = 0
    <3>1. Merge({"soul", "born"})
      <4>1. {"soul"} \cup {"born"} = {"soul", "born"}
        OBVIOUS
      <4> QED BY <1>4, <2>1, <4>1 DEF StampSoul
    <3> QED BY <3>1, <2>1, <1>a, MergeActs
  <2>2. CASE db["born"] # 0
    <3>1. Merge({"soul"})
      <4>1. {"soul"} \cup {} = {"soul"}
        OBVIOUS
      <4> QED BY <1>4, <2>2, <4>1 DEF StampSoul
    <3> QED BY <3>1, <1>a, MergeActs
  <2> QED BY <2>1, <2>2
<1>5. ASSUME NEW t \in Threads, AdoptSoul(t) \/ Stamp(t) PROVE Atomic!Next
  BY <1>5, <1>a, MergeActs DEF AdoptSoul, Stamp
<1>6. ASSUME NEW t \in Threads, Abandon(t) \/ Dispatched(t) \/ Decline(t)
      PROVE  Same
  BY <1>6 DEF Abandon, Dispatched, Decline
<1>7. ASSUME NEW t \in Threads, Rollback(t) PROVE Atomic!Next
  BY <1>7, <1>a, WholeActs DEF Rollback
<1>8. ASSUME NEW t \in Threads, CommitAdmin(t) PROVE Atomic!Next
  BY <1>8, <1>a, WholeActs DEF CommitAdmin, AdminWrites
<1>9. ASSUME NEW t \in Threads, Reset(t) PROVE Atomic!Next
  BY <1>9 DEF Reset, Zero, Atomic!Next, Atomic!Wipe
<1>10. CASE Crash
  BY <1>10 DEF Crash
<1>11. CASE UNCHANGED vars
  BY <1>11 DEF vars
<1> QED
  BY <1>1, <1>2, <1>3, <1>4, <1>5, <1>6, <1>7, <1>8, <1>9, <1>10, <1>11
  DEF Next

\* Under serialized writers the protected fields of the row behave as one
\* atomic record: every commit acts on what was last committed.
THEOREM SerializedAtomic == Serialized => (Spec => ActsAtomically)
<1> SUFFICES ASSUME Serialized PROVE Spec => ActsAtomically
  OBVIOUS
<1>1. IInv /\ [Next]_vars => IInv'
  BY StepSafe
<1> QED
  BY InitSafe, InitActs, <1>1, StepActs, PTL
  DEF Spec, ActsAtomically, Atomic!Spec
=============================================================================
