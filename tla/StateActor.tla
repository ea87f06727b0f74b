----------------------------- MODULE StateActor -----------------------------
(***************************************************************************)
(* The one runtime_state row and everybody who writes it.                  *)
(*                                                                         *)
(* A frame (core/frame.run_frame) takes the process-wide state-actor lock, *)
(* loads the whole State, runs the pipeline and commits the whole State    *)
(* with its patch.  Other writers take the lock around a field-level merge *)
(* (the soul), merge without the lock (the injector's stamps), commit a    *)
(* whole State they loaded before taking the lock (recover_stale), or      *)
(* commit a whole cached State without it (a launch's rollback, the tail   *)
(* of an internal completion, the admin commands).                         *)
(*                                                                         *)
(* A field group is abstracted to the number of writes it carries; the     *)
(* ghost "intended" counts the writes that were committed to it.  A write  *)
(* that a stale whole-row commit rolled back leaves db behind intended.    *)
(***************************************************************************)
EXTENDS Naturals, FiniteSets

CONSTANTS Threads,     \* threads of the gateway process: its loop, executors
          May,         \* May[t]: the jobs thread t runs
          Protected,   \* the field groups a run or a theorem speaks about
          MaxWrites,   \* bound on the writes to one field group
          NoThread     \* the lock is free

\* The groups of State fields that one writer owns.
Fields == {"vitals", "lane", "internal", "soul", "born", "shown"}

Frames  == {"frame", "heartbeat", "completion"}
Locking == Frames \cup {"reserve", "soul", "adopt"}
Loading == {"recover", "admin"}
Jobs    == Locking \cup Loading \cup {"stamp", "reset"}

\* The fields one commit writes together.  A frame always advances the tick
\* counter, so its patch is never empty.
FrameWrites == {{"vitals"}, {"vitals", "lane"}}
AdminWrites == {{"vitals"}, {"lane"}, {"vitals", "lane"}}
AllWrites   == FrameWrites \cup AdminWrites
               \cup {{"internal"}, {"soul"}, {"soul", "born"}, {"shown"}}

ASSUME ThreadsAssumption == NoThread \notin Threads
ASSUME MayAssumption == May \in [Threads -> SUBSET Jobs]
ASSUME ProtectedAssumption == Protected \subseteq Fields
ASSUME MaxWritesAssumption == MaxWrites \in Nat

VARIABLES db,        \* the committed row
          intended,  \* ghost: the writes committed to each field in this life
          births,    \* ghost: how often a writer was told "you were born"
          lock,      \* holder of _STATE_ACTOR_LOCK
          pc,        \* where each thread stands in its job
          job,       \* the job it runs
          snap       \* the State its StateActor cached

vars == <<db, intended, births, lock, pc, job, snap>>

Zero == [f \in Fields |-> 0]

Init ==
  /\ db = Zero /\ intended = Zero /\ births = 0
  /\ lock = NoThread
  /\ pc = [t \in Threads |-> "idle"]
  /\ job = [t \in Threads |-> "none"]
  /\ snap = [t \in Threads |-> Zero]

-----------------------------------------------------------------------------
(* Steps of a writer. *)

Plus(row, W) == [f \in Fields |-> row[f] + IF f \in W THEN 1 ELSE 0]

\* Cap of the model: no field group is written more than MaxWrites times.
Room(W) == \A f \in W : intended[f] < MaxWrites

Go(t, where) == pc' = [pc EXCEPT ![t] = where]

\* Mutant of Finish: the job is not cleared.
FinishKeepsJob(t) ==
  /\ Go(t, "idle")
  /\ snap' = [snap EXCEPT ![t] = Zero]
  /\ UNCHANGED job

\* The job is over: its StateActor, and the State cached in it, are dropped.
Finish(t) ==
  /\ Go(t, "idle")
  /\ job' = [job EXCEPT ![t] = "none"]
  /\ snap' = [snap EXCEPT ![t] = Zero]

\* Mutant of CommitWhole: the patch is laid over a fresh State().
CommitOverDefaults(t, W) ==
  /\ Room(W)
  /\ db' = Plus(Zero, W)
  /\ intended' = Plus(intended, W)

\* StateActor.apply: the cached State with the patch replaces the whole row.
CommitWhole(t, W) ==
  /\ Room(W)
  /\ db' = Plus(snap[t], W)
  /\ intended' = Plus(intended, W)

\* A field-level merge: read and written under one BEGIN IMMEDIATE.
Merge(W) ==
  /\ Room(W)
  /\ db' = Plus(db, W)
  /\ intended' = Plus(intended, W)

\* Mutant of Acquire: it does not wait for the lock.
AcquireUnlocked(t, j) ==
  /\ pc[t] = "idle"
  /\ j \in May[t] \cap Locking
  /\ lock' = t
  /\ job' = [job EXCEPT ![t] = j]
  /\ snap' = [snap EXCEPT ![t] = db]
  /\ Go(t, "locked")
  /\ UNCHANGED <<db, intended, births>>

\* Take the lock, then load: run_frame, the runner's launch, a soul writer.
Acquire(t, j) ==
  /\ pc[t] = "idle" /\ lock = NoThread
  /\ j \in May[t] \cap Locking
  /\ lock' = t
  /\ job' = [job EXCEPT ![t] = j]
  /\ snap' = [snap EXCEPT ![t] = db]
  /\ Go(t, "locked")
  /\ UNCHANGED <<db, intended, births>>

\* Mutant of CommitFrame: the actor keeps the State it loaded after its commit.
CommitFrameKeepsCache(t) ==
  /\ pc[t] = "locked" /\ job[t] \in Frames
  /\ \E W \in FrameWrites : CommitWhole(t, W)
  /\ lock' = NoThread
  /\ IF job[t] = "frame" THEN Finish(t)
                         ELSE Go(t, "dispatch") /\ UNCHANGED <<job, snap>>
  /\ UNCHANGED births

\* The end of a frame: one commit, the lock is released.  A heartbeat and an
\* internal completion keep the actor, and its cached State, to dispatch the
\* frame's launch outside the lock.
CommitFrame(t) ==
  /\ pc[t] = "locked" /\ job[t] \in Frames
  /\ \E W \in FrameWrites : CommitWhole(t, W)
  /\ lock' = NoThread
  /\ IF job[t] = "frame"
       THEN Finish(t)
       ELSE /\ snap' = [snap EXCEPT ![t] = db']
            /\ Go(t, "dispatch")
            /\ UNCHANGED job
  /\ UNCHANGED births

\* launch reserves the internal pass; _clear_pending_fail_loud clears it.
CommitReserve(t) ==
  /\ pc[t] = "locked" /\ job[t] = "reserve"
  /\ CommitWhole(t, {"internal"})
  /\ lock' = NoThread
  /\ Finish(t)
  /\ UNCHANGED births

\* Mutant of StampSoul: the birth is stamped whether or not there is one.
StampSoulAlways(t) ==
  /\ pc[t] = "locked" /\ job[t] = "soul"
  /\ Merge({"soul", "born"})
  /\ births' = IF snap[t]["born"] = 0 THEN births + 1 ELSE births
  /\ lock' = NoThread
  /\ Finish(t)

\* write_soul: was_unborn is read from the State loaded under the lock; the
\* stamp decides on the stored row whether this write is the birth.
StampSoul(t) ==
  /\ pc[t] = "locked" /\ job[t] = "soul"
  /\ Merge({"soul"} \cup IF db["born"] = 0 THEN {"born"} ELSE {})
  /\ births' = IF snap[t]["born"] = 0 THEN births + 1 ELSE births
  /\ lock' = NoThread
  /\ Finish(t)

\* Startup reconciliation and soul revert stamp the sha; they birth nobody.
AdoptSoul(t) ==
  /\ pc[t] = "locked" /\ job[t] = "adopt"
  /\ Merge({"soul"})
  /\ lock' = NoThread
  /\ Finish(t)
  /\ UNCHANGED births

\* A frame that raised, a refused reservation, a soul that needs no adoption:
\* nothing is committed and the lock is released.
Abandon(t) ==
  /\ pc[t] = "locked"
  /\ lock' = NoThread
  /\ Finish(t)
  /\ UNCHANGED <<db, intended, births>>

-----------------------------------------------------------------------------
(* What a frame's caller commits after the lock was released. *)

\* Mutant of AfterDispatch: the tail starts from the State before the rollback.
AfterDispatchStale(t) ==
  IF job[t] = "completion" THEN Go(t, "tail") /\ UNCHANGED <<job, snap>>
                           ELSE Finish(t)

AfterDispatch(t) ==
  IF job[t] = "completion"
    THEN /\ snap' = [snap EXCEPT ![t] = db']
         /\ Go(t, "tail")
         /\ UNCHANGED job
    ELSE Finish(t)

\* proactive._rollback: clear the pending launch, refund its energy.
Rollback(t) ==
  /\ pc[t] = "dispatch"
  /\ CommitWhole(t, {"vitals", "lane"})
  /\ AfterDispatch(t)
  /\ UNCHANGED <<lock, births>>

\* Nothing was launched, or the turn was handed over.
Dispatched(t) ==
  /\ pc[t] = "dispatch"
  /\ IF job[t] = "completion"
       THEN Go(t, "tail") /\ UNCHANGED <<job, snap>>
       ELSE Finish(t)
  /\ UNCHANGED <<db, intended, births, lock>>

\* run_internal_completion clears pending_internal_id from the same actor.
CompletionTail(t) ==
  /\ pc[t] = "tail"
  /\ CommitWhole(t, {"internal"})
  /\ Finish(t)
  /\ UNCHANGED <<lock, births>>

-----------------------------------------------------------------------------
(* Writers that load without the lock. *)

Load(t, j) ==
  /\ pc[t] = "idle"
  /\ j \in May[t] \cap Loading
  /\ job' = [job EXCEPT ![t] = j]
  /\ snap' = [snap EXCEPT ![t] = db]
  /\ Go(t, "loaded")
  /\ UNCHANGED <<db, intended, births, lock>>

\* recover_stale takes the lock only for the commit of the State it cached.
CommitRecover(t) ==
  /\ pc[t] = "loaded" /\ job[t] = "recover"
  /\ lock = NoThread
  /\ CommitWhole(t, {"internal"})
  /\ Finish(t)
  /\ UNCHANGED <<lock, births>>

\* An admin command commits the candidate it computed; no lock at all.
CommitAdmin(t) ==
  /\ pc[t] = "loaded" /\ job[t] = "admin"
  /\ \E W \in AdminWrites : CommitWhole(t, W)
  /\ Finish(t)
  /\ UNCHANGED <<lock, births>>

\* Nothing to recover, or the command was refused.
Decline(t) ==
  /\ pc[t] = "loaded"
  /\ Finish(t)
  /\ UNCHANGED <<db, intended, births, lock>>

\* The injector records that the being has seen its ritual.
Stamp(t) ==
  /\ pc[t] = "idle" /\ "stamp" \in May[t]
  /\ Merge({"shown"})
  /\ UNCHANGED <<births, lock, pc, job, snap>>

\* The factory wipe commits a newborn body without a load: another life.
Reset(t) ==
  /\ pc[t] = "idle" /\ "reset" \in May[t]
  /\ db' = Zero /\ intended' = Zero /\ births' = 0
  /\ UNCHANGED <<lock, pc, job, snap>>

\* The gateway process dies; only the row survives it.
Crash ==
  /\ lock' = NoThread
  /\ pc' = [t \in Threads |-> "idle"]
  /\ job' = [t \in Threads |-> "none"]
  /\ snap' = [t \in Threads |-> Zero]
  /\ UNCHANGED <<db, intended, births>>

Next ==
  \/ \E t \in Threads :
       \/ \E j \in Jobs : Acquire(t, j) \/ Load(t, j)
       \/ CommitFrame(t) \/ CommitReserve(t) \/ StampSoul(t) \/ AdoptSoul(t)
       \/ Abandon(t)
       \/ Rollback(t) \/ Dispatched(t) \/ CompletionTail(t)
       \/ CommitRecover(t) \/ CommitAdmin(t) \/ Decline(t)
       \/ Stamp(t) \/ Reset(t)
  \/ Crash

Spec == Init /\ [][Next]_vars

-----------------------------------------------------------------------------
(* Properties. *)

Row == [Fields -> Nat]

\* Every variable has its type, and a thread is idle exactly when it has no
\* job: a job that ends always gives its place and its cached State back.
TypeOK ==
  /\ db \in Row /\ intended \in Row /\ births \in Nat
  /\ lock \in Threads \cup {NoThread}
  /\ pc \in [Threads -> {"idle", "locked", "dispatch", "tail", "loaded"}]
  /\ job \in [Threads -> Jobs \cup {"none"}]
  /\ snap \in [Threads -> Row]
  /\ \A t \in Threads : pc[t] = "idle" <=> job[t] = "none"

\* No committed write to a protected field is ever lost: no whole-row commit
\* carries back a value older than the row's (frame.py: "so two frames can
\* never interleave their snapshot->commit").
NothingLost == \A f \in Protected : db[f] = intended[f]

\* Nobody is born twice, and write_soul tells the being that it was born
\* exactly as often as a birth was stamped (was_unborn is read under the lock
\* but apart from the stamp's own test).
BornOnce == "born" \in Protected => births = intended["born"] /\ births <= 1

\* The protected fields of the row behave as one atomic record: each commit,
\* merge or wipe acts on the latest committed values.
Atomic == INSTANCE AtomicRow WITH
            Fields <- Protected,
            Ops <- {W \cap Protected : W \in AllWrites},
            Once <- {"born"},
            row <- [f \in Protected |-> db[f]]

ActsAtomically == Atomic!Spec

\* Once the birth is in the row no later step takes it out (frame.py: left
\* unserialized, "the interleave costs a birth").
BirthStays == [][db["born"] = 1 => db'["born"] = 1]_vars

\* A merged "shown" stamp is never rolled back (stamp_genesis_shown: "a lost
\* stamp is a doubled ritual ... and no later turn repairs that").
ShownStays == [][db'["shown"] >= db["shown"]]_vars
=============================================================================
