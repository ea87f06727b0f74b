----------------------------- MODULE Migration -----------------------------
(***************************************************************************)
(* How SQLiteRuntimeStore makes lifemodel.sqlite ready: the being's self.  *)
(*                                                                         *)
(* Each construction checks the file, moves a corrupt one aside, lists the *)
(* applied versions and applies the rest, with a backup to restore when a  *)
(* step raises.  Version 3 rebuilds the table of memory records: it reads  *)
(* the rows, drops the table (which sqlite commits at once) and inserts    *)
(* them again in one transaction with the version's mark.  Processes       *)
(* construct independently, and may crash between any two steps.           *)
(*                                                                         *)
(* A record is a row; the other tables and the columns are left out, but   *)
(* for the shape that version 3 looks for.                                 *)
(***************************************************************************)
EXTENDS Naturals, FiniteSets

CONSTANTS Processes, Rows,
          Rotten,      \* rows whose stamps cannot be normalized
          MaxMishaps,  \* bound: crashes, corruptions and failing steps
          MaxBuilds    \* bound: constructions

\* Versions 1 and 2 create the first tables and count as one.
Versions == 2 .. 4
Rebuild == 3
Shapes == {"none", "old", "new"}
Files == [shape : Shapes, rows : SUBSET Rows, applied : SUBSET Versions, sound : BOOLEAN]

Places == {"out", "checked", "condemned", "listed", "migrating", "read", "dropped",
           "failing", "restoring", "displaced", "ready"}
\* Between the list of the applied versions and the end of the construction.
Working == {"listed", "migrating", "read", "dropped", "failing", "restoring", "displaced"}

NoFile == [shape |-> "none", rows |-> {}, applied |-> {}, sound |-> TRUE]

VARIABLES
  file,         \* lifemodel.sqlite, its -wal and -shm
  copies,       \* the rows of the backups and of the files moved aside
  at,           \* per process: where its construction stands
  pending,      \* per process: the versions it still has to apply
  kept,         \* per process: the backup it would restore, {} or one file
  held,         \* per process: the rows its rebuild has read
  written,      \* history: every row that was committed
  raced,        \* history: a file was migrated or moved while another process had it
  interrupted,  \* history: a crash fell between a drop and its refill
  condemnedYet, \* history: the file was found corrupt, or was made so
  discarded,    \* history: a corrupt file could not be renamed and was removed
  mishaps,
  builds

vars == <<file, copies, at, pending, kept, held, written, raced, interrupted,
          condemnedYet, discarded, mishaps, builds>>

TypeOK ==
  /\ file \in Files
  /\ copies \subseteq Rows
  /\ at \in [Processes -> Places]
  /\ pending \in [Processes -> SUBSET Versions]
  /\ \A p \in Processes : kept[p] \subseteq Files /\ Cardinality(kept[p]) <= 1
  /\ held \in [Processes -> SUBSET Rows]
  /\ written \subseteq Rows
  /\ raced \in BOOLEAN /\ interrupted \in BOOLEAN /\ condemnedYet \in BOOLEAN
  /\ discarded \in BOOLEAN /\ mishaps \in 0 .. MaxMishaps /\ builds \in 0 .. MaxBuilds

\* No file yet, or the file of an earlier release with the retired columns.
Init ==
  /\ file \in {NoFile} \cup
       [shape : {"old"}, rows : SUBSET Rows, applied : {{2}}, sound : {TRUE}]
  /\ written = file.rows
  /\ copies = {}
  /\ at = [p \in Processes |-> "out"]
  /\ pending = [p \in Processes |-> {}]
  /\ kept = [p \in Processes |-> {}]
  /\ held = [p \in Processes |-> {}]
  /\ raced = FALSE /\ interrupted = FALSE /\ condemnedYet = FALSE /\ discarded = FALSE
  /\ mishaps = 0 /\ builds = 0

jobs == <<pending, kept, held>>
histories == <<written, raced, interrupted, condemnedYet, discarded, mishaps>>
others == <<histories, builds>>

\* Another process migrates the file, or has it in use.
Shared(p) == \E q \in Processes \ {p} : at[q] \in Working \cup {"ready"}

Goes(p, place) == at' = [at EXCEPT ![p] = place]

\* The construction of p is over: what it remembered goes with it.
Leaves(p, place) ==
  /\ Goes(p, place)
  /\ pending' = [pending EXCEPT ![p] = {}]
  /\ kept' = [kept EXCEPT ![p] = {}]
  /\ held' = [held EXCEPT ![p] = {}]

-----------------------------------------------------------------------------

\* quick_check, on a read-only connection.
Checks(p) ==
  /\ at[p] \in {"out", "ready"} /\ builds < MaxBuilds
  /\ builds' = builds + 1
  /\ Goes(p, IF file.sound THEN "checked" ELSE "condemned")
  /\ UNCHANGED <<file, copies, jobs, histories>>

\* The trio is renamed, or removed when that fails.  Whoever was writing it
\* goes on with the renamed file.
MovesAside(p) ==
  /\ at[p] = "condemned"
  /\ file' = NoFile
  /\ at' = [q \in Processes |-> IF q = p THEN "checked"
                                ELSE IF at[q] \in {"dropped", "restoring"} THEN "displaced"
                                ELSE at[q]]
  /\ condemnedYet' = TRUE
  /\ raced' = (raced \/ Shared(p))
  /\ \/ copies' = copies \cup file.rows /\ UNCHANGED discarded
     \/ UNCHANGED copies /\ discarded' = TRUE
  /\ UNCHANGED <<jobs, written, interrupted, mishaps, builds>>

\* Reads schema_migrations, which it creates when it is not there.
Lists(p) ==
  /\ at[p] = "checked"
  /\ LET missing == Versions \ file.applied IN
       /\ pending' = [pending EXCEPT ![p] = missing]
       /\ Goes(p, IF missing = {} THEN "ready" ELSE "listed")
       /\ raced' = (raced \/ (missing # {} /\ Shared(p)))
  /\ UNCHANGED <<file, copies, kept, held, written, interrupted, condemnedYet, discarded, mishaps, builds>>

\* Mutant of Backed: the first file that gets a backup has applied version 3.
BackedOnlyAfterRebuild(applied) == Rebuild \in applied
\* A file that has applied anything is backed up; a brand-new one is not.
Backed(applied) == applied # {}

BacksUp(p) ==
  /\ at[p] = "listed"
  /\ IF Backed(Versions \ pending[p])
       THEN copies' = copies \cup file.rows /\ kept' = [kept EXCEPT ![p] = {file}]
       ELSE UNCHANGED <<copies, kept>>
  /\ Goes(p, "migrating")
  /\ UNCHANGED <<file, pending, held, others>>

IsNext(p, v) == v \in pending[p] /\ \A u \in pending[p] : v <= u

\* The mark of a version is unique: the second one to insert it raises.
Marks(p, v, rows, shape) ==
  IF v \in file.applied
    THEN Goes(p, "failing") /\ UNCHANGED <<file, jobs>>
    ELSE /\ file' = [file EXCEPT !.rows = rows, !.shape = shape, !.applied = @ \cup {v}]
         /\ IF pending[p] = {v}
              THEN Leaves(p, "ready")
              ELSE Goes(p, "migrating") /\ pending' = [pending EXCEPT ![p] = @ \ {v}]
                   /\ UNCHANGED <<kept, held>>

\* Versions that create what is not there.
Creates(p, v) ==
  /\ at[p] = "migrating" /\ IsNext(p, v) /\ v # Rebuild /\ file.sound
  /\ Marks(p, v, file.rows, IF v = 2 /\ file.shape = "none" THEN "new" ELSE file.shape)
  /\ UNCHANGED <<copies, others>>

\* Version 3 has nothing to do on the present shape.
Skips(p) ==
  /\ at[p] = "migrating" /\ IsNext(p, Rebuild) /\ file.sound /\ file.shape # "old"
  /\ Marks(p, Rebuild, file.rows, file.shape)
  /\ UNCHANGED <<copies, others>>

Reads(p) ==
  /\ at[p] = "migrating" /\ IsNext(p, Rebuild) /\ file.sound /\ file.shape = "old"
  /\ held' = [held EXCEPT ![p] = file.rows]
  /\ Goes(p, "read")
  /\ UNCHANGED <<file, copies, pending, kept, others>>

\* DROP and CREATE: sqlite commits them before the inserts begin.
Drops(p) ==
  /\ at[p] = "read" /\ file.sound
  /\ file' = [file EXCEPT !.rows = {}, !.shape = "new"]
  /\ Goes(p, "dropped")
  /\ UNCHANGED <<copies, jobs, others>>

\* The inserts and the mark, in one transaction.
Refills(p) ==
  /\ at[p] = "dropped" /\ held[p] \cap Rotten = {}
  /\ Marks(p, Rebuild, file.rows \cup held[p], "new")
  /\ UNCHANGED <<copies, others>>

\* A stamp that cannot be normalized stops the rebuild after the drop.
Refuses(p) ==
  /\ at[p] = "dropped" /\ held[p] \cap Rotten # {}
  /\ Goes(p, "failing")
  /\ UNCHANGED <<file, copies, jobs, others>>

\* A step raises on its own.
StepFails(p) ==
  /\ at[p] \in {"migrating", "read", "dropped"} /\ mishaps < MaxMishaps
  /\ mishaps' = mishaps + 1
  /\ Goes(p, "failing")
  /\ UNCHANGED <<file, copies, jobs, written, raced, interrupted, condemnedYet, discarded, builds>>

\* The file another process is restoring is not sound.
CheckFails(p) ==
  /\ at[p] \in {"migrating", "read"} /\ ~file.sound
  /\ Goes(p, "failing")
  /\ UNCHANGED <<file, copies, jobs, others>>

\* Removes the -wal and -shm and starts to copy the backup over the file.
RestoreBegins(p) ==
  /\ at[p] = "failing" /\ kept[p] # {}
  /\ file' = [file EXCEPT !.rows = {}, !.sound = FALSE]
  /\ Goes(p, "restoring")
  /\ UNCHANGED <<copies, jobs, others>>

RestoreEnds(p) ==
  /\ at[p] = "restoring"
  /\ file' \in kept[p]
  /\ Leaves(p, "out")
  /\ UNCHANGED <<copies, others>>

\* Nothing to restore, or no file of this name to restore it to.
GivesUp(p) ==
  /\ \/ at[p] = "failing" /\ kept[p] = {}
     \/ at[p] = "displaced"
  /\ Leaves(p, "out")
  /\ UNCHANGED <<file, copies, others>>

\* A process whose store is ready commits a row.
Writes(p, r) ==
  /\ at[p] = "ready" /\ file.sound /\ file.shape = "new" /\ r \notin written
  /\ file' = [file EXCEPT !.rows = @ \cup {r}]
  /\ written' = written \cup {r}
  /\ UNCHANGED <<copies, at, jobs, raced, interrupted, condemnedYet, discarded, mishaps, builds>>

Crashes(p) ==
  /\ at[p] # "out" /\ mishaps < MaxMishaps
  /\ mishaps' = mishaps + 1
  /\ interrupted' = (interrupted \/ at[p] \in {"dropped", "failing", "restoring"})
  /\ Leaves(p, "out")
  /\ UNCHANGED <<file, copies, written, raced, condemnedYet, discarded, builds>>

\* The disk damages a file that nobody is working on.
Corrupts ==
  /\ file.shape # "none" /\ mishaps < MaxMishaps
  /\ \A p \in Processes : at[p] \in {"out", "ready"}
  /\ mishaps' = mishaps + 1
  /\ file' = [file EXCEPT !.sound = FALSE]
  /\ condemnedYet' = TRUE
  /\ UNCHANGED <<copies, at, jobs, written, raced, interrupted, discarded, builds>>

Next ==
  \/ \E p \in Processes :
       \/ Checks(p) \/ MovesAside(p) \/ Lists(p) \/ BacksUp(p)
       \/ Skips(p) \/ Reads(p) \/ Drops(p) \/ Refills(p) \/ Refuses(p)
       \/ StepFails(p) \/ CheckFails(p) \/ RestoreBegins(p) \/ RestoreEnds(p) \/ GivesUp(p)
       \/ Crashes(p)
       \/ \E v \in Versions : Creates(p, v)
       \/ \E r \in Rows : Writes(p, r)
  \/ Corrupts

Spec == Init /\ [][Next]_vars

-----------------------------------------------------------------------------
\* Somewhere on the disk.
Somewhere(r) == r \in file.rows \cup copies

\* A crash, a failed step or a corrupt file never destroys the last copy of a
\* row: only a file that another process has in use meanwhile, or a corrupt one
\* that had to be removed, can lose it.
NeverTheLast == raced \/ discarded \/ \A r \in written : Somewhere(r)

\* A migration that fails leaves the self as it was: once nobody is between a
\* drop and its refill or restore, every row is in the live file.
Whole ==
  \/ raced \/ interrupted \/ condemnedYet
  \/ \E p \in Processes : at[p] \in {"dropped", "failing", "restoring"}
  \/ written \subseteq file.rows

Preserved == NeverTheLast /\ Whole
=============================================================================
