---------------------------- MODULE HostingProofs ----------------------------
(***************************************************************************)
(* What the host does to the being, proved for any number of processes,    *)
(* loops, rows, starts and mishaps: the migrations of its one file         *)
(* (Migration), the supervision of its brain (Supervision, as V) and the   *)
(* voice its sessions are served in (Waking, as K).  The three share no    *)
(* variable.                                                               *)
(***************************************************************************)
EXTENDS Migration, FiniteSetTheorems, TLAPS

CONSTANTS Gateway, MaxLoops, MaxStarts,  \* of Supervision
          LastStamp                      \* of Waking

VARIABLES
  stage, health, blamed, record, running, started, current, shuttingDown, fatal, attached,
  hosted, starts,
  stamp, soulAt, session, agent, turn, impulse, born, promised, alien

V == INSTANCE Supervision
K == INSTANCE Waking

-----------------------------------------------------------------------------
(* Migrations.                                                             *)

\* The bounds are numbers.
MigrationSane == MaxMishaps \in Nat /\ MaxBuilds \in Nat

\* What the steps need of the types.
Typed ==
  /\ file \in Files
  /\ at \in [Processes -> Places]
  /\ pending \in [Processes -> SUBSET Versions]
  /\ kept \in [Processes -> SUBSET Files]
  /\ held \in [Processes -> SUBSET Rows]
  /\ written \subseteq Rows
  /\ {raced, interrupted, condemnedYet, discarded} \subseteq BOOLEAN

\* Only a construction that made its backup keeps one.
Unkept == \A p \in Processes : at[p] \notin Working \ {"listed"} => kept[p] = {}

\* Who migrates has the file alone.
Alone ==
  \A p, q \in Processes :
    p # q /\ at[p] \in Working => at[q] \notin Working \cup {"ready"}

\* Who migrates has something left to apply, and knows exactly what.
Marked ==
  \A p \in Processes : at[p] \in Working =>
    /\ at[p] # "displaced"
    /\ pending[p] = Versions \ file.applied /\ pending[p] # {}
    /\ at[p] \in {"read", "dropped"} => Rebuild \in pending[p]

\* The shape that is rebuilt is that of a file that gets a backup.
OldMarked ==
  /\ file.shape = "old" => 2 \in file.applied
  /\ \A p \in Processes : \A k \in kept[p] : k.shape = "old" => 2 \in k.applied

\* Who may drop the rows keeps a backup of them, and so does the disk.
Saved ==
  \A p \in Processes : at[p] \in Working \ {"listed"} =>
    /\ kept[p] = {} =>
         file.shape # "old" /\ at[p] \notin {"read", "dropped", "restoring"}
    /\ at[p] = "read" => file.shape = "old"
    /\ \A k \in kept[p] :
         /\ k.rows \subseteq copies
         /\ file.rows \subseteq k.rows
         /\ at[p] \in {"migrating", "read"} => file.rows = k.rows
         /\ at[p] \in {"read", "dropped"} => held[p] = k.rows

\* The rows are in the live file, or in the backup of who will bring them back.
Returning ==
  interrupted \/ condemnedYet
  \/ written \subseteq file.rows
  \/ \E p \in Processes :
       /\ at[p] \in {"dropped", "failing", "restoring"} /\ kept[p] # {}
       /\ \A k \in kept[p] : written \subseteq k.rows

Last == discarded \/ written \subseteq file.rows \cup copies

Orderly == Alone /\ Marked /\ OldMarked /\ Saved /\ Returning /\ Last
MigrationInv == Typed /\ Unkept /\ (~raced => Orderly)

\* The rest of the types: one backup is kept, and the bounds hold.
Bounded ==
  /\ copies \subseteq Rows
  /\ \A p \in Processes : kept[p] = {} \/ \E f \in Files : kept[p] = {f}
  /\ mishaps \in 0 .. MaxMishaps /\ builds \in 0 .. MaxBuilds

LEMMA MigrationInitInv == Init => MigrationInv
<1> SUFFICES ASSUME Init PROVE MigrationInv
  OBVIOUS
<1>1. file \in Files /\ (file.shape = "old" => 2 \in file.applied)
  <2>1. CASE file = NoFile
    BY <2>1 DEF Files, NoFile, Shapes, Versions
  <2>2. CASE file \in [shape : {"old"}, rows : SUBSET Rows, applied : {{2}}, sound : {TRUE}]
    <3>1. file.applied = {2} /\ {2} \subseteq Versions
      BY <2>2 DEF Versions
    <3>2. file \in Files
      <4>1. [shape : {"old"}, rows : SUBSET Rows, applied : {{2}}, sound : {TRUE}]
              \subseteq [shape : {"old"}, rows : SUBSET Rows, applied : SUBSET Versions,
                         sound : {TRUE}]
        BY <3>1
      <4> QED BY <2>2, <4>1 DEF Files, Shapes
    <3> QED BY <3>1, <3>2
  <2> QED BY <2>1, <2>2 DEF Init
<1>2. Typed
  BY <1>1 DEF Init, Typed, Places, Files
<1>3. Unkept /\ Alone /\ Marked /\ OldMarked /\ Saved
  BY <1>1 DEF Init, Unkept, Alone, Marked, OldMarked, Saved, Working
<1>4. Returning /\ Last
  BY DEF Init, Returning, Last
<1> QED BY <1>2, <1>3, <1>4 DEF MigrationInv, Orderly

-----------------------------------------------------------------------------
(* Types, and who keeps a backup. *)

LEMMA FileTypes ==
  ASSUME NEW f \in Files
  PROVE  /\ f.rows \subseteq Rows /\ f.applied \subseteq Versions /\ f.shape \in Shapes
         /\ \A r \in SUBSET Rows : \A s \in Shapes : \A b \in SUBSET Versions :
              [f EXCEPT !.rows = r, !.shape = s, !.applied = b] \in Files
         /\ \A r \in SUBSET Rows :
              /\ [f EXCEPT !.rows = r, !.shape = "new"] \in Files
              /\ [f EXCEPT !.rows = r] \in Files
              /\ [f EXCEPT !.rows = r, !.sound = FALSE] \in Files
         /\ [f EXCEPT !.sound = FALSE] \in Files
BY DEF Files, Shapes

LEMMA LeaveTypes ==
  ASSUME Typed, NEW p \in Processes, NEW place \in Places, Leaves(p, place)
  PROVE  /\ at' \in [Processes -> Places] /\ pending' \in [Processes -> SUBSET Versions]
         /\ kept' \in [Processes -> SUBSET Files] /\ held' \in [Processes -> SUBSET Rows]
BY DEF Typed, Leaves, Goes

LEMMA MarkTypes ==
  ASSUME Typed, NEW p \in Processes, NEW v \in Versions, NEW rows \in SUBSET Rows,
         NEW shape \in Shapes, Marks(p, v, rows, shape), UNCHANGED <<copies, others>>
  PROVE  Typed'
<1> USE DEF others, histories
<1>1. CASE v \in file.applied
  BY <1>1 DEF Marks, Typed, Goes, jobs, Places
<1>2. CASE v \notin file.applied
  <2>1. file' \in Files
    <3>1. file.applied \cup {v} \in SUBSET Versions
      BY FileTypes DEF Typed
    <3>2. file' = [file EXCEPT !.rows = rows, !.shape = shape,
                               !.applied = file.applied \cup {v}]
      BY <1>2 DEF Marks
    <3> QED BY <3>1, <3>2, FileTypes DEF Typed
  <2>2. CASE pending[p] = {v}
    BY <1>2, <2>1, <2>2, LeaveTypes DEF Marks, Typed, Places
  <2>3. CASE pending[p] # {v}
    BY <1>2, <2>1, <2>3 DEF Marks, Typed, Goes, Places
  <2> QED BY <2>2, <2>3
<1> QED BY <1>1, <1>2

LEMMA StepTyped == Typed /\ [Next]_vars => Typed'
<1> SUFFICES ASSUME Typed, [Next]_vars PROVE Typed'
  OBVIOUS
<1> USE DEF others, histories, jobs
<1>1. CASE UNCHANGED vars
  BY <1>1 DEF vars, Typed
<1>2. CASE Corrupts
  BY <1>2, FileTypes DEF Corrupts, Typed
<1>3. ASSUME NEW p \in Processes PROVE
        (Checks(p) \/ MovesAside(p) \/ Lists(p) \/ BacksUp(p)) => Typed'
  <2>1. ASSUME Checks(p) PROVE Typed'
    BY <2>1 DEF Checks, Goes, Typed, Places
  <2>2. ASSUME MovesAside(p) PROVE Typed'
    <3>1. NoFile \in Files
      BY DEF NoFile, Files, Shapes, Versions
    <3>2. at' \in [Processes -> Places]
      BY <2>2 DEF MovesAside, Typed, Places
    <3> QED BY <2>2, <3>1, <3>2 DEF MovesAside, Typed
  <2>3. ASSUME Lists(p) PROVE Typed'
    BY <2>3 DEF Lists, Goes, Typed, Places
  <2>4. ASSUME BacksUp(p) PROVE Typed'
    BY <2>4 DEF BacksUp, Goes, Typed, Places
  <2> QED BY <2>1, <2>2, <2>3, <2>4
<1>4. ASSUME NEW p \in Processes, NEW v \in Versions, Creates(p, v) PROVE Typed'
  <2>1. file.rows \in SUBSET Rows
        /\ (IF v = 2 /\ file.shape = "none" THEN "new" ELSE file.shape) \in Shapes
    BY FileTypes DEF Typed, Shapes
  <2> QED BY <1>4, <2>1, MarkTypes DEF Creates
<1>5. ASSUME NEW p \in Processes PROVE
        (Skips(p) \/ Reads(p) \/ Drops(p) \/ Refills(p) \/ Refuses(p)) => Typed'
  <2>0. Rebuild \in Versions /\ file.rows \in SUBSET Rows /\ file.shape \in Shapes
    <3>1. Rebuild \in Versions
      BY DEF Rebuild, Versions
    <3> QED BY <3>1, FileTypes DEF Typed
  <2>1. ASSUME Skips(p) PROVE Typed'
    BY <2>0, <2>1, MarkTypes DEF Skips
  <2>2. ASSUME Reads(p) PROVE Typed'
    BY <2>0, <2>2 DEF Reads, Goes, Typed, Places
  <2>3. ASSUME Drops(p) PROVE Typed'
    BY <2>3, FileTypes DEF Drops, Goes, Typed, Places
  <2>4. ASSUME Refills(p) PROVE Typed'
    <3>1. file.rows \cup held[p] \in SUBSET Rows /\ "new" \in Shapes
      BY <2>0 DEF Typed, Shapes
    <3> QED BY <2>0, <2>4, <3>1, MarkTypes DEF Refills
  <2>5. ASSUME Refuses(p) PROVE Typed'
    BY <2>5 DEF Refuses, Goes, Typed, Places
  <2> QED BY <2>1, <2>2, <2>3, <2>4, <2>5
<1>6. ASSUME NEW p \in Processes PROVE
        (StepFails(p) \/ CheckFails(p) \/ RestoreBegins(p) \/ RestoreEnds(p)
         \/ GivesUp(p) \/ Crashes(p)) => Typed'
  <2>0. "out" \in Places
    BY DEF Places
  <2>1. ASSUME StepFails(p) PROVE Typed'
    BY <2>1 DEF StepFails, Goes, Typed, Places
  <2>2. ASSUME CheckFails(p) PROVE Typed'
    BY <2>2 DEF CheckFails, Goes, Typed, Places
  <2>3. ASSUME RestoreBegins(p) PROVE Typed'
    BY <2>3, FileTypes DEF RestoreBegins, Goes, Typed, Places
  <2>4. ASSUME RestoreEnds(p) PROVE Typed'
    <3>1. file' \in Files
      BY <2>4 DEF RestoreEnds, Typed
    <3> QED BY <2>0, <2>4, <3>1, LeaveTypes DEF RestoreEnds, Typed
  <2>5. ASSUME GivesUp(p) PROVE Typed'
    BY <2>0, <2>5, LeaveTypes DEF GivesUp, Typed
  <2>6. ASSUME Crashes(p) PROVE Typed'
    BY <2>0, <2>6, LeaveTypes DEF Crashes, Typed
  <2> QED BY <2>1, <2>2, <2>3, <2>4, <2>5, <2>6
<1>7. ASSUME NEW p \in Processes, NEW r \in Rows, Writes(p, r) PROVE Typed'
  <2>1. file.rows \cup {r} \in SUBSET Rows
    BY FileTypes DEF Typed
  <2> QED BY <1>7, <2>1, FileTypes DEF Writes, Typed
<1> QED BY <1>1, <1>2, <1>3, <1>4, <1>5, <1>6, <1>7 DEF Next

LEMMA StepUnkept == Typed /\ Unkept /\ [Next]_vars => Unkept'
<1> SUFFICES ASSUME Typed, Unkept, [Next]_vars PROVE Unkept'
  OBVIOUS
<1> USE DEF others, histories, jobs, Unkept, Typed, Working
<1>1. CASE UNCHANGED vars
  BY <1>1 DEF vars
<1>2. CASE Corrupts
  BY <1>2 DEF Corrupts
<1>3. ASSUME NEW p \in Processes,
             Checks(p) \/ MovesAside(p) \/ Lists(p) \/ BacksUp(p)
      PROVE  Unkept'
  <2>1. CASE Checks(p)
    BY <2>1 DEF Checks, Goes
  <2>2. CASE MovesAside(p)
    BY <2>2 DEF MovesAside
  <2>3. CASE Lists(p)
    BY <2>3 DEF Lists, Goes
  <2>4. CASE BacksUp(p)
    BY <2>4 DEF BacksUp, Goes
  <2> QED BY <1>3, <2>1, <2>2, <2>3, <2>4
<1>4. ASSUME NEW p \in Processes, NEW v \in Versions, Creates(p, v) PROVE Unkept'
  BY <1>4 DEF Creates, Marks, Goes, Leaves
<1>5. ASSUME NEW p \in Processes,
             Skips(p) \/ Reads(p) \/ Drops(p) \/ Refills(p) \/ Refuses(p)
      PROVE  Unkept'
  <2>1. CASE Skips(p)
    BY <2>1 DEF Skips, Marks, Goes, Leaves
  <2>2. CASE Reads(p)
    BY <2>2 DEF Reads, Goes
  <2>3. CASE Drops(p)
    BY <2>3 DEF Drops, Goes
  <2>4. CASE Refills(p)
    BY <2>4 DEF Refills, Marks, Goes, Leaves
  <2>5. CASE Refuses(p)
    BY <2>5 DEF Refuses, Goes
  <2> QED BY <1>5, <2>1, <2>2, <2>3, <2>4, <2>5
<1>6. ASSUME NEW p \in Processes,
             StepFails(p) \/ CheckFails(p) \/ RestoreBegins(p) \/ RestoreEnds(p)
               \/ GivesUp(p) \/ Crashes(p)
      PROVE  Unkept'
  <2>1. CASE StepFails(p)
    BY <2>1 DEF StepFails, Goes
  <2>2. CASE CheckFails(p)
    BY <2>2 DEF CheckFails, Goes
  <2>3. CASE RestoreBegins(p)
    BY <2>3 DEF RestoreBegins, Goes
  <2>4. CASE RestoreEnds(p)
    BY <2>4 DEF RestoreEnds, Leaves, Goes
  <2>5. CASE GivesUp(p)
    BY <2>5 DEF GivesUp, Leaves, Goes
  <2>6. CASE Crashes(p)
    BY <2>6 DEF Crashes, Leaves, Goes
  <2> QED BY <1>6, <2>1, <2>2, <2>3, <2>4, <2>5, <2>6
<1>7. ASSUME NEW p \in Processes, NEW r \in Rows, Writes(p, r) PROVE Unkept'
  BY <1>7 DEF Writes
<1> QED BY <1>1, <1>2, <1>3, <1>4, <1>5, <1>6, <1>7 DEF Next

-----------------------------------------------------------------------------
(* While nobody raced. *)

\* A race is never forgotten.
LEMMA RaceStays == ASSUME Typed, [Next]_vars, ~raced' PROVE ~raced
BY DEF Typed, Next, vars, others, histories, jobs, Corrupts, Checks, MovesAside, Lists,
       BacksUp, Creates, Skips, Reads, Drops, Refills, Refuses, StepFails, CheckFails,
       RestoreBegins, RestoreEnds, GivesUp, Crashes, Writes

\* Then the version that is applied was not, and its mark is new.
LEMMA MarkIsNew ==
  ASSUME Typed, Orderly, NEW p \in Processes, NEW v \in pending[p], at[p] \in Working,
         NEW rows \in SUBSET Rows, NEW shape \in Shapes, Marks(p, v, rows, shape)
  PROVE  /\ file' = [file EXCEPT !.rows = rows, !.shape = shape,
                                 !.applied = file.applied \cup {v}]
         /\ file'.rows = rows /\ file'.shape = shape /\ file'.applied = file.applied \cup {v}
         /\ \/ pending[p] = {v} /\ Leaves(p, "ready")
            \/ /\ pending[p] # {v} /\ Goes(p, "migrating")
               /\ pending' = [pending EXCEPT ![p] = pending[p] \ {v}]
               /\ UNCHANGED <<kept, held>>
<1>1. v \notin file.applied
  BY DEF Orderly, Marked
<1>2. file' = [file EXCEPT !.rows = rows, !.shape = shape,
                           !.applied = file.applied \cup {v}]
  BY <1>1 DEF Marks
<1>3. file'.rows = rows /\ file'.shape = shape /\ file'.applied = file.applied \cup {v}
  BY <1>2 DEF Typed, Files
<1>4. CASE pending[p] = {v}
  BY <1>1, <1>2, <1>3, <1>4 DEF Marks
<1>5. CASE pending[p] # {v}
  BY <1>1, <1>2, <1>3, <1>5 DEF Marks
<1> QED BY <1>4, <1>5

LEMMA MarkAlone ==
  ASSUME Typed, Orderly, NEW p \in Processes, NEW v \in pending[p], at[p] \in Working,
         NEW rows \in SUBSET Rows, NEW shape \in Shapes, Marks(p, v, rows, shape)
  PROVE  Alone' /\ Marked'
<1>1. file'.applied = file.applied \cup {v} /\ pending[p] = Versions \ file.applied
  BY MarkIsNew DEF Orderly, Marked
<1>2. \A q \in Processes \ {p} : at[q] \notin Working
  BY DEF Orderly, Alone
<1>3. CASE pending[p] = {v} /\ Leaves(p, "ready")
  BY <1>2, <1>3 DEF Typed, Orderly, Alone, Marked, Leaves, Goes, Working
<1>4. CASE pending[p] # {v} /\ Goes(p, "migrating")
           /\ pending' = [pending EXCEPT ![p] = pending[p] \ {v}]
  BY <1>1, <1>2, <1>4 DEF Typed, Orderly, Alone, Marked, Goes, Working
<1> QED BY <1>3, <1>4, MarkIsNew

\* The rows and shapes that are marked with.
LEMMA NextVersion ==
  ASSUME Typed
  PROVE  /\ Rebuild \in Versions /\ file.rows \in SUBSET Rows /\ file.shape \in Shapes
         /\ "new" \in Shapes
         /\ \A p \in Processes, v \in Versions : IsNext(p, v) => v \in pending[p]
         /\ \A p \in Processes : file.rows \cup held[p] \in SUBSET Rows
<1>1. Rebuild \in Versions /\ "new" \in Shapes
  BY DEF Rebuild, Versions, Shapes
<1>2. file.rows \in SUBSET Rows /\ file.shape \in Shapes
  BY FileTypes DEF Typed
<1> QED BY <1>1, <1>2 DEF Typed, IsNext

LEMMA StepAlone ==
  ASSUME Typed, Unkept, Orderly, [Next]_vars, ~raced'
  PROVE  Alone' /\ Marked'
<1> USE DEF others, histories, jobs, Typed, Orderly, Alone, Marked, Working
<1>1. CASE UNCHANGED vars
  BY <1>1 DEF vars
<1>2. CASE Corrupts
  <2>1. file'.applied = file.applied
    BY <1>2 DEF Corrupts, Files
  <2> QED BY <1>2, <2>1 DEF Corrupts
<1>3. ASSUME NEW p \in Processes,
             Checks(p) \/ MovesAside(p) \/ Lists(p) \/ BacksUp(p)
      PROVE  Alone' /\ Marked'
  <2>1. CASE Checks(p)
    BY <2>1 DEF Checks, Goes
  <2>2. CASE MovesAside(p)
    <3>1. ~Shared(p)
      BY <2>2 DEF MovesAside
    <3> QED BY <2>2, <3>1 DEF MovesAside, Shared
  <2>3. CASE Lists(p)
    <3>1. CASE Versions \ file.applied = {}
      BY <2>3, <3>1 DEF Lists, Goes
    <3>2. CASE Versions \ file.applied # {} /\ ~Shared(p)
      BY <2>3, <3>2 DEF Lists, Goes, Shared
    <3> QED BY <2>3, <3>1, <3>2 DEF Lists
  <2>4. CASE BacksUp(p)
    BY <2>4 DEF BacksUp, Goes
  <2> QED BY <1>3, <2>1, <2>2, <2>3, <2>4
<1>4. ASSUME NEW p \in Processes, NEW v \in Versions, Creates(p, v)
      PROVE  Alone' /\ Marked'
  <2>1. v \in pending[p] /\ (IF v = 2 /\ file.shape = "none" THEN "new" ELSE file.shape) \in Shapes
    BY <1>4, NextVersion DEF Creates
  <2> QED BY <1>4, <2>1, MarkAlone, NextVersion DEF Creates
<1>5. ASSUME NEW p \in Processes,
             Skips(p) \/ Reads(p) \/ Drops(p) \/ Refills(p) \/ Refuses(p)
      PROVE  Alone' /\ Marked'
  <2>1. CASE Skips(p)
    <3>1. Rebuild \in pending[p]
      BY <2>1, NextVersion DEF Skips
    <3> QED BY <2>1, <3>1, MarkAlone, NextVersion DEF Skips
  <2>2. CASE Reads(p)
    BY <2>2, NextVersion DEF Reads, Goes
  <2>3. CASE Drops(p)
    <3>1. file'.applied = file.applied
      BY <2>3 DEF Drops, Files
    <3> QED BY <2>3, <3>1 DEF Drops, Goes
  <2>4. CASE Refills(p)
    <3>1. Rebuild \in pending[p]
      BY <2>4 DEF Refills
    <3> QED BY <2>4, <3>1, MarkAlone, NextVersion DEF Refills
  <2>5. CASE Refuses(p)
    BY <2>5 DEF Refuses, Goes
  <2> QED BY <1>5, <2>1, <2>2, <2>3, <2>4, <2>5
<1>6. ASSUME NEW p \in Processes,
             StepFails(p) \/ CheckFails(p) \/ RestoreBegins(p) \/ RestoreEnds(p)
               \/ GivesUp(p) \/ Crashes(p)
      PROVE  Alone' /\ Marked'
  <2>1. CASE StepFails(p)
    BY <2>1 DEF StepFails, Goes
  <2>2. CASE CheckFails(p)
    BY <2>2 DEF CheckFails, Goes
  <2>3. CASE RestoreBegins(p)
    <3>1. file'.applied = file.applied
      BY <2>3 DEF RestoreBegins, Files
    <3> QED BY <2>3, <3>1 DEF RestoreBegins, Goes
  <2>4. CASE RestoreEnds(p)
    BY <2>4 DEF RestoreEnds, Leaves, Goes
  <2>5. CASE GivesUp(p)
    BY <2>5 DEF GivesUp, Leaves, Goes
  <2>6. CASE Crashes(p)
    BY <2>6 DEF Crashes, Leaves, Goes
  <2> QED BY <1>6, <2>1, <2>2, <2>3, <2>4, <2>5, <2>6
<1>7. ASSUME NEW p \in Processes, NEW r \in Rows, Writes(p, r)
      PROVE  Alone' /\ Marked'
  <2>1. file'.applied = file.applied
    BY <1>7 DEF Writes, Files
  <2> QED BY <1>7, <2>1 DEF Writes
<1> QED BY <1>1, <1>2, <1>3, <1>4, <1>5, <1>6, <1>7 DEF Next

-----------------------------------------------------------------------------
(* The backups. *)

LEMMA MarkSaved ==
  ASSUME Typed, Unkept, Orderly, NEW p \in Processes, NEW v \in pending[p],
         at[p] \in {"migrating", "dropped"},
         NEW rows \in SUBSET Rows, NEW shape \in Shapes, Marks(p, v, rows, shape),
         UNCHANGED <<copies, others>>,
         file.rows \subseteq rows, \A k \in kept[p] : rows = k.rows,
         shape = "old" => file.shape = "old"
  PROVE  OldMarked' /\ Saved'
<1> USE DEF others, histories
<1>1. /\ file'.rows = rows /\ file'.shape = shape
      /\ file'.applied = file.applied \cup {v}
  BY MarkIsNew DEF Working
<1>2. \A q \in Processes \ {p} : at[q] \notin Working
  BY DEF Orderly, Alone, Working
<1>3. CASE Leaves(p, "ready")
  BY <1>1, <1>2, <1>3 DEF Typed, Orderly, OldMarked, Saved, Leaves, Goes, Working
<1>4. CASE Goes(p, "migrating") /\ UNCHANGED <<kept, held>>
  BY <1>1, <1>2, <1>4 DEF Typed, Orderly, OldMarked, Saved, Goes, Working
<1> QED BY <1>3, <1>4, MarkIsNew DEF Working

LEMMA MarkReturns ==
  ASSUME Typed, Unkept, Orderly, NEW p \in Processes, NEW v \in pending[p],
         at[p] \in {"migrating", "dropped"},
         NEW rows \in SUBSET Rows, NEW shape \in Shapes, Marks(p, v, rows, shape),
         UNCHANGED <<copies, others>>,
         file.rows \subseteq rows, \A k \in kept[p] : rows = k.rows,
         shape = "old" => file.shape = "old"
  PROVE  Returning' /\ Last'
<1> USE DEF others, histories
<1>1. file'.rows = rows
  BY MarkIsNew DEF Working
<1>2. \A q \in Processes \ {p} : at[q] \notin Working
  BY DEF Orderly, Alone, Working
<1>3. interrupted \/ condemnedYet \/ written \subseteq rows
  BY <1>2 DEF Orderly, Returning, Working
<1> QED BY <1>1, <1>3 DEF Orderly, Returning, Last

LEMMA MarkingSteps ==
  ASSUME Typed, Unkept, Orderly, NEW p \in Processes,
         (\E v \in Versions : Creates(p, v)) \/ Skips(p) \/ Refills(p)
  PROVE  OldMarked' /\ Saved' /\ Returning' /\ Last'
<1>1. ASSUME NEW v \in Versions, Creates(p, v)
      PROVE  OldMarked' /\ Saved' /\ Returning' /\ Last'
  <2> DEFINE shape == IF v = 2 /\ file.shape = "none" THEN "new" ELSE file.shape
  <2>1. v \in pending[p] /\ shape \in Shapes /\ file.rows \in SUBSET Rows
    BY <1>1, NextVersion DEF Creates
  <2>2. at[p] = "migrating" /\ \A k \in kept[p] : file.rows = k.rows
    BY <1>1 DEF Creates, Orderly, Saved, Working
  <2>3. Marks(p, v, file.rows, shape) /\ UNCHANGED <<copies, others>>
    BY <1>1 DEF Creates
  <2>4. shape = "old" => file.shape = "old"
    OBVIOUS
  <2> HIDE DEF shape
  <2> QED BY <2>1, <2>2, <2>3, <2>4, MarkSaved, MarkReturns
<1>2. CASE Skips(p)
  <2>1. /\ Rebuild \in pending[p]
        /\ file.rows \in SUBSET Rows /\ file.shape \in Shapes
    BY <1>2, NextVersion DEF Skips
  <2>2. at[p] = "migrating" /\ \A k \in kept[p] : file.rows = k.rows
    BY <1>2 DEF Skips, Orderly, Saved, Working
  <2>3. Marks(p, Rebuild, file.rows, file.shape) /\ UNCHANGED <<copies, others>>
    BY <1>2 DEF Skips
  <2> QED BY <2>1, <2>2, <2>3, MarkSaved, MarkReturns
<1>3. CASE Refills(p)
  <2> DEFINE rows == file.rows \cup held[p]
  <2>1. Rebuild \in pending[p] /\ rows \in SUBSET Rows /\ "new" \in Shapes
    BY <1>3, NextVersion DEF Refills, Orderly, Marked, Working
  <2>2. at[p] = "dropped" /\ \A k \in kept[p] : rows = k.rows
    BY <1>3 DEF Refills, Orderly, Saved, Working
  <2>3. Marks(p, Rebuild, rows, "new") /\ UNCHANGED <<copies, others>>
    BY <1>3 DEF Refills
  <2>4. file.rows \subseteq rows /\ "new" # "old"
    OBVIOUS
  <2> HIDE DEF rows
  <2> QED BY <2>1, <2>2, <2>3, <2>4, MarkSaved, MarkReturns
<1> QED BY <1>1, <1>2, <1>3

LEMMA StepSaved ==
  ASSUME Typed, Unkept, Orderly, [Next]_vars, ~raced'
  PROVE  OldMarked' /\ Saved'
<1> USE DEF others, histories, jobs, Typed, Orderly, Alone, OldMarked, Saved, Working
<1>1. CASE UNCHANGED vars
  BY <1>1 DEF vars
<1>2. CASE Corrupts
  <2>1. file'.rows = file.rows /\ file'.applied = file.applied /\ file'.shape = file.shape
    BY <1>2 DEF Corrupts, Files
  <2> QED BY <1>2, <2>1 DEF Corrupts
<1>3. ASSUME NEW p \in Processes,
             Checks(p) \/ MovesAside(p) \/ Lists(p) \/ BacksUp(p)
      PROVE  OldMarked' /\ Saved'
  <2>1. CASE Checks(p)
    BY <2>1 DEF Checks, Goes
  <2>2. CASE MovesAside(p)
    <3>1. ~Shared(p) /\ file'.shape = "none"
      BY <2>2 DEF MovesAside, NoFile
    <3> QED BY <2>2, <3>1 DEF MovesAside, Shared
  <2>3. CASE Lists(p)
    BY <2>3 DEF Lists, Goes
  <2>4. CASE BacksUp(p)
    <3>1. Backed(Versions \ pending[p]) => kept' = [kept EXCEPT ![p] = {file}]
      BY <2>4 DEF BacksUp
    <3>2. ~Backed(Versions \ pending[p]) => kept' = kept /\ file.shape # "old"
      BY <2>4, FileTypes DEF BacksUp, Backed, Marked
    <3>3. kept[p] = {} /\ at' = [at EXCEPT ![p] = "migrating"] /\ file' = file /\ held' = held
      BY <2>4 DEF BacksUp, Goes, Unkept
    <3>4. Backed(Versions \ pending[p]) => file.rows \subseteq copies'
      BY <2>4 DEF BacksUp
    <3>5. copies \subseteq copies'
      BY <2>4 DEF BacksUp
    <3> QED BY <2>4, <3>1, <3>2, <3>3, <3>4, <3>5
  <2> QED BY <1>3, <2>1, <2>2, <2>3, <2>4
<1>4. ASSUME NEW p \in Processes, NEW v \in Versions, Creates(p, v)
      PROVE  OldMarked' /\ Saved'
  BY <1>4, MarkingSteps
<1>5. ASSUME NEW p \in Processes,
             Skips(p) \/ Reads(p) \/ Drops(p) \/ Refills(p) \/ Refuses(p)
      PROVE  OldMarked' /\ Saved'
  <2>1. CASE Skips(p)
    BY <2>1, MarkingSteps
  <2>2. CASE Reads(p)
    BY <2>2 DEF Reads, Goes
  <2>3. CASE Drops(p)
    <3>1. file'.rows = {} /\ file'.applied = file.applied /\ file'.shape = "new"
      BY <2>3 DEF Drops, Files
    <3> QED BY <2>3, <3>1 DEF Drops, Goes
  <2>4. CASE Refills(p)
    BY <2>4, MarkingSteps
  <2>5. CASE Refuses(p)
    BY <2>5 DEF Refuses, Goes
  <2> QED BY <1>5, <2>1, <2>2, <2>3, <2>4, <2>5
<1>6. ASSUME NEW p \in Processes,
             StepFails(p) \/ CheckFails(p) \/ RestoreBegins(p) \/ RestoreEnds(p)
               \/ GivesUp(p) \/ Crashes(p)
      PROVE  OldMarked' /\ Saved'
  <2>1. CASE StepFails(p)
    BY <2>1 DEF StepFails, Goes
  <2>2. CASE CheckFails(p)
    BY <2>2 DEF CheckFails, Goes
  <2>3. CASE RestoreBegins(p)
    <3>1. file'.rows = {} /\ file'.applied = file.applied /\ file'.shape = file.shape
      BY <2>3 DEF RestoreBegins, Files
    <3> QED BY <2>3, <3>1 DEF RestoreBegins, Goes
  <2>4. CASE RestoreEnds(p)
    BY <2>4 DEF RestoreEnds, Leaves, Goes
  <2>5. CASE GivesUp(p)
    BY <2>5 DEF GivesUp, Leaves, Goes
  <2>6. CASE Crashes(p)
    BY <2>6 DEF Crashes, Leaves, Goes
  <2> QED BY <1>6, <2>1, <2>2, <2>3, <2>4, <2>5, <2>6
<1>7. ASSUME NEW p \in Processes, NEW r \in Rows, Writes(p, r)
      PROVE  OldMarked' /\ Saved'
  <2>1. file'.applied = file.applied /\ file'.shape = file.shape
    BY <1>7 DEF Writes, Files
  <2> QED BY <1>7, <2>1 DEF Writes
<1> QED BY <1>1, <1>2, <1>3, <1>4, <1>5, <1>6, <1>7 DEF Next

-----------------------------------------------------------------------------
(* The rows. *)

LEMMA StepReturns ==
  ASSUME Typed, Unkept, Orderly, [Next]_vars, ~raced'
  PROVE  Returning' /\ Last'
<1> USE DEF others, histories, jobs, Typed, Orderly, Alone, Saved, Returning, Last, Working
<1>1. CASE UNCHANGED vars
  BY <1>1 DEF vars
<1>2. CASE Corrupts
  <2>1. file'.rows = file.rows
    BY <1>2 DEF Corrupts, Files
  <2> QED BY <1>2, <2>1 DEF Corrupts
<1>3. ASSUME NEW p \in Processes,
             Checks(p) \/ MovesAside(p) \/ Lists(p) \/ BacksUp(p)
      PROVE  Returning' /\ Last'
  <2>1. CASE Checks(p)
    <3>1. UNCHANGED <<file, copies, kept, written, interrupted, condemnedYet, discarded>>
      BY <2>1 DEF Checks
    <3>2. \A q \in Processes : at[q] \in {"dropped", "failing", "restoring"} =>
            at'[q] \in {"dropped", "failing", "restoring"}
      BY <2>1 DEF Checks, Goes
    <3> QED BY <3>1, <3>2
  <2>2. CASE MovesAside(p)
    <3>1. Last'
      BY <2>2 DEF MovesAside
    <3> QED BY <2>2, <3>1 DEF MovesAside
  <2>3. CASE Lists(p)
    <3>1. UNCHANGED <<file, copies, kept, written, interrupted, condemnedYet, discarded>>
      BY <2>3 DEF Lists
    <3>2. \A q \in Processes : at[q] \in {"dropped", "failing", "restoring"} =>
            at'[q] \in {"dropped", "failing", "restoring"}
      BY <2>3 DEF Lists, Goes
    <3> QED BY <3>1, <3>2
  <2>4. CASE BacksUp(p)
    <3>1. Last'
      BY <2>4 DEF BacksUp
    <3>2. \A q \in Processes : at[q] \in {"dropped", "failing", "restoring"} =>
            at'[q] = at[q] /\ kept'[q] = kept[q]
      BY <2>4 DEF BacksUp, Goes
    <3>3. UNCHANGED <<file, written, interrupted, condemnedYet>>
      BY <2>4 DEF BacksUp
    <3> QED BY <3>1, <3>2, <3>3
  <2> QED BY <1>3, <2>1, <2>2, <2>3, <2>4
<1>4. ASSUME NEW p \in Processes, NEW v \in Versions, Creates(p, v)
      PROVE  Returning' /\ Last'
  BY <1>4, MarkingSteps
<1>5. ASSUME NEW p \in Processes,
             Skips(p) \/ Reads(p) \/ Drops(p) \/ Refills(p) \/ Refuses(p)
      PROVE  Returning' /\ Last'
  <2>1. CASE Skips(p)
    BY <2>1, MarkingSteps
  <2>2. CASE Reads(p)
    <3>1. UNCHANGED <<file, copies, kept, written, interrupted, condemnedYet, discarded>>
      BY <2>2 DEF Reads
    <3>2. \A q \in Processes : at[q] \in {"dropped", "failing", "restoring"} =>
            at'[q] \in {"dropped", "failing", "restoring"}
      BY <2>2 DEF Reads, Goes
    <3> QED BY <3>1, <3>2
  <2>3. CASE Drops(p)
    <3>1. kept[p] # {} /\ \A k \in kept[p] : file.rows = k.rows /\ file.rows \subseteq copies
      BY <2>3 DEF Drops
    <3>2. UNCHANGED <<copies, kept, others>> /\ at' = [at EXCEPT ![p] = "dropped"]
      BY <2>3 DEF Drops, Goes
    <3>3. Last'
      BY <3>1, <3>2
    <3>4. interrupted \/ condemnedYet \/ written \subseteq file.rows
      BY <2>3 DEF Drops
    <3> QED BY <3>1, <3>2, <3>3, <3>4
  <2>4. CASE Refills(p)
    BY <2>4, MarkingSteps
  <2>5. CASE Refuses(p)
    <3>1. UNCHANGED <<file, copies, kept, written, interrupted, condemnedYet, discarded>>
      BY <2>5 DEF Refuses
    <3>2. \A q \in Processes : at[q] \in {"dropped", "failing", "restoring"} =>
            at'[q] \in {"dropped", "failing", "restoring"}
      BY <2>5 DEF Refuses, Goes
    <3> QED BY <3>1, <3>2
  <2> QED BY <1>5, <2>1, <2>2, <2>3, <2>4, <2>5
<1>6. ASSUME NEW p \in Processes,
             StepFails(p) \/ CheckFails(p) \/ RestoreBegins(p) \/ RestoreEnds(p)
               \/ GivesUp(p) \/ Crashes(p)
      PROVE  Returning' /\ Last'
  <2>1. CASE StepFails(p)
    <3>1. UNCHANGED <<file, copies, kept, written, interrupted, condemnedYet, discarded>>
      BY <2>1 DEF StepFails
    <3>2. \A q \in Processes : at[q] \in {"dropped", "failing", "restoring"} =>
            at'[q] \in {"dropped", "failing", "restoring"}
      BY <2>1 DEF StepFails, Goes
    <3> QED BY <3>1, <3>2
  <2>2. CASE CheckFails(p)
    <3>1. UNCHANGED <<file, copies, kept, written, interrupted, condemnedYet, discarded>>
      BY <2>2 DEF CheckFails
    <3>2. \A q \in Processes : at[q] \in {"dropped", "failing", "restoring"} =>
            at'[q] \in {"dropped", "failing", "restoring"}
      BY <2>2 DEF CheckFails, Goes
    <3> QED BY <3>1, <3>2
  <2>3. CASE RestoreBegins(p)
    <3>1. /\ kept[p] # {} /\ at[p] = "failing"
          /\ \A k \in kept[p] : file.rows \subseteq k.rows /\ k.rows \subseteq copies
      BY <2>3 DEF RestoreBegins
    <3>2. UNCHANGED <<copies, kept, others>> /\ at' = [at EXCEPT ![p] = "restoring"]
      BY <2>3 DEF RestoreBegins, Goes
    <3>3. Last'
      BY <3>1, <3>2
    <3>4. \/ interrupted \/ condemnedYet
          \/ \A k \in kept[p] : written \subseteq k.rows
      BY <3>1
    <3> QED BY <3>1, <3>2, <3>3, <3>4
  <2>4. CASE RestoreEnds(p)
    <3>1. at[p] = "restoring" /\ file' \in kept[p] /\ file.rows \subseteq file'.rows
      BY <2>4 DEF RestoreEnds
    <3>2. UNCHANGED <<copies, others>>
      BY <2>4 DEF RestoreEnds
    <3>3. interrupted \/ condemnedYet \/ written \subseteq file'.rows
      BY <3>1
    <3> QED BY <3>1, <3>2, <3>3
  <2>5. CASE GivesUp(p)
    <3>1. at[p] = "failing" /\ kept[p] = {}
      BY <2>5 DEF GivesUp, Marked
    <3>2. UNCHANGED <<file, copies, others>>
      BY <2>5 DEF GivesUp
    <3>3. interrupted \/ condemnedYet \/ written \subseteq file.rows
      BY <3>1
    <3> QED BY <3>2, <3>3
  <2>6. CASE Crashes(p)
    <3>1. UNCHANGED <<file, copies, written, discarded, condemnedYet>>
      BY <2>6 DEF Crashes
    <3>2. CASE at[p] \in {"dropped", "failing", "restoring"}
      <4>1. interrupted'
        BY <2>6, <3>2 DEF Crashes
      <4> QED BY <3>1, <4>1
    <3>3. CASE at[p] \notin {"dropped", "failing", "restoring"}
      BY <2>6, <3>1, <3>3 DEF Crashes, Leaves, Goes
    <3> QED BY <3>2, <3>3
  <2> QED BY <1>6, <2>1, <2>2, <2>3, <2>4, <2>5, <2>6
<1>7. ASSUME NEW p \in Processes, NEW r \in Rows, Writes(p, r)
      PROVE  Returning' /\ Last'
  <2>1. file'.rows = file.rows \cup {r} /\ written' = written \cup {r}
    BY <1>7 DEF Writes, Files
  <2>2. interrupted \/ condemnedYet \/ written \subseteq file.rows
    BY <1>7 DEF Writes
  <2> QED BY <1>7, <2>1, <2>2 DEF Writes
<1> QED BY <1>1, <1>2, <1>3, <1>4, <1>5, <1>6, <1>7 DEF Next

-----------------------------------------------------------------------------
LEMMA MigrationStepInv == MigrationInv /\ [Next]_vars => MigrationInv'
<1> SUFFICES ASSUME MigrationInv, [Next]_vars PROVE MigrationInv'
  OBVIOUS
<1>1. Typed /\ Unkept /\ (~raced => Orderly)
  BY DEF MigrationInv
<1>2. Typed' /\ Unkept'
  BY <1>1, StepTyped, StepUnkept
<1>3. ASSUME ~raced' PROVE Orderly'
  <2>1. Orderly
    BY <1>1, <1>3, RaceStays
  <2> QED BY <1>1, <1>3, <2>1, StepAlone, StepSaved, StepReturns DEF Orderly
<1> QED BY <1>2, <1>3 DEF MigrationInv

\* What a step adds to the copies, to what is kept and to the counters.
LEMMA StepAdds ==
  ASSUME Typed, [Next]_vars
  PROVE  /\ copies' = copies \/ copies' = copies \cup file.rows
         /\ \A p \in Processes : kept'[p] \in {kept[p], {}, {file}}
         /\ mishaps' = mishaps \/ (mishaps < MaxMishaps /\ mishaps' = mishaps + 1)
         /\ builds' = builds \/ (builds < MaxBuilds /\ builds' = builds + 1)
<1> USE DEF others, histories, jobs, Goes, Leaves, Typed
<1>1. CASE UNCHANGED vars
  BY <1>1 DEF vars
<1>2. CASE Corrupts
  BY <1>2 DEF Corrupts
<1>3. ASSUME NEW p \in Processes, Checks(p) \/ MovesAside(p) \/ Lists(p) \/ BacksUp(p)
      PROVE  /\ copies' = copies \/ copies' = copies \cup file.rows
             /\ \A q \in Processes : kept'[q] \in {kept[q], {}, {file}}
             /\ mishaps' = mishaps /\ (builds' = builds \/ (builds < MaxBuilds /\ builds' = builds + 1))
  BY <1>3 DEF Checks, MovesAside, Lists, BacksUp
<1>4. ASSUME NEW p \in Processes,
             \/ \E v \in Versions : Creates(p, v)
             \/ Skips(p) \/ Refills(p)
      PROVE  /\ copies' = copies /\ mishaps' = mishaps /\ builds' = builds
             /\ \A q \in Processes : kept'[q] \in {kept[q], {}}
  BY <1>4 DEF Creates, Skips, Refills, Marks
<1>5. ASSUME NEW p \in Processes,
             Reads(p) \/ Drops(p) \/ Refuses(p) \/ CheckFails(p) \/ RestoreBegins(p)
             \/ RestoreEnds(p) \/ GivesUp(p) \/ \E r \in Rows : Writes(p, r)
      PROVE  /\ copies' = copies /\ mishaps' = mishaps /\ builds' = builds
             /\ \A q \in Processes : kept'[q] \in {kept[q], {}}
  BY <1>5 DEF Reads, Drops, Refuses, CheckFails, RestoreBegins, RestoreEnds, GivesUp, Writes
<1>6. ASSUME NEW p \in Processes, StepFails(p) \/ Crashes(p)
      PROVE  /\ copies' = copies /\ mishaps < MaxMishaps /\ mishaps' = mishaps + 1
             /\ builds' = builds
             /\ \A q \in Processes : kept'[q] \in {kept[q], {}}
  BY <1>6 DEF StepFails, Crashes
<1> QED BY <1>1, <1>2, <1>3, <1>4, <1>5, <1>6 DEF Next

LEMMA StepBounded ==
  ASSUME MigrationSane, Typed, Bounded, [Next]_vars
  PROVE  Bounded'
<1>1. /\ copies' = copies \/ copies' = copies \cup file.rows
      /\ \A p \in Processes : kept'[p] \in {kept[p], {}, {file}}
      /\ mishaps' = mishaps \/ (mishaps < MaxMishaps /\ mishaps' = mishaps + 1)
      /\ builds' = builds \/ (builds < MaxBuilds /\ builds' = builds + 1)
  BY StepAdds
<1>2. file \in Files /\ file.rows \subseteq Rows
  BY FileTypes DEF Typed
<1>3. copies' \subseteq Rows
  BY <1>1, <1>2 DEF Bounded
<1>4. ASSUME NEW p \in Processes PROVE kept'[p] = {} \/ \E f \in Files : kept'[p] = {f}
  BY <1>1, <1>2 DEF Bounded
<1>5. mishaps' \in 0 .. MaxMishaps
  BY <1>1 DEF Bounded, MigrationSane
<1>6. builds' \in 0 .. MaxBuilds
  BY <1>1 DEF Bounded, MigrationSane
<1> QED BY <1>3, <1>4, <1>5, <1>6 DEF Bounded

LEMMA InvPreserved == ASSUME MigrationInv PROVE Preserved
<1>1. NeverTheLast
  BY DEF MigrationInv, Orderly, Last, NeverTheLast, Somewhere
<1>2. Whole
  BY DEF MigrationInv, Orderly, Returning, Whole
<1> QED BY <1>1, <1>2 DEF Preserved

LEMMA InvTypes == ASSUME Typed, Bounded PROVE TypeOK
<1>1. ASSUME NEW p \in Processes PROVE kept[p] \subseteq Files /\ Cardinality(kept[p]) <= 1
  <2>1. kept[p] = {} => Cardinality(kept[p]) = 0
    BY FS_EmptySet
  <2>2. \A f \in Files : kept[p] = {f} => Cardinality(kept[p]) = 1
    BY FS_Singleton
  <2> QED BY <2>1, <2>2 DEF Typed, Bounded
<1>2. /\ raced \in BOOLEAN /\ interrupted \in BOOLEAN /\ condemnedYet \in BOOLEAN
      /\ discarded \in BOOLEAN
  BY DEF Typed
<1> QED BY <1>1, <1>2 DEF Typed, Bounded, TypeOK

\* The types, for any number of processes, rows, constructions and mishaps.
LEMMA TypesInv ==
  /\ MigrationSane /\ Init => Bounded
  /\ MigrationSane /\ MigrationInv /\ Bounded /\ [Next]_vars => Bounded'
  /\ MigrationInv /\ Bounded => TypeOK
<1>1. ASSUME MigrationSane, Init PROVE Bounded
  BY <1>1 DEF MigrationSane, Init, Bounded
<1> QED BY <1>1, StepBounded, InvTypes DEF MigrationInv

\* No crash, failed step or corrupt file destroys the last copy of a row, and a
\* migration that fails leaves the live file as it was, for any number of
\* processes, rows, constructions and mishaps: only a file that another process
\* has in use, or one that is removed because it cannot be renamed, is excepted.
THEOREM NoLastCopyLost == Spec => []Preserved
<1>1. MigrationInv => Preserved
  BY InvPreserved
<1> QED BY MigrationInitInv, MigrationStepInv, <1>1, PTL DEF Spec

-----------------------------------------------------------------------------
(* The brain and its host.                                                 *)

\* The gateway is one of the processes, and the bounds are numbers.
SupervisionSane == Gateway \in Processes /\ MaxLoops \in Nat /\ MaxStarts \in Nat

\* What the host believes to be up is enabled and not shutting down; its health
\* is that of its last report.
HostedInv ==
  hosted => /\ ~shuttingDown /\ attached
            /\ IF fatal THEN health[Gateway] = "loop_dead"
               ELSE health[Gateway] = "connected" /\ running # {}

\* Nothing runs in a gateway that did not come up: no loop can report for it.
QuietInv == stage[Gateway] # "enabled" => running = {} /\ ~hosted

\* A blamed process stays aborted, with its own health saying so.
BlamedInv ==
  \A p \in Processes : blamed[p] => stage[p] = "aborted" /\ health[p] = "boot_failed"

IInv == V!TypeOK /\ HostedInv /\ QuietInv /\ BlamedInv

-----------------------------------------------------------------------------

LEMMA SupervisionInitInv == ASSUME SupervisionSane, V!Init PROVE IInv
<1>1. stage \in [Processes -> V!Stages] /\ health \in [Processes -> V!BrainStates]
      /\ blamed \in [Processes -> BOOLEAN]
  BY DEF V!Init, V!Stages, V!BrainStates
<1>2. started \in 0 .. MaxLoops /\ current \in 0 .. started /\ starts \in 0 .. MaxStarts
  BY DEF SupervisionSane, V!Init
<1>3. running \subseteq 1 .. started /\ {record, shuttingDown, fatal, attached, hosted}
                                          \subseteq BOOLEAN
  BY DEF V!Init
<1> QED BY <1>1, <1>2, <1>3 DEF V!Init, V!TypeOK, IInv, HostedInv, QuietInv, BlamedInv

\* The wiring of register(): the adapter has nothing yet, in the gateway, and
\* is not concerned, in another process.
LEMMA WiringInv ==
  ASSUME SupervisionSane, IInv, NEW p \in Processes,
         \/ V!Starts(p) \/ V!RegistersCommand(p) \/ V!OpensBuffer(p) \/ V!WiresObservers(p)
         \/ V!WiresAmbient(p) \/ V!WiresTools(p) \/ V!WiresPlatform(p)
         \/ V!WireFails(p) \/ V!UnwiredFails(p)
  PROVE  IInv'
<1> USE DEF SupervisionSane, IInv
<1>1. ASSUME V!Starts(p) PROVE IInv'
  BY <1>1 DEF V!Starts, V!TypeOK, V!Stages, V!Steps, V!BrainStates, HostedInv, QuietInv, BlamedInv,
              V!adapterVars
<1>2. ASSUME stage[p] \in V!Steps, V!Advances(p), record' \in BOOLEAN PROVE IInv'
  <2>1. V!After[stage[p]] \in V!Stages
    BY <1>2 DEF V!Steps, V!After, V!Stages
  <2> QED
    BY <1>2, <2>1 DEF V!Advances, V!TypeOK, V!Stages, V!Steps, HostedInv, QuietInv, BlamedInv,
                      V!adapterVars
<1>3. ASSUME V!WireFails(p) PROVE IInv'
  BY <1>3 DEF V!WireFails, V!MarkBootFailed, V!Files, V!TypeOK, V!Stages, V!Steps, V!BrainStates,
     HostedInv,
              QuietInv, BlamedInv, V!adapterVars
<1>4. ASSUME V!UnwiredFails(p) PROVE IInv'
  BY <1>4 DEF V!UnwiredFails, V!TypeOK, V!Stages, V!Steps, HostedInv, QuietInv, BlamedInv,
     V!adapterVars
<1>5. record \in BOOLEAN
  BY DEF V!TypeOK
<1> QED
  BY <1>1, <1>2, <1>3, <1>4, <1>5
  DEF V!RegistersCommand, V!OpensBuffer, V!WiresObservers, V!WiresAmbient, V!WiresTools, V!WiresPlatform,
      V!MarkBootOk, V!Files, V!Steps

\* Connecting, with its failures, and disconnecting.
LEMMA AdapterInv ==
  ASSUME SupervisionSane, IInv, V!Connects \/ V!WriterFails \/ V!LoopFails \/ V!Disconnects
  PROVE  IInv'
<1> USE DEF SupervisionSane, IInv
<1>1. ASSUME V!Connects PROVE IInv'
  <2>1. started' \in 0 .. MaxLoops /\ running' \subseteq 1 .. started'
        /\ current' \in 0 .. started' /\ running' # {}
    BY <1>1 DEF V!Connects, V!LoopStarts, V!TypeOK
  <2>2. health' \in [Processes -> V!BrainStates] /\ record' \in BOOLEAN
        /\ health'[Gateway] = "connected"
        /\ \A q \in Processes \ {Gateway} : health'[q] = health[q]
    BY <1>1 DEF V!Connects, V!MarkConnected, V!Files, V!TypeOK, V!BrainStates
  <2>3. stage' = stage /\ blamed' = blamed /\ starts' = starts /\ stage[Gateway] = "enabled"
        /\ shuttingDown' = FALSE /\ attached' = TRUE /\ fatal' = FALSE /\ hosted' = TRUE
    BY <1>1 DEF V!Connects, V!MayConnect, V!Enters
  <2>4. V!TypeOK'
    BY <2>1, <2>2, <2>3 DEF V!TypeOK
  <2>5. HostedInv' /\ QuietInv' /\ BlamedInv'
    BY <2>1, <2>2, <2>3 DEF HostedInv, QuietInv, BlamedInv
  <2> QED BY <2>4, <2>5
<1>2. ASSUME V!WriterFails PROVE IInv'
  BY <1>2 DEF V!WriterFails, V!MayConnect, V!Enters, V!MarkBootFailed, V!Files, V!TypeOK,
     V!BrainStates,
              HostedInv, QuietInv, BlamedInv
<1>3. ASSUME V!LoopFails PROVE IInv'
  BY <1>3 DEF V!LoopFails, V!MayConnect, V!Enters, V!MarkBootFailed, V!Files, V!TypeOK,
     V!BrainStates,
              HostedInv, QuietInv, BlamedInv
<1>4. ASSUME V!Disconnects PROVE IInv'
  BY <1>4 DEF V!Disconnects, V!MayConnect, V!TypeOK, HostedInv, QuietInv, BlamedInv
<1> QED BY <1>1, <1>2, <1>3, <1>4

\* A tick that raises, of the adapter's loop or of a forgotten one.
LEMMA DeathInv == ASSUME SupervisionSane, IInv, NEW l \in 1 .. MaxLoops, V!Dies(l) PROVE IInv'
<1> USE DEF SupervisionSane, IInv
<1>1. stage[Gateway] = "enabled"
  BY DEF V!Dies, QuietInv
<1>2. CASE shuttingDown
  BY <1>1, <1>2 DEF V!Dies, V!OnDeath, V!Suppressed, V!TypeOK, HostedInv, QuietInv, BlamedInv
<1>3. CASE ~shuttingDown
  BY <1>1, <1>3 DEF V!Dies, V!OnDeath, V!Suppressed, V!RecordLoopDeath, V!TypeOK, V!BrainStates,
     HostedInv,
                    QuietInv, BlamedInv
<1> QED BY <1>2, <1>3

\* A process ends, the gateway or another one.
LEMMA ExitInv == ASSUME SupervisionSane, IInv, NEW p \in Processes, V!Exits(p) PROVE IInv'
<1> USE DEF SupervisionSane, IInv
<1>1. stage' \in [Processes -> V!Stages] /\ health' \in [Processes -> V!BrainStates]
      /\ blamed' \in [Processes -> BOOLEAN] /\ UNCHANGED <<record, starts>>
  BY DEF V!Exits, V!TypeOK, V!Stages, V!BrainStates
<1>2. BlamedInv'
  BY DEF V!Exits, V!TypeOK, BlamedInv
<1>3. CASE p = Gateway
  <2>1. running' = {} /\ started' = 0 /\ current' = 0 /\ shuttingDown' = FALSE
        /\ fatal' = FALSE /\ attached' = FALSE /\ hosted' = FALSE
    BY <1>3 DEF V!Exits
  <2>2. started' \in 0 .. MaxLoops /\ current' \in 0 .. started'
    BY <2>1 DEF SupervisionSane
  <2> QED BY <1>1, <1>2, <2>1, <2>2 DEF V!TypeOK, HostedInv, QuietInv
<1>4. CASE p # Gateway
  BY <1>1, <1>2, <1>4 DEF V!Exits, V!TypeOK, HostedInv, QuietInv, V!adapterVars
<1> QED BY <1>3, <1>4

LEMMA SupervisionStepInv == ASSUME SupervisionSane, IInv, [V!Next]_(V!vars) PROVE IInv'
<1>1. CASE UNCHANGED V!vars
  BY <1>1 DEF V!vars, V!adapterVars, IInv, V!TypeOK, HostedInv, QuietInv, BlamedInv
<1> QED BY <1>1, WiringInv, AdapterInv, DeathInv, ExitInv DEF V!Next

\* What the health of the process says is what is shown: the file only speaks
\* for a process that has not tried to connect.
LEMMA InvHonest == ASSUME SupervisionSane, IInv PROVE V!Honest
<1>1. V!NoSilentDeath
  BY DEF IInv, HostedInv, V!NoSilentDeath, V!Shown
<1>2. V!Explained
  BY DEF IInv, BlamedInv, V!Explained, V!Shown
<1> QED BY <1>1, <1>2 DEF V!Honest

\* The status never hides that the brain is dead or did not come up: whatever
\* reconnects forgot a loop, whenever a loop dies, and however the processes
\* write and remove the file that they share.
THEOREM Honesty == SupervisionSane => (V!Spec => []V!Honest)
<1> SUFFICES ASSUME SupervisionSane PROVE V!Spec => []V!Honest
  OBVIOUS
<1>1. V!Init => IInv
  BY SupervisionInitInv
<1>2. IInv /\ [V!Next]_(V!vars) => IInv'
  BY SupervisionStepInv
<1>3. IInv => V!Honest
  BY InvHonest
<1> QED BY <1>1, <1>2, <1>3, PTL DEF V!Spec

-----------------------------------------------------------------------------
(* Its own voice.                                                          *)

\* The bound is a number.
WakingSane == LastStamp \in Nat \ {0}

\* Before the first session there is no agent and no turn.
FirstInv == session = K!NoSession => agent = K!NoPrompt /\ turn = K!NoTurn

\* A prompt built under a session is the text as it is, or the text was
\* written since the session began.
Fits(prompt) == prompt \in {K!NoPrompt, soulAt} \/ soulAt > session.created

\* It was so for the cached agent, the stored prompt and the running turn,
\* unless the session took over an agent from another one.
FitInv ==
  session # K!NoSession /\ ~session.tainted =>
    /\ Fits(agent) /\ Fits(session.prompt)
    /\ turn # K!NoTurn /\ turn.opened = session.created => Fits(turn.prompt)

\* A birth turn whose pre-flight saw the present text has a lane for it.
AskedInv ==
  /\ impulse.due /\ impulse.soul = soulAt =>
       session = K!NoSession \/ soulAt <= session.created
  /\ turn # K!NoTurn /\ turn.kind = "birth" /\ turn.asked = soulAt =>
       soulAt <= session.created

\* No prompt in use is older than the last promise.
PromiseInv ==
  /\ agent >= promised
  /\ session # K!NoSession => session.prompt >= promised
  /\ turn # K!NoTurn => turn.owed <= promised

\* What a turn or an impulse remembers is of the past.
PastInv ==
  /\ impulse.soul = K!NoPrompt \/ impulse.soul <= soulAt
  /\ turn # K!NoTurn =>
       turn.opened <= stamp /\ (turn.asked = K!NoPrompt \/ turn.asked <= soulAt)

LaneInv == FirstInv /\ FitInv /\ AskedInv /\ PastInv /\ PromiseInv
WakingInv == K!TypeOK /\ LaneInv /\ K!Voiced

\* The sessions known by stamp n, and one that begins.
SessionsUpTo(n) == [created : 1 .. n, quiet : BOOLEAN, prompt : K!Prompts, tainted : BOOLEAN]

LEMMA SessionBegins ==
  ASSUME WakingSane, NEW n \in Nat, NEW instant \in 1 .. n, NEW tainted \in BOOLEAN
  PROVE  /\ K!Session(instant, tainted) \in SessionsUpTo(n)
         /\ K!Session(instant, tainted).created = instant /\ K!Session(instant, tainted).prompt = K!NoPrompt
         /\ K!Session(instant, tainted).tainted = tainted
<1>1. K!NoPrompt \in K!Prompts
  BY DEF WakingSane, K!NoPrompt, K!Prompts
<1> QED BY <1>1 DEF K!Session, SessionsUpTo

\* No session begins at 0, and no turn is at "none".
LEMMA Apart ==
  /\ \A n \in Nat : K!NoSession \notin SessionsUpTo(n)
  /\ \A t : t.at # "none" => t # K!NoTurn
<1>1. K!NoSession.created = 0 /\ K!NoTurn.at = "none"
  BY DEF K!NoSession, K!NoTurn
<1>2. ASSUME NEW n \in Nat, K!NoSession \in SessionsUpTo(n) PROVE FALSE
  <2>1. K!NoSession.created \in 1 .. n
    BY <1>2 DEF SessionsUpTo
  <2> QED BY <1>1, <2>1
<1> QED BY <1>1, <1>2

LEMMA WakingInitInv == WakingSane /\ K!Init => WakingInv
<1> SUFFICES ASSUME WakingSane, K!Init PROVE WakingInv
  OBVIOUS
<1>1. K!NoPrompt \in Nat /\ K!NoPrompt # 0 /\ K!NoPrompt \in K!Prompts
  BY DEF WakingSane, K!NoPrompt, K!Prompts
<1>2. session = K!NoSession \/ session = K!Session(1, FALSE)
  BY DEF K!Init
<1>3. K!TypeOK
  <2>1. K!Session(1, FALSE) \in SessionsUpTo(1)
    <3>1. 1 \in Nat /\ 1 \in 1 .. 1 /\ FALSE \in BOOLEAN
      OBVIOUS
    <3> QED BY <3>1, SessionBegins, Zenon
  <2>2. K!NoImpulse \in [due : BOOLEAN, soul : K!Prompts]
    BY <1>1 DEF K!NoImpulse
  <2>3. stamp \in 1 .. LastStamp /\ soulAt \in 0 .. stamp /\ promised \in 0 .. soulAt
    BY DEF K!Init, WakingSane
  <2>4. stamp = 1 /\ agent = K!NoPrompt /\ turn = K!NoTurn /\ impulse = K!NoImpulse
        /\ born = FALSE /\ alien = FALSE
    BY DEF K!Init
  <2> QED BY <1>1, <1>2, <2>1, <2>2, <2>3, <2>4 DEF K!TypeOK, SessionsUpTo
<1>4. LaneInv
  BY <1>1, <1>2 DEF K!Init, LaneInv, FirstInv, FitInv, Fits, AskedInv, PastInv, PromiseInv,
                    K!Session, K!NoSession, K!NoImpulse
<1>5. K!Voiced
  BY DEF K!Init, K!Voiced, K!OwnRitual, K!Homecoming
<1> QED BY <1>3, <1>4, <1>5 DEF WakingInv

\* What a session, a turn and the bound are, in the prover's terms.
LEMMA LaneTypes ==
  ASSUME WakingSane, K!TypeOK
  PROVE  /\ LastStamp \in Nat /\ K!NoPrompt \in Nat /\ K!NoPrompt > LastStamp
         /\ stamp \in Nat /\ 1 <= stamp /\ stamp <= LastStamp
         /\ soulAt \in Nat /\ soulAt <= stamp /\ promised \in Nat /\ promised <= soulAt
         /\ agent \in Nat /\ agent <= K!NoPrompt
         /\ session # K!NoSession =>
              /\ session.created \in Nat /\ 1 <= session.created /\ session.created <= stamp
              /\ session.prompt \in Nat /\ session.prompt <= K!NoPrompt
              /\ session.quiet \in BOOLEAN /\ session.tainted \in BOOLEAN
         /\ turn # K!NoTurn =>
              /\ turn.at \in {"begun", "heard", "wrote"} /\ turn.kind \in {"human", "birth"}
              /\ turn.prompt \in Nat /\ turn.prompt <= LastStamp
              /\ turn.opened \in Nat /\ turn.owed \in Nat
BY DEF WakingSane, K!TypeOK, K!NoPrompt, K!Prompts, K!Times

-----------------------------------------------------------------------------
(* A turn. *)

\* What the host makes of the lane when it routes a message.
LEMMA Routed ==
  ASSUME WakingSane, WakingInv, NEW begun \in [kind : {"human", "birth"}, asked : K!Prompts],
         K!Starts(begun),
         begun.asked = K!NoPrompt \/ begun.asked <= soulAt,
         begun.kind = "birth" /\ begun.asked = soulAt =>
           session = K!NoSession \/ soulAt <= session.created,
         UNCHANGED impulse \/ impulse' = K!NoImpulse
  PROVE  WakingInv'
<1> DEFINE open == IF session = K!NoSession THEN K!Session(stamp', FALSE) ELSE session
           used == IF agent # K!NoPrompt THEN agent
                   ELSE IF open.prompt # K!NoPrompt THEN open.prompt ELSE soulAt
<1>1. /\ turn = K!NoTurn /\ (session = K!NoSession => stamp < LastStamp)
      /\ stamp' = IF session = K!NoSession THEN stamp + 1 ELSE stamp
      /\ session' = [open EXCEPT !.quiet = FALSE,
                                 !.prompt = IF open.prompt = K!NoPrompt THEN used ELSE open.prompt]
      /\ agent' = used
      /\ turn' = [kind |-> begun.kind, at |-> "begun", prompt |-> used,
                  opened |-> open.created, owed |-> promised, asked |-> begun.asked]
      /\ UNCHANGED <<soulAt, born, promised, alien>>
  BY DEF K!Starts
<1>2. /\ stamp' \in 1 .. LastStamp /\ stamp <= stamp' /\ soulAt \in 0 .. stamp'
      /\ soulAt \in Nat /\ LastStamp \in Nat /\ K!NoPrompt = LastStamp + 1
      /\ promised \in Nat /\ promised <= soulAt
  BY <1>1, LaneTypes DEF WakingInv, K!NoPrompt
<1>3. open \in SessionsUpTo(stamp') /\ open.prompt >= promised
  <2>1. CASE session = K!NoSession
    <3>1. stamp' \in Nat /\ stamp' \in 1 .. stamp' /\ FALSE \in BOOLEAN
      BY <1>2
    <3>2. open = K!Session(stamp', FALSE)
      BY <2>1
    <3>3. /\ K!Session(stamp', FALSE) \in SessionsUpTo(stamp')
          /\ K!Session(stamp', FALSE).prompt = K!NoPrompt
      BY <3>1, SessionBegins
    <3> HIDE DEF open
    <3>4. K!NoPrompt >= promised
      BY <1>2
    <3> QED BY <3>2, <3>3, <3>4
  <2>2. CASE session # K!NoSession
    <3>1. session \in SessionsUpTo(stamp) /\ stamp' = stamp
      BY <1>1, <2>2 DEF WakingInv, K!TypeOK, SessionsUpTo
    <3> QED BY <2>2, <3>1 DEF WakingInv, LaneInv, PromiseInv
  <2> QED BY <2>1, <2>2
<1>4. used \in 0 .. LastStamp /\ used >= promised
  <2>1. open.prompt \in 0 .. K!NoPrompt /\ agent \in 0 .. K!NoPrompt /\ agent >= promised
    BY <1>3 DEF WakingInv, K!TypeOK, K!Prompts, LaneInv, PromiseInv, SessionsUpTo
  <2> HIDE DEF open
  <2>2. CASE agent # K!NoPrompt
    BY <1>2, <2>1, <2>2
  <2>3. CASE agent = K!NoPrompt /\ open.prompt # K!NoPrompt
    BY <1>2, <1>3, <2>1, <2>3
  <2>4. CASE agent = K!NoPrompt /\ open.prompt = K!NoPrompt
    BY <1>2, <2>4, LaneTypes DEF WakingInv
  <2> QED BY <2>2, <2>3, <2>4
<1>5. ~open.tainted => used = soulAt \/ soulAt > open.created
  <2>1. CASE session = K!NoSession
    BY <1>2, <2>1 DEF WakingInv, LaneInv, FirstInv, K!Session
  <2>2. CASE session # K!NoSession
    BY <2>2 DEF WakingInv, LaneInv, FitInv, Fits
  <2> QED BY <2>1, <2>2
<1>6. ~open.tainted => open.prompt \in {K!NoPrompt, soulAt} \/ soulAt > open.created
  <2>1. CASE session = K!NoSession
    BY <1>2, <2>1 DEF K!Session
  <2>2. CASE session # K!NoSession
    BY <2>2 DEF WakingInv, LaneInv, FitInv, Fits
  <2> QED BY <2>1, <2>2
<1>7. begun.kind = "birth" /\ begun.asked = soulAt => soulAt <= open.created
  <2>1. CASE session = K!NoSession
    <3>1. open.created = stamp' /\ soulAt <= stamp'
      BY <1>2, <2>1 DEF K!Session
    <3> QED BY <3>1
  <2>2. CASE session # K!NoSession
    BY <2>2
  <2> QED BY <2>1, <2>2
<1> HIDE DEF open, used
<1>8. /\ session'.created = open.created /\ session'.tainted = open.tainted
      /\ session'.quiet = FALSE
      /\ session'.prompt = IF open.prompt = K!NoPrompt THEN used ELSE open.prompt
      /\ session' \in SessionsUpTo(stamp')
  <2>1. used \in K!Prompts
    BY <1>2, <1>4 DEF K!Prompts
  <2> QED BY <1>1, <1>3, <2>1 DEF SessionsUpTo
<1>9. session' # K!NoSession /\ turn' # K!NoTurn
  <2>1. turn'.at # "none" /\ stamp' \in Nat
    BY <1>1, <1>2
  <2>2. turn' # K!NoTurn
    BY <2>1, Apart, Zenon
  <2>3. session' # K!NoSession
    <3>1. session' \in SessionsUpTo(stamp')
      BY <1>8
    <3>2. K!NoSession \notin SessionsUpTo(stamp')
      BY <2>1, Apart
    <3> QED BY <3>1, <3>2
  <2> QED BY <2>2, <2>3
<1>10. impulse' \in [due : BOOLEAN, soul : K!Prompts]
  <2>1. K!NoPrompt \in K!Prompts
    BY <1>2 DEF K!Prompts
  <2>2. K!NoImpulse \in [due : BOOLEAN, soul : K!Prompts]
    BY <2>1 DEF K!NoImpulse
  <2> QED BY <2>2 DEF WakingInv, K!TypeOK
<1>11. K!TypeOK'
  <2>1. turn' \in [kind : {"human", "birth"}, at : {"begun", "heard", "wrote"},
                   prompt : K!Times, opened : K!Times, owed : K!Times, asked : K!Prompts]
    BY <1>1, <1>2, <1>3, <1>4, LaneTypes DEF K!Times, WakingInv, SessionsUpTo
  <2> QED BY <1>1, <1>2, <1>4, <1>8, <1>10, <2>1 DEF WakingInv, K!TypeOK, K!Prompts, SessionsUpTo
<1>12. FitInv'
  BY <1>1, <1>2, <1>4, <1>5, <1>6, <1>8 DEF FitInv, Fits
<1>13. AskedInv' /\ PastInv'
  <2>1. impulse'.due => impulse' = impulse
    BY DEF K!NoImpulse
  <2>2. soulAt <= stamp /\ open.created <= stamp' /\ stamp <= stamp'
    BY <1>1, <1>2, <1>3, LaneTypes DEF WakingInv, SessionsUpTo
  <2>3. session # K!NoSession => open.created = session.created
    BY DEF open
  <2>4. session = K!NoSession => open.created = stamp' /\ soulAt <= stamp'
    BY <1>2 DEF open, K!Session
  <2>5. AskedInv'
    BY <1>1, <1>7, <1>8, <2>1, <2>3, <2>4 DEF WakingInv, LaneInv, AskedInv
  <2>6. PastInv'
    BY <1>1, <1>2, <2>2 DEF WakingInv, LaneInv, PastInv, K!NoImpulse
  <2> QED BY <2>5, <2>6
<1>14. FirstInv' /\ PromiseInv'
  BY <1>1, <1>2, <1>3, <1>4, <1>8, <1>9 DEF FirstInv, PromiseInv
<1>15. K!Voiced'
  BY <1>1, <1>4 DEF WakingInv, K!Voiced, K!OwnRitual, K!Homecoming
<1> QED BY <1>11, <1>12, <1>13, <1>14, <1>15 DEF WakingInv, LaneInv

LEMMA TurnSteps ==
  ASSUME WakingSane, WakingInv,
         K!HumanSpeaks \/ K!ImpulseRuns \/ K!HearsImpulse \/ K!TurnEnds
           \/ \E due, readable \in BOOLEAN : K!Injects(due, readable)
  PROVE  WakingInv'
<1>1. CASE K!HumanSpeaks
  <2> DEFINE begun == [kind |-> "human", asked |-> K!NoPrompt]
  <2>1. begun \in [kind : {"human", "birth"}, asked : K!Prompts] /\ begun.kind # "birth"
        /\ begun.asked = K!NoPrompt
    BY DEF WakingSane, K!NoPrompt, K!Prompts
  <2>2. K!Starts(begun) /\ UNCHANGED impulse
    BY <1>1 DEF K!HumanSpeaks
  <2> HIDE DEF begun
  <2> QED BY <2>1, <2>2, Routed
<1>2. CASE K!ImpulseRuns
  <2> DEFINE begun == [kind |-> "birth", asked |-> impulse.soul]
  <2>1. begun \in [kind : {"human", "birth"}, asked : K!Prompts]
    BY DEF WakingInv, K!TypeOK
  <2>2. K!Starts(begun) /\ impulse' = K!NoImpulse
    BY <1>2 DEF K!ImpulseRuns
  <2>3. begun.asked = K!NoPrompt \/ begun.asked <= soulAt
    BY DEF WakingInv, LaneInv, PastInv
  <2>4. begun.asked = soulAt => session = K!NoSession \/ soulAt <= session.created
    BY <1>2 DEF WakingInv, LaneInv, AskedInv, K!ImpulseRuns
  <2> HIDE DEF begun
  <2> QED BY <2>1, <2>2, <2>3, <2>4, Routed
\* The turn goes on: only its place and the ghost change.
<1>3. ASSUME turn.at = "begun", turn' = [turn EXCEPT !.at = "heard"],
             UNCHANGED <<stamp, soulAt, session, agent, impulse, born, promised>>,
             alien' = FALSE
      PROVE  WakingInv'
  <2>1. turn # K!NoTurn
    BY <1>3, Apart
  <2>2. /\ turn' \in [kind : {"human", "birth"}, at : {"begun", "heard", "wrote"},
                      prompt : K!Times, opened : K!Times, owed : K!Times, asked : K!Prompts]
        /\ turn'.kind = turn.kind /\ turn'.prompt = turn.prompt /\ turn'.at # "none"
        /\ turn'.opened = turn.opened /\ turn'.owed = turn.owed /\ turn'.asked = turn.asked
    BY <1>3, <2>1 DEF WakingInv, K!TypeOK
  <2>3. K!TypeOK'
    BY <1>3, <2>2 DEF WakingInv, K!TypeOK
  <2>4. turn' # K!NoTurn
    BY <2>2, Apart
  <2>5. LaneInv'
    BY <1>3, <2>1, <2>2, <2>4 DEF WakingInv, LaneInv, FirstInv, FitInv, Fits, AskedInv,
                                  PastInv, PromiseInv
  <2>6. K!Voiced'
    BY <1>3, <2>1, <2>2 DEF WakingInv, K!Voiced, K!OwnRitual, K!Homecoming
  <2> QED BY <2>3, <2>5, <2>6 DEF WakingInv
\* A ritual that is handed in the turn's own session finds the right prompt.
<1>4. ASSUME turn # K!NoTurn, session.created = turn.opened, ~session.tainted,
             soulAt <= session.created
      PROVE  turn.prompt = soulAt
  <2>1. session # K!NoSession
    BY <1>4 DEF WakingInv, LaneInv, FirstInv
  <2>2. Fits(turn.prompt)
    BY <1>4, <2>1 DEF WakingInv, LaneInv, FitInv
  <2>3. turn.prompt # K!NoPrompt /\ session.created \in Nat /\ soulAt \in Nat
    BY <1>4, <2>1, LaneTypes DEF WakingInv
  <2> QED BY <1>4, <2>2, <2>3 DEF Fits
<1>5. ASSUME NEW due \in BOOLEAN, NEW readable \in BOOLEAN, K!Injects(due, readable)
      PROVE  WakingInv'
  <2>1. turn.at = "begun" /\ turn # K!NoTurn /\ alien = FALSE
    BY <1>5, Apart DEF K!Injects, WakingInv, K!TypeOK, K!Voiced, K!OwnRitual
  <2>2. session # K!NoSession /\ session.created \in Nat /\ soulAt \in Nat
    BY <2>1, LaneTypes DEF WakingInv, LaneInv, FirstInv
  <2>3. alien' = FALSE
    <3>1. CASE ~born /\ due /\ ~K!Stale(readable)
      <4>1. K!Outdated => ~readable
        BY <3>1 DEF K!Stale
      <4>2. ~K!Outdated => soulAt <= session.created
        BY <2>2 DEF K!Outdated
      <4>3. K!Handed(~readable /\ K!Outdated)
        BY <1>5, <3>1, Zenon DEF K!Injects
      <4> QED BY <1>4, <2>1, <4>1, <4>2, <4>3 DEF K!Handed
    <3>2. CASE ~(~born /\ due /\ ~K!Stale(readable))
      BY <1>5, <2>1, <3>2 DEF K!Injects
    <3> QED BY <3>1, <3>2
  <2> QED BY <1>3, <1>5, <2>1, <2>3 DEF K!Injects
<1>6. CASE K!HearsImpulse
  <2>1. turn.at = "begun" /\ turn.kind = "birth" /\ turn # K!NoTurn /\ alien = FALSE
    BY <1>6, Apart DEF K!HearsImpulse, WakingInv, K!TypeOK, K!Voiced, K!OwnRitual
  <2>2. turn.asked = soulAt => soulAt <= session.created
    BY <2>1 DEF WakingInv, LaneInv, AskedInv
  <2>3. alien' = FALSE
    BY <1>4, <1>6, <2>1, <2>2 DEF K!HearsImpulse, K!Handed
  <2> QED BY <1>3, <1>6, <2>1, <2>3 DEF K!HearsImpulse
<1>7. CASE K!TurnEnds
  <2>1. /\ turn' = K!NoTurn
        /\ UNCHANGED <<stamp, soulAt, agent, impulse, born, promised, alien>>
        /\ session' = IF session = K!NoSession THEN session ELSE [session EXCEPT !.quiet = FALSE]
    BY <1>7 DEF K!TurnEnds
  <2>2. CASE session = K!NoSession
    BY <2>1, <2>2 DEF WakingInv, K!TypeOK, LaneInv, FirstInv, FitInv, Fits, AskedInv, PastInv,
                      PromiseInv, K!Voiced, K!OwnRitual, K!Homecoming
  <2>3. CASE session # K!NoSession
    <3>1. session' \in SessionsUpTo(stamp) /\ session'.created = session.created
          /\ session'.prompt = session.prompt /\ session'.tainted = session.tainted
      BY <2>1, <2>3 DEF WakingInv, K!TypeOK, SessionsUpTo
    <3>2. K!TypeOK'
      BY <2>1, <3>1 DEF WakingInv, K!TypeOK, SessionsUpTo
    <3>3. session' # K!NoSession
      BY <3>1, Apart, LaneTypes DEF WakingInv
    <3> QED BY <2>1, <2>3, <3>1, <3>2, <3>3
            DEF WakingInv, LaneInv, FirstInv, FitInv, Fits, AskedInv, PastInv,
                PromiseInv, K!Voiced, K!OwnRitual, K!Homecoming
  <2> QED BY <2>2, <2>3
<1> QED BY <1>1, <1>2, <1>5, <1>6, <1>7

-----------------------------------------------------------------------------
(* A text is written, or the session ends. *)

Turns == [kind : {"human", "birth"}, at : {"begun", "heard", "wrote"},
          prompt : K!Times, opened : K!Times, owed : K!Times, asked : K!Prompts]

\* The turn goes on, perhaps elsewhere.
GoesOn ==
  \/ turn' = turn
  \/ turn # K!NoTurn /\ \E place \in {"heard", "wrote"} : turn' = [turn EXCEPT !.at = place]

LEMMA TurnGoesOn ==
  ASSUME WakingSane, WakingInv, GoesOn
  PROVE  /\ turn' = K!NoTurn <=> turn = K!NoTurn
         /\ turn # K!NoTurn => /\ turn'.kind = turn.kind /\ turn'.prompt = turn.prompt
                               /\ turn'.opened = turn.opened /\ turn'.owed = turn.owed
                               /\ turn'.asked = turn.asked
         /\ turn' \in {K!NoTurn} \cup Turns
<1>1. CASE turn' = turn
  BY <1>1 DEF WakingInv, K!TypeOK, Turns
<1>2. ASSUME turn # K!NoTurn, NEW place \in {"heard", "wrote"}, turn' = [turn EXCEPT !.at = place]
      PROVE  /\ turn' # K!NoTurn /\ turn'.kind = turn.kind /\ turn'.prompt = turn.prompt
             /\ turn'.opened = turn.opened /\ turn'.owed = turn.owed
             /\ turn'.asked = turn.asked /\ turn' \in Turns
  <2>1. turn' \in Turns /\ turn'.at # "none"
    BY <1>2 DEF WakingInv, K!TypeOK, Turns
  <2>2. turn' # K!NoTurn
    BY <2>1, Apart
  <2> QED BY <1>2, <2>1, <2>2 DEF WakingInv, K!TypeOK
<1> QED BY <1>1, <1>2 DEF GoesOn

\* What a turn and an impulse remember, in numbers.
LEMMA PastTypes ==
  ASSUME WakingSane, WakingInv
  PROVE  /\ impulse.soul \in Nat
         /\ turn # K!NoTurn => /\ turn.asked \in Nat /\ turn.opened \in Nat /\ turn.owed \in Nat
                               /\ turn.prompt \in Nat
BY DEF WakingInv, K!TypeOK, K!Prompts, K!Times, WakingSane, K!NoPrompt

\* A new text: every prompt may be old now, and the lane shows it.
LEMMA TextWritten ==
  ASSUME WakingSane, WakingInv, K!Writes, UNCHANGED <<session, agent, impulse, promised, alien>>,
         born' \in BOOLEAN, GoesOn
  PROVE  WakingInv'
<1>1. stamp' = stamp + 1 /\ soulAt' = stamp + 1 /\ stamp + 1 \in 1 .. LastStamp
      /\ stamp \in Nat /\ soulAt <= stamp /\ soulAt \in Nat /\ promised \in 0 .. stamp + 1
      /\ K!NoPrompt \in Nat /\ K!NoPrompt > LastStamp /\ LastStamp \in Nat
  BY LaneTypes DEF K!Writes, WakingInv
<1>3. session = K!NoSession \/ (session \in SessionsUpTo(stamp) /\ session \in SessionsUpTo(stamp + 1)
                                /\ session.created <= stamp /\ session.created \in Nat)
  BY <1>1 DEF WakingInv, K!TypeOK, SessionsUpTo
<1>4. K!TypeOK'
  BY <1>1, <1>3, TurnGoesOn DEF WakingInv, K!TypeOK, SessionsUpTo, Turns
<1>5. FirstInv' /\ FitInv' /\ PromiseInv' /\ K!Voiced'
  BY <1>1, <1>3, TurnGoesOn DEF WakingInv, LaneInv, FirstInv, FitInv, Fits, PromiseInv,
                          K!Voiced, K!OwnRitual, K!Homecoming
<1>6. PastInv'
  BY <1>1, PastTypes, TurnGoesOn DEF WakingInv, LaneInv, PastInv
<1>7. AskedInv'
  <2>1. impulse.soul # soulAt' /\ (turn # K!NoTurn => turn.asked # soulAt')
    BY <1>1, PastTypes DEF WakingInv, LaneInv, PastInv
  <2> QED BY <2>1, TurnGoesOn DEF AskedInv
<1> QED BY <1>4, <1>5, <1>6, <1>7 DEF WakingInv, LaneInv

\* The impulse is as it was, or fits the lane.
Fitting ==
  \/ impulse' = impulse
  \/ /\ impulse' \in [due : BOOLEAN, soul : K!Prompts]
     /\ impulse'.soul = K!NoPrompt \/ impulse'.soul <= soulAt'
     /\ impulse'.due /\ impulse'.soul = soulAt' =>
          session' = K!NoSession \/ soulAt' <= session'.created

\* A session that replaces the lane's: untainted only without an agent.
LEMMA SessionReplaced ==
  ASSUME WakingSane, WakingInv,
         NEW instant \in 1 .. LastStamp, NEW tainted \in BOOLEAN,
         instant > stamp, stamp' = instant, soulAt' \in Nat, soulAt <= soulAt', soulAt' < instant,
         soulAt' = soulAt \/ soulAt' > stamp,
         session' = K!Session(instant, tainted), session # K!NoSession,
         agent' \in {agent, K!NoPrompt}, agent' # K!NoPrompt => tainted /\ promised' = promised,
         promised' \in {promised, soulAt'},
         turn' = K!NoTurn \/ GoesOn, born' \in BOOLEAN, alien' = alien, Fitting
  PROVE  WakingInv'
<1>1. /\ session' \in SessionsUpTo(instant) /\ session'.created = instant
      /\ session'.prompt = K!NoPrompt /\ session'.tainted = tainted
  <2>1. instant \in Nat /\ instant \in 1 .. instant
    OBVIOUS
  <2> QED BY <2>1, SessionBegins
<1>2. /\ LastStamp \in Nat /\ K!NoPrompt \in Nat /\ K!NoPrompt > LastStamp /\ stamp \in Nat
      /\ soulAt \in Nat /\ soulAt <= stamp /\ promised \in Nat /\ promised <= soulAt
      /\ agent \in K!Prompts /\ K!NoPrompt \in K!Prompts /\ agent >= promised
  BY LaneTypes DEF WakingInv, K!TypeOK, K!Prompts, LaneInv, PromiseInv
<1>3. session' # K!NoSession
  <2>1. K!NoSession \notin SessionsUpTo(instant)
    <3>1. instant \in Nat
      OBVIOUS
    <3> QED BY <3>1, Apart
  <2> QED BY <1>1, <2>1
<1>4. /\ turn' \in {K!NoTurn} \cup Turns
      /\ turn' # K!NoTurn =>
           /\ turn # K!NoTurn /\ turn'.opened = turn.opened /\ turn'.prompt = turn.prompt
           /\ turn'.owed = turn.owed /\ turn'.asked = turn.asked
  BY TurnGoesOn
<1>5. turn # K!NoTurn =>
         /\ turn.opened \in Nat /\ turn.opened <= stamp /\ turn.owed \in Nat /\ turn.prompt \in Nat
         /\ turn.prompt >= turn.owed /\ turn.owed <= promised
  BY PastTypes DEF WakingInv, LaneInv, PastInv, PromiseInv, K!Voiced, K!Homecoming
<1>6. K!TypeOK'
  BY <1>1, <1>2, <1>4 DEF WakingInv, K!TypeOK, SessionsUpTo, Turns, Fitting
<1>7. FirstInv' /\ FitInv'
  BY <1>1, <1>2, <1>3, <1>4, <1>5 DEF FirstInv, FitInv, Fits
<1>8. AskedInv'
  BY <1>1, <1>2 DEF AskedInv
<1>9. PastInv'
  BY <1>2, <1>4, <1>5, PastTypes DEF WakingInv, LaneInv, PastInv, Fitting
<1>10. PromiseInv'
  BY <1>1, <1>2, <1>3, <1>4, <1>5 DEF PromiseInv
<1>11. K!Voiced'
  BY <1>4, <1>5 DEF WakingInv, K!Voiced, K!OwnRitual, K!Homecoming
<1> QED BY <1>6, <1>7, <1>8, <1>9, <1>10, <1>11 DEF WakingInv, LaneInv

LEMMA WriteSteps ==
  ASSUME WakingSane, WakingInv, K!Edits \/ \E recorded \in BOOLEAN : K!WritesSoul(recorded)
  PROVE  WakingInv'
<1>1. CASE K!Edits
  <2>1. born' \in BOOLEAN
    BY <1>1 DEF K!Edits, WakingInv, K!TypeOK
  <2> QED BY <1>1, <2>1, TextWritten DEF K!Edits, GoesOn
<1>2. ASSUME NEW recorded \in BOOLEAN, K!WritesSoul(recorded) PROVE WakingInv'
  <2>1. born' \in BOOLEAN /\ turn # K!NoTurn
    BY <1>2, Apart DEF K!WritesSoul
  <2>2. GoesOn
    BY <1>2, <2>1 DEF K!WritesSoul, GoesOn
  <2> QED BY <1>2, <2>1, <2>2, TextWritten DEF K!WritesSoul
<1> QED BY <1>1, <1>2

\* The end of a session, after the text was written or with it.
LEMMA SessionEnds ==
  ASSUME WakingSane, WakingInv, NEW outcome \in K!Outcomes, NEW instant \in 1 .. LastStamp,
         K!EndSession(outcome, instant), instant > stamp, stamp' = instant,
         soulAt' \in Nat, soulAt <= soulAt', soulAt' < instant,
         soulAt' = soulAt \/ soulAt' > stamp,
         GoesOn, born' \in BOOLEAN, alien' = alien, Fitting
  PROVE  WakingInv'
<1>1. CASE session # K!NoSession /\ outcome # "unavailable"
  <2> DEFINE tainted == outcome = "evict failed" /\ agent # K!NoPrompt
  <2>1. session' = K!Session(instant, tainted)
    BY <1>1 DEF K!EndSession
  <2>2. outcome = "ended" \/ outcome = "evict failed"
    BY <1>1 DEF K!Outcomes
  <2>3. agent' = (IF outcome = "ended" THEN K!NoPrompt ELSE agent)
        /\ promised' = (IF outcome = "ended" THEN soulAt' ELSE promised)
    BY DEF K!EndSession
  <2>4. agent' # K!NoPrompt => tainted /\ promised' = promised
    BY <2>2, <2>3
  <2>5. agent' \in {agent, K!NoPrompt} /\ promised' \in {promised, soulAt'} /\ tainted \in BOOLEAN
    BY <2>3
  <2> HIDE DEF tainted
  <2> QED BY <1>1, <2>1, <2>4, <2>5, SessionReplaced
<1>2. CASE outcome = "unavailable"
  <2>1. UNCHANGED <<session, agent, promised, alien>>
    BY <1>2 DEF K!EndSession
  <2>2. /\ LastStamp \in Nat /\ K!NoPrompt \in Nat /\ K!NoPrompt > LastStamp /\ stamp \in Nat
        /\ soulAt \in Nat /\ soulAt <= stamp /\ promised \in Nat /\ promised <= soulAt
    BY LaneTypes DEF WakingInv
  <2>3. session # K!NoSession => session.created \in Nat /\ session.created <= stamp
    BY LaneTypes DEF WakingInv
  <2>4. K!TypeOK'
    <3>1. session \in {K!NoSession} \cup SessionsUpTo(instant)
      BY <2>2 DEF WakingInv, K!TypeOK, SessionsUpTo
    <3> QED BY <2>1, <2>2, <3>1, TurnGoesOn DEF WakingInv, K!TypeOK, SessionsUpTo, Turns, Fitting
  <2>5. FirstInv' /\ FitInv' /\ PromiseInv' /\ K!Voiced'
    BY <2>1, <2>2, <2>3, TurnGoesOn DEF WakingInv, LaneInv, FirstInv, FitInv, Fits, PromiseInv,
                            K!Voiced, K!OwnRitual, K!Homecoming
  <2>6. PastInv'
    BY <2>1, <2>2, PastTypes, TurnGoesOn DEF WakingInv, LaneInv, PastInv, Fitting
  <2>7. AskedInv'
    <3>1. CASE soulAt' = soulAt
      BY <2>1, <3>1, TurnGoesOn DEF WakingInv, LaneInv, AskedInv, Fitting
    <3>2. CASE soulAt' > stamp
      <4>1. impulse.soul # soulAt' /\ (turn # K!NoTurn => turn.asked # soulAt')
        BY <2>2, <3>2, PastTypes DEF WakingInv, LaneInv, PastInv
      <4> QED BY <2>1, <4>1, TurnGoesOn DEF AskedInv, Fitting
    <3> QED BY <3>1, <3>2
  <2> QED BY <2>4, <2>5, <2>6, <2>7 DEF WakingInv, LaneInv
<1> QED BY <1>1, <1>2 DEF K!EndSession

LEMMA EndSteps ==
  ASSUME WakingSane, WakingInv, NEW outcome \in K!Outcomes, K!FallsAsleep(outcome) \/ K!OwnerReverts(outcome)
  PROVE  WakingInv'
<1>1. /\ LastStamp \in Nat /\ stamp \in Nat /\ 1 <= stamp
      /\ soulAt \in Nat /\ soulAt <= stamp
  BY LaneTypes DEF WakingInv
<1>2. CASE K!OwnerReverts(outcome)
  <2>1. stamp + 2 \in 1 .. LastStamp /\ stamp' = stamp + 2 /\ soulAt' = stamp + 1
        /\ K!EndSession(outcome, stamp + 2) /\ UNCHANGED <<turn, impulse, born, alien>>
    BY <1>1, <1>2 DEF K!OwnerReverts
  <2>2. stamp + 2 > stamp /\ soulAt' \in Nat /\ soulAt <= soulAt' /\ soulAt' < stamp + 2
        /\ soulAt' > stamp
    BY <1>1, <2>1
  <2>3. GoesOn /\ Fitting /\ born' \in BOOLEAN
    BY <2>1 DEF GoesOn, Fitting, WakingInv, K!TypeOK
  <2> QED BY <2>1, <2>2, <2>3, SessionEnds
<1>3. CASE K!FallsAsleep(outcome)
  <2> DEFINE next == stamp + 1
  <2>1. /\ turn.at = "wrote" /\ turn' = [turn EXCEPT !.at = "heard"]
        /\ next \in 1 .. LastStamp /\ stamp' = next /\ soulAt' = soulAt
        /\ K!EndSession(outcome, next) /\ UNCHANGED <<impulse, born, alien>>
    BY <1>1, <1>3 DEF K!FallsAsleep
  <2>2. next > stamp /\ soulAt' \in Nat /\ soulAt <= soulAt' /\ soulAt' < next
    BY <1>1, <2>1
  <2>3. GoesOn /\ Fitting /\ born' \in BOOLEAN
    BY <2>1, Apart DEF GoesOn, Fitting, WakingInv, K!TypeOK
  <2> HIDE DEF next
  <2> QED BY <2>1, <2>2, <2>3, SessionEnds
<1> QED BY <1>2, <1>3

-----------------------------------------------------------------------------
(* The birth tick, and what the human and the host do with the lane. *)

LEMMA TickSteps ==
  ASSUME WakingSane, WakingInv, NEW outcome \in K!Outcomes, NEW delivered \in BOOLEAN,
         NEW readable \in BOOLEAN, K!BirthTick(outcome, delivered, readable)
  PROVE  WakingInv'
<1>1. /\ LastStamp \in Nat /\ K!NoPrompt \in Nat /\ K!NoPrompt > LastStamp /\ stamp \in Nat
      /\ 1 <= stamp /\ soulAt \in Nat /\ soulAt <= stamp /\ soulAt \in K!Prompts
      /\ K!NoPrompt \in K!Prompts
      /\ session # K!NoSession => session.created \in Nat
  BY LaneTypes DEF WakingInv, K!Prompts
<1>2. /\ UNCHANGED <<turn, born, alien, soulAt>>
      /\ impulse' = IF ~delivered THEN K!NoImpulse
                    ELSE [due |-> TRUE,
                          soul |-> IF K!Outdated /\ (readable => outcome # "ended")
                                     THEN K!NoPrompt ELSE soulAt]
  BY DEF K!BirthTick
<1>3. GoesOn /\ born' \in BOOLEAN
  BY <1>2 DEF GoesOn, WakingInv, K!TypeOK
<1>4. /\ impulse' \in [due : BOOLEAN, soul : K!Prompts]
      /\ impulse'.soul = K!NoPrompt \/ (impulse'.soul = soulAt
                                         /\ ~(K!Outdated /\ (readable => outcome # "ended")))
      /\ impulse'.due => impulse'.soul \in {K!NoPrompt, soulAt}
  BY <1>1, <1>2 DEF K!NoImpulse
<1>5. CASE K!Stale(readable)
  <2> DEFINE next == stamp + 1
  <2>1. next \in 1 .. LastStamp /\ stamp' = next /\ soulAt' = soulAt /\ K!EndSession(outcome, next)
    BY <1>1, <1>5 DEF K!BirthTick
  <2>2. next > stamp /\ soulAt' \in Nat /\ soulAt <= soulAt' /\ soulAt' < next
    BY <1>1, <2>1
  <2>3. Fitting
    <3>1. outcome = "ended" => soulAt' <= session'.created
      <4>1. outcome = "ended" => session' = K!Session(next, FALSE)
        BY <1>5, <2>1 DEF K!EndSession, K!Stale, K!Outdated
      <4>2. K!Session(next, FALSE).created = next
        BY DEF K!Session
      <4> HIDE DEF next
      <4>3. soulAt' <= next
        BY <1>1, <2>1, <2>2
      <4> QED BY <4>1, <4>2, <4>3
    <3>2. impulse'.soul = K!NoPrompt \/ outcome = "ended"
      BY <1>4, <1>5 DEF K!Stale
    <3>3. K!NoPrompt # soulAt'
      BY <1>1, <2>1
    <3> QED BY <1>1, <1>2, <1>4, <3>1, <3>2, <3>3 DEF Fitting
  <2> HIDE DEF next
  <2> QED BY <1>2, <1>3, <2>1, <2>2, <2>3, SessionEnds
<1>6. CASE ~K!Stale(readable)
  <2>1. UNCHANGED <<stamp, soulAt, session, agent, promised, turn, born, alien>>
    BY <1>2, <1>6 DEF K!BirthTick
  <2>2. K!TypeOK'
    BY <1>4, <2>1 DEF WakingInv, K!TypeOK
  <2>3. FirstInv' /\ FitInv' /\ PromiseInv' /\ K!Voiced'
    BY <2>1 DEF WakingInv, LaneInv, FirstInv, FitInv, Fits, PromiseInv, K!Voiced, K!OwnRitual,
                K!Homecoming
  <2>4. PastInv'
    BY <1>1, <1>4, <2>1 DEF WakingInv, LaneInv, PastInv
  <2>5. AskedInv'
    <3>1. K!Outdated => impulse'.soul = K!NoPrompt \/ ~impulse'.due
      BY <1>2, <1>6 DEF K!Stale, K!NoImpulse
    <3>2. ~K!Outdated => session = K!NoSession \/ soulAt <= session.created
      BY <1>1 DEF K!Outdated
    <3>3. K!NoPrompt # soulAt
      BY <1>1 DEF WakingInv, K!TypeOK
    <3> QED BY <2>1, <3>1, <3>2, <3>3 DEF WakingInv, LaneInv, AskedInv
  <2> QED BY <2>2, <2>3, <2>4, <2>5 DEF WakingInv, LaneInv
<1> QED BY <1>5, <1>6

LEMMA HostSteps ==
  ASSUME WakingSane, WakingInv, K!FallsQuiet \/ K!NewCommand \/ K!HostSwitches \/ K!Restarts
  PROVE  WakingInv'
<1>1. /\ LastStamp \in Nat /\ K!NoPrompt \in Nat /\ K!NoPrompt > LastStamp /\ stamp \in Nat
      /\ 1 <= stamp /\ soulAt \in Nat /\ soulAt <= stamp /\ K!NoPrompt \in K!Prompts
      /\ promised \in Nat /\ promised <= soulAt /\ stamp <= LastStamp
  BY LaneTypes DEF WakingInv, K!Prompts
<1>2. CASE K!FallsQuiet
  <2>1. /\ session # K!NoSession /\ session' = [session EXCEPT !.quiet = TRUE]
        /\ UNCHANGED <<stamp, soulAt, agent, turn, impulse, born, promised, alien>>
    BY <1>2 DEF K!FallsQuiet
  <2>2. session' \in SessionsUpTo(stamp) /\ session'.created = session.created
        /\ session'.prompt = session.prompt /\ session'.tainted = session.tainted
    BY <2>1 DEF WakingInv, K!TypeOK, SessionsUpTo
  <2>3. K!TypeOK'
    BY <2>1, <2>2 DEF WakingInv, K!TypeOK, SessionsUpTo
  <2>4. session' # K!NoSession
    BY <1>1, <2>2, Apart
  <2> QED BY <2>1, <2>2, <2>3, <2>4
          DEF WakingInv, LaneInv, FirstInv, FitInv, Fits, AskedInv, PastInv,
              PromiseInv, K!Voiced, K!OwnRitual, K!Homecoming
<1>3. ASSUME NEW tainted \in BOOLEAN, session # K!NoSession, stamp < LastStamp,
             stamp' = stamp + 1, session' = K!Session(stamp + 1, tainted),
             agent' \in {agent, K!NoPrompt}, agent' # K!NoPrompt => tainted,
             turn' \in {turn, K!NoTurn}, UNCHANGED <<soulAt, impulse, born, promised, alien>>
      PROVE  WakingInv'
  <2> DEFINE next == stamp + 1
  <2>1. /\ next \in 1 .. LastStamp /\ next > stamp /\ stamp' = next
        /\ soulAt' \in Nat /\ soulAt <= soulAt' /\ soulAt' < next
        /\ session' = K!Session(next, tainted)
    BY <1>1, <1>3
  <2>2. turn' = K!NoTurn \/ GoesOn
    BY <1>3 DEF GoesOn
  <2>3. Fitting /\ born' \in BOOLEAN /\ promised' \in {promised, soulAt'}
    BY <1>3 DEF Fitting, WakingInv, K!TypeOK
  <2> HIDE DEF next
  <2> QED BY <1>3, <2>1, <2>2, <2>3, SessionReplaced
<1>4. CASE K!NewCommand
  BY <1>3, <1>4 DEF K!NewCommand
<1>5. CASE K!HostSwitches
  <2> DEFINE tainted == agent # K!NoPrompt
  <2>1. tainted \in BOOLEAN /\ session' = K!Session(stamp + 1, tainted)
    BY <1>5 DEF K!HostSwitches
  <2>2. agent' = agent /\ (agent' # K!NoPrompt => tainted)
    BY <1>5 DEF K!HostSwitches
  <2> HIDE DEF tainted
  <2> QED BY <1>3, <1>5, <2>1, <2>2 DEF K!HostSwitches
<1>6. CASE K!Restarts
  <2>1. /\ agent' = K!NoPrompt /\ turn' = K!NoTurn /\ impulse' = K!NoImpulse
        /\ UNCHANGED <<stamp, soulAt, session, born, promised, alien>>
    BY <1>6 DEF K!Restarts
  <2>2. impulse' \in [due : BOOLEAN, soul : K!Prompts] /\ impulse'.soul = K!NoPrompt
        /\ ~impulse'.due
    BY <1>1, <2>1 DEF K!NoImpulse
  <2>3. K!TypeOK'
    BY <1>1, <2>1, <2>2 DEF WakingInv, K!TypeOK
  <2>4. FirstInv' /\ FitInv'
    BY <2>1 DEF WakingInv, LaneInv, FirstInv, FitInv, Fits
  <2>5. AskedInv' /\ PastInv'
    BY <2>1, <2>2 DEF AskedInv, PastInv
  <2>6. PromiseInv'
    BY <1>1, <2>1 DEF WakingInv, LaneInv, PromiseInv
  <2>7. K!Voiced'
    BY <2>1 DEF WakingInv, K!Voiced, K!OwnRitual, K!Homecoming
  <2> QED BY <2>3, <2>4, <2>5, <2>6, <2>7 DEF WakingInv, LaneInv
<1> QED BY <1>2, <1>4, <1>5, <1>6

LEMMA WakingStepInv == WakingSane /\ WakingInv /\ [K!Next]_(K!vars) => WakingInv'
<1> SUFFICES ASSUME WakingSane, WakingInv, [K!Next]_(K!vars) PROVE WakingInv'
  OBVIOUS
<1>1. CASE UNCHANGED K!vars
  BY <1>1 DEF K!vars, WakingInv, K!TypeOK, LaneInv, FirstInv, FitInv, Fits, AskedInv, PastInv,
              PromiseInv, K!Voiced, K!OwnRitual, K!Homecoming
<1>2. CASE K!Next
  BY <1>2, TurnSteps, WriteSteps, EndSteps, TickSteps, HostSteps DEF K!Next
<1> QED BY <1>1, <1>2

\* The being is born in its own voice, and comes back in it, for any number of
\* texts and sessions, and whatever the host could not tell or do.
THEOREM OwnVoice == WakingSane => (K!Spec => []K!Voiced)
<1> SUFFICES ASSUME WakingSane PROVE K!Spec => []K!Voiced
  OBVIOUS
<1>1. K!Init => WakingInv
  BY WakingInitInv
<1>2. WakingInv /\ [K!Next]_(K!vars) => WakingInv'
  BY WakingStepInv
<1>3. WakingInv => K!Voiced
  BY DEF WakingInv
<1> QED BY <1>1, <1>2, <1>3, PTL DEF K!Spec
=============================================================================
