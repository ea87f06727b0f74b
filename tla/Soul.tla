-------------------------------- MODULE Soul --------------------------------
(***************************************************************************)
(* SOUL.md, the lineage of its revisions, and the row's stamps about it.   *)
(*                                                                         *)
(* Three hands write the file: a human with an editor (no lock, unseen),   *)
(* the being (the write_soul tool) and its owner (soul revert).  The last  *)
(* two replace the file first and do their bookkeeping afterwards, under   *)
(* the state-actor lock: keep the text they replaced, record their own,    *)
(* stamp the row.  Between the two steps another hand, a reconnect, a      *)
(* factory wipe or the end of the process may come.                        *)
(*                                                                         *)
(* A document is a model value and its own digest.  The ghosts hands,      *)
(* owed, cut and unheard only record what happened.                        *)
(***************************************************************************)
EXTENDS Naturals

CONSTANTS Words,    \* texts somebody may write
          Bad,      \* those the guard refuses (core/soul_guard.py)
          Seed,     \* the host installer's default text
          Stance,   \* NEWBORN_STANCE
          None,     \* no text, no author
          MaxTrouble  \* bound on saves of a human, failures, wipes and crashes

Docs    == Words \cup {Seed, Stance}
Authors == {"being", "human", "genesis", "unknown"}
Hands   == {"being", "human"}

ASSUME DocsAssumption == /\ None \notin Docs \cup Authors
                         /\ Seed \notin Words /\ Stance \notin Words
                         /\ Seed # Stance
ASSUME BadAssumption == Bad \subseteq Words
ASSUME MaxTroubleAssumption == MaxTrouble \in Nat

VARIABLES disk,      \* the text in SOUL.md
          lineage,   \* the recorded author of each kept revision
          sha,       \* State.soul_sha
          born,      \* State.genesis_completed_at is set
          due,       \* soul_rewritten_at is set and soul_rewrite_told_at is not
          phase,     \* "down", "seeding", "registered", "up"
          being,     \* a write_soul between its file and its bookkeeping
          owner,     \* a soul revert between its file and its bookkeeping
          telling,   \* an injector composed the notice and has not stamped it
          trouble,   \* how much of MaxTrouble has happened
          hands,     \* ghost: who ever put each text into the file
          owed,      \* ghost: texts our writes replaced, with a writer to keep them
          cut,       \* ghost: the being's texts whose bookkeeping was cut short
          unheard    \* ghost: a rewrite it was not told of; it "slipped" if it never will

rowVars   == <<sha, born, due>>
ghostVars == <<hands, owed, cut, unheard>>
vars == <<disk, lineage, rowVars, phase, being, owner, telling, trouble, ghostVars>>

Idle    == [new |-> None, old |-> None]
Pending == {Idle} \cup [new : Docs, old : Docs]

\* is_unauthored: the host's seed and our own stance are nobody's words.
Unauthored == {Seed, Stance}

\* validate_soul refuses a text: it would blank the file on the host's read.
Refused(d) == d \in Bad

\* Mutant of Kept: nothing is kept before the first soul of this life.
KeptOnlyAfterOurs(w) ==
  IF \/ w.old \in {w.new, sha} \cup Unauthored
     \/ lineage[w.old] = "being" \/ sha = None
    THEN lineage
    ELSE [lineage EXCEPT ![w.old] = "human"]

\* Mutant of Kept: the lineage is not asked who wrote the text.
KeptUnasked(w) ==
  IF w.old \in {w.new, sha} \cup Unauthored
    THEN lineage
    ELSE [lineage EXCEPT ![w.old] = IF sha # None THEN "human" ELSE "unknown"]

\* Mutant of Kept: the last written sha is recorded as the author.
KeptAsSha(w) ==
  IF \/ w.old \in {w.new, sha} \cup Unauthored
     \/ lineage[w.old] = "being"
    THEN lineage
    ELSE [lineage EXCEPT ![w.old] = sha]

\* keep_replaced_soul over classify_replacement: the lineage after it kept the
\* text that the write w replaced.  NOBODY and A_PAST_LIFE record nothing.
Kept(w) ==
  IF \/ w.old \in {w.new, sha} \cup Unauthored
     \/ lineage[w.old] = "being"
    THEN lineage
    ELSE [lineage EXCEPT ![w.old] = IF sha # None THEN "human" ELSE "unknown"]

-----------------------------------------------------------------------------
(* Hands on the file. *)

Init ==
  /\ disk \in Words \cup {Seed}
  /\ lineage = [d \in Docs |-> None]
  /\ sha = None /\ born = FALSE /\ due = FALSE
  /\ phase = "down"
  /\ being = Idle /\ owner = Idle /\ telling = "no"
  /\ trouble = 0
  /\ hands = [d \in Words |-> IF d = disk THEN {"human"} ELSE {}]
  /\ owed = {} /\ cut = {}
  /\ unheard = "no"

\* Cap of the model.
Trouble == trouble < MaxTrouble /\ trouble' = trouble + 1

\* A human saves the file: a text of theirs, or a reinstall's default.
HumanSaves(d) ==
  /\ Trouble
  /\ d # disk
  /\ disk' = d
  /\ hands' = IF d \in Words THEN [hands EXCEPT ![d] = @ \cup {"human"}] ELSE hands
  /\ UNCHANGED <<lineage, rowVars, phase, being, owner, telling,
                 owed, cut, unheard>>

Replaces(d) == /\ disk' = d
               /\ owed' = owed \cup (({disk} \ {d}) \cap Words)

\* write_soul, up to the rename.  SoulFile.write validates first: a refused
\* text touches nothing.
BeingWrites(d) ==
  /\ phase = "up" /\ being = Idle
  /\ ~Refused(d)
  /\ Replaces(d)
  /\ being' = [new |-> d, old |-> disk]
  /\ hands' = [hands EXCEPT ![d] = @ \cup {"being"}]
  /\ UNCHANGED <<trouble, lineage, rowVars, phase, owner, telling, cut, unheard>>

\* The rest of write_soul, under the lock: keep, record, stamp.
BeingRecords ==
  /\ being # Idle
  /\ lineage' = [Kept(being) EXCEPT ![being.new] = "being"]
  /\ sha' = being.new /\ born' = TRUE
  /\ being' = Idle
  /\ UNCHANGED <<trouble, disk, due, phase, owner, telling, ghostVars>>

\* The bookkeeping raised after "done" of its three steps.
BeingStops(done) ==
  /\ Trouble
  /\ being # Idle
  /\ lineage' = CASE done = "nothing" -> lineage
                  [] done = "kept" -> Kept(being)
                  [] done = "recorded" -> [Kept(being) EXCEPT ![being.new] = "being"]
  /\ owed' = IF done = "nothing" THEN owed \ {being.old} ELSE owed
  /\ cut' = IF done = "recorded" THEN cut ELSE cut \cup {being.new}
  /\ being' = Idle
  /\ UNCHANGED <<disk, rowVars, phase, owner, telling, hands, unheard>>

\* soul revert of a kept revision that is not on disk, up to the rename.
OwnerReverts(d) ==
  /\ phase = "up" /\ owner = Idle
  /\ lineage[d] # None /\ d # disk /\ ~Refused(d)
  /\ Replaces(d)
  /\ owner' = [new |-> d, old |-> disk]
  /\ UNCHANGED <<trouble, lineage, rowVars, phase, being, telling, hands, cut, unheard>>

-----------------------------------------------------------------------------
(* The notice that somebody rewrote it. *)

\* Mutant of Rewritten: the told-stamp of an earlier rewrite is not cleared.
RewrittenKeepsTold ==
  /\ due' = due
  /\ unheard' = "yes"
  /\ telling' = IF telling = "composed" THEN "overtaken" ELSE telling

\* stamp_soul_rewritten: a fresh rewrite re-arms the notice.
Rewritten ==
  /\ due' = TRUE
  /\ unheard' = "yes"
  /\ telling' = IF telling = "composed" THEN "overtaken" ELSE telling

\* The process stopped between stamp_soul and stamp_soul_rewritten.
Unstamped ==
  /\ unheard' = "slipped"
  /\ UNCHANGED <<due, telling>>

\* The rest of soul revert, under the lock.
OwnerRecords ==
  /\ owner # Idle
  /\ lineage' = Kept(owner)
  /\ sha' = owner.new
  /\ owner' = Idle
  /\ Rewritten
  /\ UNCHANGED <<trouble, disk, born, phase, being, hands, owed, cut>>

\* The bookkeeping of soul revert raised.
OwnerStops(done) ==
  /\ Trouble
  /\ owner # Idle
  /\ lineage' = IF done = "nothing" THEN lineage ELSE Kept(owner)
  /\ owed' = IF done = "nothing" THEN owed \ {owner.old} ELSE owed
  /\ IF done = "stamped" THEN sha' = owner.new /\ Unstamped
                         ELSE UNCHANGED <<sha, due, telling, unheard>>
  /\ owner' = Idle
  /\ UNCHANGED <<disk, born, phase, being, hands, cut>>

\* The felt-state injector composes the notice from the State it loaded...
Composes ==
  /\ phase = "up" /\ due /\ telling = "no"
  /\ telling' = "composed"
  /\ UNCHANGED <<trouble, disk, lineage, rowVars, phase, being, owner, ghostVars>>

\* ... and stamps that the being was told.
Tells ==
  /\ telling # "no"
  /\ telling' = "no"
  /\ due' = FALSE
  /\ unheard' = IF telling = "overtaken" THEN "slipped" ELSE "no"
  /\ UNCHANGED <<trouble, disk, lineage, sha, born, phase, being, owner, hands, owed, cut>>

-----------------------------------------------------------------------------
(* The life of the process. *)

\* register(), at the gateway's boot: an unborn being on the installer's seed
\* is to be stood up on the stance.
Registers ==
  /\ phase = "down"
  /\ phase' = IF ~born /\ disk = Seed THEN "seeding" ELSE "registered"
  /\ UNCHANGED <<trouble, disk, lineage, rowVars, being, owner, telling, ghostVars>>

\* seed_newborn_stance, after its reads: what it writes over it does not keep,
\* and a failure to record it only leaves the plugin degraded.
Seeds ==
  /\ phase = "seeding"
  /\ disk' = Stance
  /\ lineage' \in {lineage, [lineage EXCEPT ![Stance] = "genesis"]}
  /\ phase' = "registered"
  /\ UNCHANGED <<trouble, rowVars, being, owner, telling, ghostVars>>

\* Mutant of Adopted: the text on disk is recorded whatever the lineage knows.
AdoptedAnew == [lineage EXCEPT ![disk] = "human"]

\* A text that nobody has on record is the human's; a recorded one keeps its
\* author.
Adopted == IF lineage[disk] = None THEN [lineage EXCEPT ![disk] = "human"]
                                   ELSE lineage

\* needs_adoption
OutOfStep == sha # None /\ sha # disk

\* connect() with _reconcile_soul: the text on disk is adopted, and felt when
\* it is not the being's.
Connects ==
  /\ phase \in {"registered", "up"}
  /\ phase' = "up"
  /\ IF OutOfStep
       THEN /\ lineage' = Adopted
            /\ sha' = disk
            /\ IF lineage[disk] = "being"
                 THEN UNCHANGED <<due, unheard, telling>>
                 ELSE Rewritten
       ELSE UNCHANGED <<lineage, sha, due, unheard, telling>>
  /\ UNCHANGED <<trouble, disk, born, being, owner, hands, owed, cut>>

\* _reconcile_soul raised; connect() suppresses it and goes on.
ConnectsBadly(done) ==
  /\ Trouble
  /\ phase \in {"registered", "up"} /\ OutOfStep
  /\ phase' = "up"
  /\ lineage' = IF done = "nothing" THEN lineage ELSE Adopted
  /\ IF done = "stamped"
       THEN /\ sha' = disk
            /\ IF lineage[disk] = "being"
                 THEN UNCHANGED <<due, telling, unheard>>
                 ELSE Unstamped
       ELSE UNCHANGED <<sha, due, telling, unheard>>
  /\ UNCHANGED <<disk, born, being, owner, hands, owed, cut>>

\* The factory wipe: a newborn row; the soul kinds outlive the purge and the
\* file is not touched.
Resets ==
  /\ Trouble
  /\ phase # "down"
  /\ sha' = None /\ born' = FALSE /\ due' = FALSE
  /\ unheard' = "no"
  /\ UNCHANGED <<disk, lineage, phase, being, owner, telling, hands, owed,
                 cut>>

\* The process ends, whatever was under way.
Crash ==
  /\ Trouble
  /\ phase # "down"
  /\ phase' = "down"
  /\ owed' = owed \ {being.old, owner.old}
  /\ cut' = cut \cup ({being.new} \cap Words)
  /\ being' = Idle /\ owner' = Idle /\ telling' = "no"
  /\ UNCHANGED <<disk, lineage, rowVars, hands, unheard>>

Steps == {"nothing", "kept", "recorded", "stamped"}

Next ==
  \/ \E d \in Words \cup {Seed} : HumanSaves(d)
  \/ \E d \in Words : BeingWrites(d)
  \/ BeingRecords
  \/ \E done \in Steps \ {"stamped"} : BeingStops(done)
  \/ \E d \in Docs : OwnerReverts(d)
  \/ OwnerRecords
  \/ \E done \in Steps \ {"recorded"} : OwnerStops(done)
  \/ Composes \/ Tells
  \/ Registers \/ Seeds \/ Connects
  \/ \E done \in Steps \ {"kept"} : ConnectsBadly(done)
  \/ Resets \/ Crash

Spec == Init /\ [][Next]_vars

-----------------------------------------------------------------------------
(* Properties. *)

TypeOK ==
  /\ disk \in Docs
  /\ lineage \in [Docs -> Authors \cup {None}]
  /\ sha \in Docs \cup {None} /\ born \in BOOLEAN /\ due \in BOOLEAN
  /\ phase \in {"down", "seeding", "registered", "up"}
  /\ being \in Pending /\ owner \in Pending
  /\ trouble \in 0 .. MaxTrouble
  /\ telling \in {"no", "composed", "overtaken"}
  /\ hands \in [Words -> SUBSET Hands]
  /\ owed \subseteq Words /\ cut \subseteq Words
  /\ unheard \in {"no", "yes", "slipped"}

\* Words that a write of ours replaced can be put back: they are in the
\* lineage, unless the writer is still at its bookkeeping, or was stopped
\* before it kept them (soul_file.py: "Nothing a human writes is ever lost,
\* even when it loses").
Recoverable ==
  \A d \in owed : lineage[d] # None \/ d \in {being.old, owner.old}

\* The lineage credits nobody with words they did not write: a text it calls
\* the being's was written by the being, and one it calls somebody else's was
\* put there by another hand, unless the being's own record of it is still
\* under way or was cut short (soul_revisions.py, Author).
Credited ==
  \A d \in Words :
    /\ lineage[d] = "being" => "being" \in hands[d]
    /\ lineage[d] \in {"human", "unknown"} =>
         \/ "human" \in hands[d]
         \/ d \in cut \cup {being.new}

\* A rewrite by another hand is felt: until the being is told of it the notice
\* stays due.  It escapes only where a notice composed before it is stamped
\* after it, or where the process stops between the two stamps.
Felt == unheard = "yes" => due

\* What was recorded stays: no step, a factory wipe included, takes a text out
\* of the lineage, and the being's own words stay the being's (genesis.py,
\* ReplacedSoul; sqlite_store.py, purge_memory_records).
Remembered ==
  [][\A d \in Docs :
       /\ lineage[d] # None => lineage'[d] # None
       /\ lineage[d] = "being" => lineage'[d] = "being"]_vars

\* A rewrite that lands between the injector's read and its stamp is not
\* marked as told (sqlite_store.py, stamp_soul_rewrite_told: it "must not be
\* marked 'already told', or the being would never learn about it at all").
NotMarkedTold ==
  [][telling = "overtaken" /\ due /\ telling' = "no" => due']_vars

=============================================================================
