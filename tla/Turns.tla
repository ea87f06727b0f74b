-------------------------------- MODULE Turns --------------------------------
(***************************************************************************)
(* The trace of a host turn: TurnRecorder, and the one writer thread that  *)
(* carries its spans to observability.sqlite.                              *)
(*                                                                         *)
(* The host opens a turn from its first pre_llm_call, runs injectors and   *)
(* tools under it, several at once, and closes it from post_llm_call, which*)
(* it may never call, or call twice, or call after the session went on.    *)
(* Every span is submitted to a bounded queue without waiting; a full queue*)
(* drops it.  The thread upserts the rows in order and commits in batches. *)
(*                                                                         *)
(* A root is the number of its opening, so a later root was opened later.  *)
(* excused is a ghost: the roots that lost a row, their entry or a commit. *)
(***************************************************************************)
EXTENDS Naturals, Sequences, FiniteSets

CONSTANTS Turns,       \* (session_id, turn_id) of the host
          SessionOf,   \* the session of each turn
          Calls,       \* injectors and tool calls that may be under way
          MaxEntries,  \* TurnRecorder's max_entries
          MaxQueue,    \* TraceWriter's max_queue
          MaxRoots,    \* bound on the roots opened
          MaxMishaps   \* bound on write errors, failed commits and restarts

Roots    == 1 .. MaxRoots
Verdicts == {"closed", "abandoned"}  \* "closed": with the host's status

VARIABLES turnOf,    \* the turn of each root opened so far
          ledger,    \* the roots of the open turns
          opening,   \* the turn that is being opened, under the lock
          closing,   \* [of, step] of each close past its pop
          calls,     \* [call, of, done] of each child span begun; of 0: bare
          queue,     \* the writer's queue
          rows,      \* the status of each root, as the writer's connection sees it
          kids,      \* roots under which it sees a child row
          saved,     \* rows as committed
          savedKids, \* kids as committed
          pending,   \* the thread knows of applied rows to commit
          mishaps,   \* how much of MaxMishaps has happened
          excused

writerVars == <<rows, kids, saved, savedKids, pending>>
vars == <<turnOf, ledger, opening, closing, calls, queue, writerVars, mishaps, excused>>

Opened == 1 .. Len(turnOf)

\* A row for a root: its status, or a child under it.
Root(r, status) == [of |-> r, status |-> status]
Child(r)        == [of |-> r, status |-> "child"]

\* TraceWriter._submit: put_nowait...
Submitted(item) == IF Len(queue) < MaxQueue THEN Append(queue, item) ELSE queue
\* ... or the record is dropped.
Refused(item) == IF Len(queue) < MaxQueue THEN {} ELSE {item.of}

Init ==
  /\ turnOf = <<>> /\ ledger = {} /\ opening = {} /\ closing = {} /\ calls = {}
  /\ queue = <<>>
  /\ rows = [r \in Roots |-> "none"] /\ saved = [r \in Roots |-> "none"]
  /\ kids = {} /\ savedKids = {} /\ pending = FALSE
  /\ mishaps = 0 /\ excused = {}

-----------------------------------------------------------------------------
(* The recorder. *)

LockFree == opening = {}

\* The open turns of t's session.
Stale(t) == {r \in ledger : SessionOf[turnOf[r]] = SessionOf[t]}

\* Mutant of Without: a turn that was told its verdict keeps its entry.
WithoutNone(gone) == ledger
Without(gone) == ledger \ gone

\* Mutant of Enters: the stale turns leave the ledger and nothing is recorded.
EntersSilently(t) ==
  /\ LockFree /\ Len(turnOf) < MaxRoots
  /\ \A r \in ledger : turnOf[r] # t
  /\ opening' = {t}
  /\ ledger' = Without(Stale(t))
  /\ UNCHANGED <<turnOf, closing, calls, queue, excused, writerVars, mishaps>>

\* ensure_turn, up to _reconcile_session_locked: an open turn is left as it is,
\* and one of the same session that is still open is abandoned.
Enters(t) ==
  /\ LockFree /\ Len(turnOf) < MaxRoots
  /\ \A r \in ledger : turnOf[r] # t
  /\ opening' = {t}
  /\ ledger' = Without(Stale(t))
  /\ \/ \E r \in Stale(t) :
          /\ queue' = Submitted(Root(r, "abandoned"))
          /\ excused' = excused \cup Refused(Root(r, "abandoned"))
     \/ Stale(t) = {} /\ UNCHANGED <<queue, excused>>
  /\ UNCHANGED <<turnOf, closing, calls, writerVars, mishaps>>

\* _evict_locked: entries older than the time to live go, then the oldest
\* beyond max_entries.
Survivors(entries, oldest) ==
  {r \in entries : r >= oldest /\ Cardinality({s \in entries : s > r}) < MaxEntries}

\* Mutant of Opens: the root is persisted when it closes, and not before.
OpensLazily(t) ==
  LET r == Len(turnOf) + 1 IN
  /\ opening = {t}
  /\ opening' = {}
  /\ turnOf' = Append(turnOf, t)
  /\ \E oldest \in 1 .. r :
       /\ ledger' = Survivors(ledger \cup {r}, oldest)
       /\ excused' = excused \cup ((ledger \cup {r}) \ ledger')
  /\ UNCHANGED <<closing, calls, queue, writerVars, mishaps>>

\* The rest of ensure_turn: persist the root open, then let others see it.
Opens(t) ==
  LET r == Len(turnOf) + 1 IN
  /\ opening = {t}
  /\ opening' = {}
  /\ turnOf' = Append(turnOf, t)
  /\ queue' = Submitted(Root(r, "open"))
  /\ \E oldest \in 1 .. r :
       /\ ledger' = Survivors(ledger \cup {r}, oldest)
       /\ excused' = excused \cup Refused(Root(r, "open"))
                             \cup ((ledger \cup {r}) \ ledger')
  /\ UNCHANGED <<closing, calls, writerVars, mishaps>>

\* close_turn pops the entry under the lock; without one it does nothing.
Closes(t) ==
  /\ LockFree
  /\ \E r \in ledger :
       /\ turnOf[r] = t
       /\ ledger' = Without({r})
       /\ closing' = closing \cup {[of |-> r, step |-> "child"]}
  /\ UNCHANGED <<turnOf, opening, calls, queue, writerVars, mishaps, excused>>

\* Then, outside the lock, the turn.completion child...
Completes(c) ==
  /\ c \in closing /\ c.step = "child"
  /\ closing' = (closing \ {c}) \cup {[c EXCEPT !.step = "root"]}
  /\ queue' = Submitted(Child(c.of))
  /\ excused' = excused \cup Refused(Child(c.of))
  /\ UNCHANGED <<turnOf, ledger, opening, calls, writerVars, mishaps>>

\* ... and the root with its verdict.
Ends(c) ==
  /\ c \in closing /\ c.step = "root"
  /\ closing' = closing \ {c}
  /\ queue' = Submitted(Root(c.of, "closed"))
  /\ excused' = excused \cup Refused(Root(c.of, "closed"))
  /\ UNCHANGED <<turnOf, ledger, opening, calls, writerVars, mishaps>>

\* The root a child of turn t hangs from, or none.
Parent(t) ==
  IF \E r \in ledger : turnOf[r] = t THEN CHOOSE r \in ledger : turnOf[r] = t ELSE 0

\* injector_span and tool_open: look up the parent (_ledger_ctx).
CallBegins(call, t) ==
  /\ LockFree
  /\ \A k \in calls : k.call # call
  /\ calls' = calls \cup {[call |-> call, of |-> Parent(t), done |-> FALSE]}
  /\ UNCHANGED <<turnOf, ledger, opening, closing, queue, writerVars, mishaps, excused>>

\* What is left of a call that ended.
Over(k) == [k EXCEPT !.of = 0, !.done = TRUE]

\* _close_injector and tool_close: persist the child.
CallEnds(k) ==
  /\ k \in calls /\ ~k.done
  /\ calls' = (calls \ {k}) \cup {Over(k)}
  /\ queue' = Submitted(Child(k.of))
  /\ excused' = excused \cup Refused(Child(k.of))
  /\ UNCHANGED <<turnOf, ledger, opening, closing, writerVars, mishaps>>

-----------------------------------------------------------------------------
(* The writer thread, and the end of the process. *)

\* Cap of the model.
Mishap == mishaps < MaxMishaps /\ mishaps' = mishaps + 1

\* _apply: the upsert takes the status of the later row.
Applies ==
  /\ queue # <<>>
  /\ queue' = Tail(queue)
  /\ IF Head(queue).status = "child"
       THEN kids' = kids \cup {Head(queue).of} /\ rows' = rows
       ELSE kids' = kids /\ rows' = [rows EXCEPT ![Head(queue).of] = Head(queue).status]
  /\ pending' = TRUE
  /\ UNCHANGED <<turnOf, ledger, opening, closing, calls, saved, savedKids, mishaps, excused>>

\* The write raised: counted and dropped.
ApplyFails ==
  /\ Mishap
  /\ queue # <<>>
  /\ queue' = Tail(queue)
  /\ excused' = excused \cup {Head(queue).of}
  /\ UNCHANGED <<turnOf, ledger, opening, closing, calls, writerVars>>

\* A full batch, an idle wake or a flush.
Commits ==
  /\ pending
  /\ pending' = FALSE
  /\ saved' = rows /\ savedKids' = kids
  /\ UNCHANGED <<turnOf, ledger, opening, closing, calls, queue, rows, kids, mishaps, excused>>

Uncommitted == {r \in Roots : rows[r] # saved[r]} \cup (kids \ savedKids)

\* The commit raised.  The rows stay in the open transaction, and the thread
\* no longer counts them as pending.
CommitFails ==
  /\ Mishap
  /\ pending
  /\ pending' = FALSE
  /\ excused' = excused \cup Uncommitted
  /\ UNCHANGED <<turnOf, ledger, opening, closing, calls, queue, rows, kids, saved, savedKids>>

\* The process ends, and a new one begins.
Restarts ==
  /\ Mishap
  /\ ledger' = {} /\ opening' = {} /\ closing' = {} /\ queue' = <<>>
  /\ calls' = {Over(k) : k \in calls}
  /\ rows' = saved /\ kids' = savedKids /\ pending' = FALSE
  /\ excused' = excused \cup {r \in Opened : saved[r] \notin Verdicts} \cup Uncommitted
  /\ UNCHANGED <<turnOf, saved, savedKids>>

Next ==
  \/ \E t \in Turns : Enters(t) \/ Opens(t) \/ Closes(t)
  \/ \E c \in closing : Completes(c) \/ Ends(c)
  \/ \E call \in Calls, t \in Turns : CallBegins(call, t)
  \/ \E k \in calls : CallEnds(k)
  \/ Applies \/ ApplyFails \/ Commits \/ CommitFails \/ Restarts

Spec == Init /\ [][Next]_vars

-----------------------------------------------------------------------------
(* Properties. *)

Statuses == Verdicts \cup {"open", "none"}

TypeOK ==
  /\ turnOf \in Seq(Turns) /\ Len(turnOf) <= MaxRoots
  /\ ledger \subseteq Opened /\ opening \subseteq Turns
  /\ closing \subseteq [of : Opened, step : {"child", "root"}]
  /\ calls \subseteq [call : Calls, of : Opened \cup {0}, done : BOOLEAN]
  /\ queue \in Seq([of : Opened, status : Verdicts \cup {"open"}]
                     \cup [of : Opened \cup {0}, status : {"child"}])
  /\ rows \in [Roots -> Statuses] /\ saved \in [Roots -> Statuses]
  /\ kids \subseteq Opened \cup {0} /\ savedKids \subseteq kids
  /\ pending \in BOOLEAN
  /\ mishaps \in 0 .. MaxMishaps
  /\ excused \subseteq Opened \cup {0}

\* A root's verdict is the last word: once it is on disk no step changes it,
\* whatever is still queued, whoever closes the turn late or twice, and
\* although every write is an upsert (turn_recorder.py, ensure_turn: the open
\* write can never "stomp its ended_at/status back to open").
KeepsVerdicts == \A r \in Roots : saved[r] \in Verdicts => saved'[r] = saved[r]
VerdictStands == [][KeepsVerdicts]_vars

\* No turn is left open in the store by the recorder's own doing: a root
\* without a verdict is still in the ledger, in somebody's close, or in the
\* queue with its verdict, unless it was evicted or lost a row or a commit.
Fated ==
  \A r \in Opened :
    \/ r \in ledger
    \/ \E c \in closing : c.of = r
    \/ \E i \in 1 .. Len(queue) : queue[i].of = r /\ queue[i].status \in Verdicts
    \/ rows[r] \in Verdicts
    \/ r \in excused

\* A child on disk can be found from its turn: the root's row is there too,
\* although children are submitted by other threads (turn_recorder.py,
\* ensure_turn: "a crash still leaves a discoverable parent").
Discoverable ==
  \A r \in savedKids \ {0} : saved[r] # "none" \/ r \in excused
=============================================================================
