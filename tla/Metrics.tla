------------------------------ MODULE Metrics ------------------------------
(***************************************************************************)
(* The metric registry and the sampler that writes it to metrics.sqlite.   *)
(*                                                                         *)
(* Every cycle the sampler writes the series that changed since it wrote   *)
(* them last; every HeartbeatEvery-th cycle it writes all of them, so that *)
(* retention by rows, which takes the oldest snapshots whole, leaves the   *)
(* reader a recent point.  Retention by size does not stop there: the file *)
(* is made with WAL before auto_vacuum, which then stays off, so it never  *)
(* shrinks, and once it is past max_bytes a pruning cycle may take every   *)
(* snapshot, its own included; the next heartbeat writes them anew.  What  *)
(* it wrote last the sampler only remembers, before it writes.             *)
(*                                                                         *)
(* Of the store a reader sees the newest point of each series in the       *)
(* latest run: behind[s] counts the rows of its snapshot and later ones.   *)
(***************************************************************************)
EXTENDS Naturals, FiniteSets

CONSTANTS Series,          \* a metric with its labels
          MaxValue,        \* bound on values
          Absent,          \* no value
          HeartbeatEvery,  \* MetricsSampler's heartbeat_every
          MaxRows,         \* MetricsRetentionPolicy.max_rows
          MaxFaults        \* bound on failed cycles, pauses and restarts

Values == 0 .. MaxValue

VARIABLES value,     \* MetricRegistry: the current value of each series
          last,      \* _last_written
          cycle,     \* _cycles, modulo heartbeat_every
          sampling,  \* the thread runs
          txn,       \* inserted and not committed: series |-> value
          newest,    \* the newest point of each series on disk
          behind,    \* rows on disk from that point's snapshot on
          faults,    \* how much of MaxFaults has happened
          unhealed   \* ghost: since the last heartbeat that went through a cycle
             \* failed, or retention by size took snapshots

vars == <<value, last, cycle, sampling, txn, newest, behind, faults, unhealed>>

Silence == [s \in Series |-> Absent]

Init ==
  /\ value = Silence /\ last = Silence /\ cycle = 0 /\ sampling = FALSE
  /\ txn = Silence /\ newest = Silence /\ behind = [s \in Series |-> 0]
  /\ faults = 0 /\ unhealed = FALSE

\* Cap of the model.
Fault == faults < MaxFaults /\ faults' = faults + 1

\* inc, set or observe from any thread gives a series another value, in a gauge
\* maybe one it has had; a bad emission changes nothing.
Emits(s, v) ==
  /\ value[s] # v
  /\ value' = [value EXCEPT ![s] = v]
  /\ UNCHANGED <<last, cycle, sampling, txn, newest, behind, faults, unhealed>>

\* acquire_metrics_sampler: a new sampler has written nothing yet.
Starts ==
  /\ ~sampling
  /\ sampling' = TRUE
  /\ last' = Silence /\ cycle' = 0
  /\ UNCHANGED <<value, txn, newest, behind, faults, unhealed>>

\* Mutant of Forced: the heartbeat is left out.
NeverForced == FALSE

Forced == cycle = 0

\* The series a cycle inserts (snapshot_rows, skip-unchanged).
Due == {s \in Series : value[s] # Absent /\ (Forced \/ last[s] # value[s])}

Remembers ==
  last' = [s \in Series |-> IF s \in Due THEN value[s] ELSE last[s]]

NextCycle ==
  /\ sampling
  /\ cycle' = (cycle + 1) % HeartbeatEvery

\* The store after a commit of "rows": an older uncommitted snapshot goes in
\* before the cycle's own.
Count(rows) == Cardinality({s \in Series : rows[s] # Absent})
Behind(rows, old) ==
  [s \in Series |-> IF rows[s] # Absent THEN Count(rows) ELSE old[s] + Count(rows)]
Newest(rows, old) == [s \in Series |-> IF rows[s] # Absent THEN rows[s] ELSE old[s]]
Sampled == [s \in Series |-> IF s \in Due THEN value[s] ELSE Absent]

Counted ==
  [s \in Series |-> IF Behind(Sampled, Behind(txn, behind))[s] > MaxRows
                     THEN MaxRows + 1 ELSE Behind(Sampled, Behind(txn, behind))[s]]
Written == Newest(Sampled, Newest(txn, newest))

\* prune_metric_samples: the oldest snapshots go until "left" rows are left.
Trimmed(points, rows, left) ==
  [s \in Series |-> IF rows[s] > left THEN Absent ELSE points[s]]

\* _sample_into, and on some cycles _maybe_prune, by rows.
Cycles ==
  /\ NextCycle /\ Remembers
  /\ txn' = Silence
  /\ behind' = Counted
  /\ newest' \in {Written, Trimmed(Written, Counted, MaxRows)}
  /\ unhealed' = (unhealed /\ ~Forced)
  /\ UNCHANGED <<value, sampling, faults>>

\* _maybe_prune of a file past max_bytes: snapshots go until it is not, until an
\* error stops it, or until there are none, the one just written included.
CyclesOversize ==
  /\ NextCycle /\ Remembers
  /\ txn' = Silence
  /\ behind' = Counted
  /\ \E left \in 0 .. MaxRows : newest' = Trimmed(Written, Counted, left)
  /\ unhealed' = TRUE
  /\ UNCHANGED <<value, sampling, faults>>

\* The cycle raised before it looked at the series (sync_metric_defs)...
DefsFail ==
  /\ Fault
  /\ NextCycle
  /\ unhealed' = TRUE
  /\ UNCHANGED <<value, last, sampling, txn, newest, behind>>

\* ... at the insert, with the values already remembered...
InsertFails ==
  /\ Fault
  /\ NextCycle /\ Remembers
  /\ unhealed' = TRUE
  /\ UNCHANGED <<value, sampling, txn, newest, behind>>

\* ... or at the commit: the rows wait in the open transaction.
CommitFails ==
  /\ Fault
  /\ NextCycle /\ Remembers
  /\ txn' = Newest(Sampled, txn)
  /\ UNCHANGED <<value, sampling, newest, behind, unhealed>>

\* The first cycle after the machine slept past max_age_seconds: of the points
\* it leaves only its own.
CyclesAfterSleep ==
  /\ Fault
  /\ NextCycle /\ Remembers
  /\ txn' = Silence
  /\ newest' = Sampled /\ behind' = [s \in Series |-> Count(Sampled)]
  /\ unhealed' = ~Forced
  /\ UNCHANGED <<value, sampling>>

\* release_metrics_sampler: the thread commits what is open and ends.
Stops ==
  /\ sampling
  /\ sampling' = FALSE
  /\ txn' = Silence
  /\ newest' = Newest(txn, newest) /\ behind' = Behind(txn, behind)
  /\ UNCHANGED <<value, last, cycle, faults, unhealed>>

\* A new process is a new run: the reader never looks past its first sample.
Restarts ==
  /\ Fault
  /\ value' = Silence /\ last' = Silence /\ cycle' = 0 /\ sampling' = FALSE
  /\ txn' = Silence /\ newest' = Silence /\ behind' = [s \in Series |-> 0]
  /\ unhealed' = FALSE

Next ==
  \/ \E s \in Series, v \in Values : Emits(s, v)
  \/ Starts \/ Cycles \/ CyclesOversize \/ DefsFail \/ InsertFails \/ CommitFails \/ CyclesAfterSleep
  \/ Stops \/ Restarts

Spec == Init /\ [][Next]_vars

-----------------------------------------------------------------------------
(* Properties. *)

TypeOK ==
  /\ value \in [Series -> Values \cup {Absent}]
  /\ last \in [Series -> Values \cup {Absent}]
  /\ cycle \in 0 .. (HeartbeatEvery - 1)
  /\ sampling \in BOOLEAN
  /\ txn \in [Series -> Values \cup {Absent}]
  /\ newest \in [Series -> Values \cup {Absent}]
  /\ behind \in [Series -> Nat]
  /\ faults \in 0 .. MaxFaults /\ unhealed \in BOOLEAN

\* What the sampler believes it wrote is what a reader finds: the newest point
\* of a series that it would skip as unchanged is there and has that value,
\* although retention by rows takes old points and failed cycles are remembered
\* as written (metrics_store.py, MetricsRetentionPolicy: "the heartbeat guarantees
\* a recent point per series survives").  It does not hold from a failed cycle, or
\* from one whose retention by size took points, to the next heartbeat that goes
\* through and does not prune by size itself.
Believed ==
  \A s \in Series : sampling /\ last[s] # Absent /\ ~unhealed =>
    last[s] = Newest(txn, newest)[s]
=============================================================================
