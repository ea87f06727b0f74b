----------------------------- MODULE Retention -----------------------------
(***************************************************************************)
(* Retention in observability.sqlite, and the index of exchanges in flight *)
(* that it spares.                                                         *)
(*                                                                         *)
(* A launch submits an index row for its origin trace; a verdict, a        *)
(* rollback or an admin command ends the exchange in the State and submits *)
(* the resolution.  Both go through the writer's queue with everybody's    *)
(* rows, so retention, which runs on the writer's thread after a commit,   *)
(* sees an exchange later than the State does.                             *)
(*                                                                         *)
(* A trace is numbered by its start: the oldest is the least.              *)
(***************************************************************************)
EXTENDS Naturals, Sequences, FiniteSets

CONSTANTS LastTrace,   \* bound on traces
          MaxRows,     \* bound on the rows of one trace
          MaxTraces,   \* RetentionPolicy.max_traces
          MaxLine,     \* the writer's max_queue
          MaxBatch,    \* its batch_size
          MaxLosses    \* bound on failed writes, lost stamps and restarts

Traces == 1 .. LastTrace

VARIABLES sent,      \* how many rows of each trace were submitted
          flight,    \* each trace's exchange: "none", "flying", "over"
          line,      \* the writer's queue
          batch,     \* what its connection applied and has not committed
          stored,    \* how many rows of each trace are on disk
          index,     \* trace_correlations, by origin trace
          losses,    \* how much of MaxLosses has happened
          astray     \* ghost: traces whose resolution was lost

vars == <<sent, flight, line, batch, stored, index, losses, astray>>

Item(kind, x) == [kind |-> kind, of |-> x]
Items == [kind : {"row", "open", "resolve"}, of : Traces]

Init ==
  /\ sent = [x \in Traces |-> 0] /\ flight = [x \in Traces |-> "none"]
  /\ line = <<>> /\ batch = <<>>
  /\ stored = [x \in Traces |-> 0] /\ index = [x \in Traces |-> "none"]
  /\ losses = 0 /\ astray = {}

\* Cap of the model.
Loss == losses < MaxLosses /\ losses' = losses + 1

Lost(items) == astray \cup {i.of : i \in {j \in items : j.kind = "resolve"}}
Ranged(q) == {q[i] : i \in 1 .. Len(q)}

\* _submit: put_nowait, or the record is dropped.
Submits(item) ==
  IF Len(line) < MaxLine
    THEN line' = Append(line, item) /\ astray' = astray
    ELSE line' = line /\ astray' = Lost({item})

-----------------------------------------------------------------------------
(* Those who write. *)

\* A span or an event of trace x; a trace starts after those before it.
Records(x) ==
  /\ sent[x] < MaxRows
  /\ \A y \in 1 .. (x - 1) : sent[y] > 0
  /\ sent' = [sent EXCEPT ![x] = @ + 1]
  /\ Submits(Item("row", x))
  /\ UNCHANGED <<flight, batch, stored, index, losses>>

\* CognitionLauncher: an exchange is launched under trace x.
Launches(x) ==
  /\ flight[x] = "none" /\ sent[x] > 0
  /\ flight' = [flight EXCEPT ![x] = "flying"]
  /\ Submits(Item("open", x))
  /\ UNCHANGED <<sent, batch, stored, index, losses>>

\* The verdict's frame, _rollback and the admin commands.
Resolves(x) ==
  /\ flight[x] = "flying"
  /\ flight' = [flight EXCEPT ![x] = "over"]
  /\ Submits(Item("resolve", x))
  /\ UNCHANGED <<sent, batch, stored, index, losses>>

\* An admin command in a process without the writer ends it unseen.
ResolvesUnseen(x) ==
  /\ Loss
  /\ flight[x] = "flying"
  /\ flight' = [flight EXCEPT ![x] = "over"]
  /\ astray' = astray \cup {x}
  /\ UNCHANGED <<sent, line, batch, stored, index>>

\* resolved_grace_days have passed.
GraceEnds(x) ==
  /\ index[x] = "resolved"
  /\ index' = [index EXCEPT ![x] = "past"]
  /\ UNCHANGED <<sent, flight, line, batch, stored, losses, astray>>

-----------------------------------------------------------------------------
(* The writer thread. *)

Applies ==
  /\ line # <<>> /\ Len(batch) < MaxBatch
  /\ line' = Tail(line) /\ batch' = Append(batch, Head(line))
  /\ UNCHANGED <<sent, flight, stored, index, losses, astray>>

\* The write raised: counted and dropped.
ApplyFails ==
  /\ Loss
  /\ line # <<>>
  /\ line' = Tail(line)
  /\ astray' = Lost({Head(line)})
  /\ UNCHANGED <<sent, flight, batch, stored, index>>

In(item) == \E i \in 1 .. Len(batch) : batch[i] = item

\* The tables with the batch in them.
StoredWith == [x \in Traces |-> stored[x] +
                 Cardinality({i \in 1 .. Len(batch) : batch[i] = Item("row", x)})]

\* Mutant of IndexWith: a resolution does not reach a row that is there.
IndexStuck ==
  [x \in Traces |->
     IF index[x] # "none" THEN index[x]
     ELSE IF In(Item("resolve", x)) THEN "resolved"
     ELSE IF In(Item("open", x)) THEN "open" ELSE "none"]

\* The upsert of a correlation never takes a resolution back.
IndexWith ==
  [x \in Traces |->
     IF In(Item("resolve", x)) THEN "resolved"
     ELSE IF In(Item("open", x)) /\ index[x] = "none" THEN "open"
     ELSE index[x]]

\* Mutant of Protected: only the grace of a resolved exchange protects.
ProtectedByGrace(marks) == {x \in Traces : marks[x] = "resolved"}

\* _protected_trace_ids.  Nobody in the plugin passes the anchors of the State,
\* so the index is all there is.
Protected(marks) == {x \in Traces : marks[x] \in {"open", "resolved"}}

\* prune_traces: of the traces with a start, the oldest that are not protected,
\* by age, by count (at least "excess" of them) and by size.
Started == {x \in Traces : StoredWith[x] > 0}
Pruned(cutoff) == {x \in Started \ Protected(IndexWith) : x < cutoff}
CountMet(cutoff) ==
  \/ Pruned(cutoff) = Started \ Protected(IndexWith)
  \/ Cardinality(Started) <= MaxTraces + Cardinality(Pruned(cutoff))

\* _commit, without retention.
Commits ==
  /\ batch # <<>>
  /\ batch' = <<>>
  /\ stored' = StoredWith /\ index' = IndexWith
  /\ UNCHANGED <<sent, flight, line, losses, astray>>

\* _commit with _maybe_prune; _delete_trace takes the trace from all tables.
CommitsAndPrunes(cutoff) ==
  /\ batch # <<>>
  /\ batch' = <<>>
  /\ CountMet(cutoff)
  /\ stored' = [x \in Traces |-> IF x \in Pruned(cutoff) THEN 0 ELSE StoredWith[x]]
  /\ index' = [x \in Traces |-> IF x \in Pruned(cutoff) THEN "none" ELSE IndexWith[x]]
  /\ UNCHANGED <<sent, flight, line, losses, astray>>

\* The process ends and a new one begins; the State keeps what is in flight.
Restarts ==
  /\ Loss
  /\ line' = <<>> /\ batch' = <<>>
  /\ astray' = Lost(Ranged(line \o batch))
  /\ UNCHANGED <<sent, flight, stored, index>>

Next ==
  \/ \E x \in Traces : Records(x) \/ Launches(x) \/ Resolves(x) \/ ResolvesUnseen(x)
                       \/ GraceEnds(x)
  \/ Applies \/ ApplyFails \/ Commits
  \/ \E cutoff \in 0 .. LastTrace + 1 : CommitsAndPrunes(cutoff)
  \/ Restarts

Spec == Init /\ [][Next]_vars

-----------------------------------------------------------------------------
(* Properties. *)

TypeOK ==
  /\ sent \in [Traces -> 0 .. MaxRows]
  /\ flight \in [Traces -> {"none", "flying", "over"}]
  /\ line \in Seq(Items) /\ batch \in Seq(Items)
  /\ stored \in [Traces -> Nat]
  /\ index \in [Traces -> {"none", "open", "resolved", "past"}]
  /\ losses \in 0 .. MaxLosses
  /\ astray \subseteq Traces

\* Retention takes a whole trace with its index row, and never the trace of an
\* exchange that is in flight and indexed, however the other axes press
\* (trace_store.py: "always a WHOLE trace at a time, and NEVER an
\* in-flight/unresolved one").
Spares ==
  \A x \in Traces : stored'[x] < stored[x] =>
     /\ stored'[x] = 0 /\ index'[x] = "none"
     /\ ~(flight[x] = "flying" /\ index[x] = "open")
Spared == [][Spares]_vars

\* An exchange that ended is not protected forever: while the index says it is
\* open its resolution is on the way, unless a record was lost (proactive.py,
\* _rollback: "otherwise the unresolved index row would protect the origin
\* trace from retention forever").
Reclaimable ==
  \A x \in Traces : flight[x] = "over" /\ index[x] = "open" =>
    Item("resolve", x) \in Ranged(line \o batch) \/ x \in astray
=============================================================================
