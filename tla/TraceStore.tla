----------------------------- MODULE TraceStore -----------------------------
(***************************************************************************)
(* observability.sqlite: the registry of its writer, the writer's thread   *)
(* and queue, and the ids of its events.                                   *)
(*                                                                         *)
(* register() and the being's adapter each acquire the one writer of the   *)
(* file and share it by count.  The last release forgets it first and      *)
(* flushes and stops it afterwards, so an acquire may come in between and  *)
(* start a second thread on the same file.  A tick that began before keeps *)
(* the writer it was given.                                                *)
(*                                                                         *)
(* A trace is numbered by its start, so the oldest is the least.  An event *)
(* is numbered too (ev), apart from the record_id it was minted with: ids  *)
(* begin again with each process, over a file that may hold the same ones. *)
(***************************************************************************)
EXTENDS Naturals, Sequences, FiniteSets

CONSTANTS Holders,     \* who acquires the writer
          MaxWriters,  \* bound on writers constructed in one process
          MaxEvents,   \* bound on events
          MaxQueue,    \* TraceWriter's max_queue
          MaxMishaps   \* bound on errors, timeouts and restarts

Writers == 1 .. MaxWriters
Events  == 1 .. MaxEvents

VARIABLES reg,       \* the writer in the registry, 0 if none
          refs,      \* its refcount
          hold,      \* the writer each holder has, 0 if none
          thread,    \* the thread of each writer
          releasing, \* the writers past their last release: "flush", "stop"
          inbox,     \* the queue of each writer
          txn,       \* what each writer has applied and not committed
          counter,   \* _record_id_counter
          events,    \* the event rows on disk
          misses,    \* how much of MaxMishaps has happened
          logged,    \* ghost: how many events were accepted
          early,     \* ghost: events minted before a thread raised the floor
          clashed,   \* ghost: events whose id was taken
          failed,    \* ghost: events lost to an error or a restart
          landed     \* ghost: events that were ever committed

registryVars == <<reg, refs, hold, releasing>>
ghostVars == <<logged, early, clashed, failed, landed>>
vars == <<registryVars, thread, inbox, txn, counter, events, misses, ghostVars>>

\* Items of the queue.
Event(ev, id) == [kind |-> "event", ev |-> ev, id |-> id]
Mark(kind)    == [kind |-> kind, ev |-> 0, id |-> 0]

Alive(w) == thread[w] \in {"opening", "running"}
Evs(items) == {i.ev : i \in {j \in items : j.kind = "event"}}
Queued(w)  == {inbox[w][i] : i \in 1 .. Len(inbox[w])}

Init ==
  /\ reg = 0 /\ refs = 0 /\ hold = [h \in Holders |-> 0] /\ releasing = {}
  /\ thread = [w \in Writers |-> "none"]
  /\ inbox = [w \in Writers |-> <<>>] /\ txn = [w \in Writers |-> {}]
  /\ counter = 0
  /\ events = {} /\ misses = 0
  /\ logged = 0 /\ early = {} /\ clashed = {} /\ failed = {} /\ landed = {}

\* Cap of the model.
Miss == misses < MaxMishaps /\ misses' = misses + 1

-----------------------------------------------------------------------------
(* The registry. *)

\* acquire_trace_writer: the first acquire constructs the writer; start() is
\* idempotent and revives a thread that is not alive.
Acquires(h) ==
  /\ hold[h] = 0
  /\ \E w \in Writers :
       /\ IF reg = 0 THEN thread[w] = "none" /\ \A v \in 1 .. (w - 1) : thread[v] # "none"
                     ELSE w = reg
       /\ reg' = w /\ hold' = [hold EXCEPT ![h] = w]
       /\ thread' = IF Alive(w) THEN thread ELSE [thread EXCEPT ![w] = "opening"]
  /\ refs' = refs + 1
  /\ UNCHANGED <<releasing, inbox, txn, counter, events, misses, ghostVars>>

\* Mutant of Forgets: the count is not asked.
ForgetsAnyway == TRUE

\* The last reference is going.
Forgets == refs = 1

\* release_trace_writer under its lock.
Releases(h) ==
  /\ hold[h] # 0
  /\ hold' = [hold EXCEPT ![h] = 0]
  /\ refs' = refs - 1
  /\ IF Forgets
       THEN reg' = 0 /\ releasing' = releasing \cup {[of |-> reg, step |-> "flush"]}
       ELSE UNCHANGED <<reg, releasing>>
  /\ UNCHANGED <<thread, inbox, txn, counter, events, misses, ghostVars>>

\* The rest of a last release, outside the lock: put the marker or the stop,
\* unless the thread is gone or the queue stays full.
ReleaseGoesOn(r) ==
  /\ r \in releasing
  /\ releasing' = (releasing \ {r}) \cup
                    (IF r.step = "flush" THEN {[r EXCEPT !.step = "stop"]} ELSE {})
  /\ \/ /\ Alive(r.of) /\ Len(inbox[r.of]) < MaxQueue
        /\ inbox' = [inbox EXCEPT ![r.of] = Append(@, Mark(r.step))]
        /\ UNCHANGED misses
     \/ /\ ~Alive(r.of)
        /\ UNCHANGED <<inbox, misses>>
     \/ /\ Miss
        /\ Alive(r.of) /\ Len(inbox[r.of]) >= MaxQueue
        /\ UNCHANGED inbox
  /\ UNCHANGED <<reg, refs, hold, thread, txn, counter, events, ghostVars>>

-----------------------------------------------------------------------------
(* Those who write. *)

\* _submit: put_nowait, or the record is dropped.
Put(w, item) ==
  inbox' = IF Len(inbox[w]) < MaxQueue THEN [inbox EXCEPT ![w] = Append(@, item)] ELSE inbox

Given(w) == thread[w] # "none"

\* SpanLogger._emit: mint the id, submit; only an accepted event is projected
\* to the ring and the human log.
Logs(w) ==
  LET ev == logged + 1 IN
  /\ Given(w) /\ ev \in Events /\ counter <= MaxEvents
  /\ counter' = counter + 1
  /\ Put(w, Event(ev, counter + 1))
  /\ IF Len(inbox[w]) < MaxQueue
       THEN /\ logged' = ev
            /\ early' = IF \E v \in Writers : thread[v] \in {"running", "ended"}
                          THEN early ELSE early \cup {ev}
       ELSE UNCHANGED <<logged, early>>
  /\ UNCHANGED <<registryVars, thread, txn, events, misses, clashed, failed, landed>>

-----------------------------------------------------------------------------
(* The thread. *)

RowIds(rows) == {e.id : e \in rows}

\* Mutant of HighestId: the counter of a new process is left where it is.
FloorIgnored == counter

\* _ensure_record_id_floor over _max_event_record_id.
HighestId == IF \E i \in RowIds(events) : i > counter
               THEN CHOOSE i \in RowIds(events) : \A j \in RowIds(events) : i >= j
               ELSE counter

\* _run: open the file and raise the floor...
Starts(w) ==
  /\ thread[w] = "opening"
  /\ thread' = [thread EXCEPT ![w] = "running"]
  /\ counter' = HighestId
  /\ UNCHANGED <<registryVars, inbox, txn, events, misses, ghostVars>>

\* ... or the open fails and the thread returns.
StartFails(w) ==
  /\ Miss
  /\ thread[w] = "opening"
  /\ thread' = [thread EXCEPT ![w] = "failed"]
  /\ UNCHANGED <<registryVars, inbox, txn, counter, events, ghostVars>>

Takes(w) ==
  /\ thread[w] = "running" /\ inbox[w] # <<>>
  /\ inbox' = [inbox EXCEPT ![w] = Tail(@)]

\* The file is in no other writer's transaction.
Writable(w) == \A v \in Writers \ {w} : txn[v] = {}

Taken(w, item) == item.id \in RowIds(events \cup txn[w])

\* _apply: an event whose record_id is taken is an IntegrityError.
Applies(w) ==
  /\ Takes(w) /\ Writable(w)
  /\ Head(inbox[w]).kind = "event"
  /\ IF Taken(w, Head(inbox[w]))
       THEN clashed' = clashed \cup {Head(inbox[w]).ev} /\ txn' = txn
       ELSE clashed' = clashed /\ txn' = [txn EXCEPT ![w] = @ \cup {Head(inbox[w])}]
  /\ UNCHANGED <<registryVars, thread, counter, events, misses,
                 logged, early, failed, landed>>

\* The write raised: counted and dropped.
ApplyFails(w) ==
  /\ Miss
  /\ Takes(w)
  /\ Head(inbox[w]).kind = "event"
  /\ failed' = failed \cup Evs({Head(inbox[w])})
  /\ UNCHANGED <<registryVars, thread, txn, counter, events,
                 logged, early, clashed, landed>>

\* _commit, and on some commits retention (Retention.tla): whole traces go,
\* whichever they are here.
CommitsTxn(w) ==
  /\ landed' = landed \cup Evs(txn[w])
  /\ txn' = [txn EXCEPT ![w] = {}]
  /\ \E kept \in SUBSET (events \cup txn[w]) : events' = kept

\* A full batch or an idle wake.
Commits(w) ==
  /\ thread[w] = "running" /\ txn[w] # {}
  /\ CommitsTxn(w)
  /\ UNCHANGED <<registryVars, thread, inbox, counter, misses,
                 logged, early, clashed, failed>>

\* Mutant of Finishes: the stop returns without a last commit.
FinishesAtOnce(w) ==
  /\ Takes(w)
  /\ Head(inbox[w]).kind \in {"flush", "stop"}
  /\ IF Head(inbox[w]).kind = "stop" \/ txn[w] = {}
       THEN UNCHANGED <<events, landed>> /\ txn' = [txn EXCEPT ![w] = {}]
       ELSE CommitsTxn(w)
  /\ thread' = IF Head(inbox[w]).kind = "stop" THEN [thread EXCEPT ![w] = "ended"] ELSE thread
  /\ UNCHANGED <<registryVars, counter, misses, logged, early, clashed, failed>>

\* A flush marker (a release's; a reader's is the same), or the stop: commit
\* what is applied; after a stop return.
Finishes(w) ==
  /\ Takes(w)
  /\ Head(inbox[w]).kind \in {"flush", "stop"}
  /\ IF txn[w] = {} THEN UNCHANGED <<txn, events, landed>> ELSE CommitsTxn(w)
  /\ thread' = IF Head(inbox[w]).kind = "stop" THEN [thread EXCEPT ![w] = "ended"] ELSE thread
  /\ UNCHANGED <<registryVars, counter, misses, logged, early, clashed, failed>>

\* The process ends and a new one begins: threads are daemons, ids start over.
Restarts ==
  /\ Miss
  /\ reg' = 0 /\ refs' = 0 /\ hold' = [h \in Holders |-> 0] /\ releasing' = {}
  /\ thread' = [w \in Writers |-> "none"]
  /\ inbox' = [w \in Writers |-> <<>>] /\ txn' = [w \in Writers |-> {}]
  /\ counter' = 0
  /\ failed' = failed \cup UNION {Evs(Queued(w) \cup txn[w]) : w \in Writers}
  /\ UNCHANGED <<events, logged, early, clashed, landed>>

Next ==
  \/ \E h \in Holders : Acquires(h) \/ Releases(h)
  \/ \E r \in releasing : ReleaseGoesOn(r)
  \/ \E w \in Writers :
       Logs(w) \/ Starts(w) \/ StartFails(w) \/ Applies(w) \/ ApplyFails(w) \/ Commits(w) \/ Finishes(w)
  \/ Restarts

Spec == Init /\ [][Next]_vars

-----------------------------------------------------------------------------
(* Properties. *)

TypeOK ==
  /\ reg \in Writers \cup {0} /\ refs \in Nat
  /\ hold \in [Holders -> Writers \cup {0}]
  /\ thread \in [Writers -> {"none", "opening", "running", "failed", "ended"}]
  /\ releasing \subseteq [of : Writers, step : {"flush", "stop"}]
  /\ counter \in Nat
  /\ misses \in 0 .. MaxMishaps
  /\ logged \in 0 .. MaxEvents
  /\ early \subseteq Events /\ clashed \subseteq Events
  /\ failed \subseteq Events /\ landed \subseteq Events

\* A writer that somebody holds is not stopped under them, however the
\* acquires and releases of the others fall (trace_store.py: "Singleton per
\* db-path with refcount").
HeldRuns ==
  \A h \in Holders : hold[h] # 0 =>
    /\ hold[h] = reg
    /\ thread[reg] # "ended"
    /\ Mark("stop") \notin Queued(reg)
    /\ \A r \in releasing : r.of # reg

\* A line in the human log is in the store, on its way to it, or lost to an
\* error, a restart or a taken id: no flush, stop, reconnect or second thread
\* loses one, except that a tick may outlive its writer and submit behind the
\* stop (log.py, SpanLogger: what the log shows, the store has).  It loses its
\* id to an older row only if it was minted before a thread of this process had
\* raised the floor (trace_store.py, _ensure_record_id_floor: "so ids stay
\* monotonic over a DB that survived a restart").
Accounted ==
  \A ev \in 1 .. logged :
    \/ ev \in landed \cup failed
    \/ ev \in clashed \cap early
    \/ \E w \in Writers : ev \in Evs(Queued(w))
    \/ \E w \in Writers : thread[w] = "running" /\ ev \in Evs(txn[w])
=============================================================================
