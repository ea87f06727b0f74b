------------------------------ MODULE Noticing ------------------------------
(***************************************************************************)
(* The being's private passes over its conversation: turns are buffered,   *)
(* a heartbeat claims the oldest of them for a noticing pass, the runner   *)
(* admits one internal pass at a time within a daily budget, and the       *)
(* completion frame finalizes or releases the claim (core/noticing,        *)
(* core/noticing_buffer, state/sqlite_store.SqliteBufferStore,             *)
(* adapters/internal_runner, core/internal_cognition).                     *)
(*                                                                         *)
(* The heartbeat, the completions, connect and disconnect run on the       *)
(* gateway loop; the hooks of a host turn run on an executor thread and    *)
(* reach the buffer between any two transactions of the loop.  There is    *)
(* one session lane.  A turn is its number, which is also its place in the *)
(* buffer: rows are ordered by completion.                                 *)
(***************************************************************************)
EXTENDS Naturals, FiniteSets, Sequences

CONSTANTS MaxEntries,  \* completed rows the buffer keeps
          SizeCap,     \* turns one noticing pass surveys
          Ceiling,     \* internal passes a day
          MaxTurns,    \* bounds of a behaviour: its turns,
          MaxPasses,   \* the internal launches it emits,
          MaxDays      \* and its days

ASSUME NoticingAssumption ==
  /\ {MaxEntries, SizeCap, Ceiling, MaxTurns, MaxPasses, MaxDays} \subseteq Nat
  /\ SizeCap > 0

VARIABLES
  turn,     \* the turn the host composes: is it dialogue, did it open the slot?
  turns,    \* how many turns have begun
  slot,     \* the pending slot: the turn that opened it, outlived its TTL?
  rows,     \* the turns in the buffer
  by,       \* the survey that claims a turn's row; 0: the row is complete
  text,     \* the turn whose words a turn's row carries, or carried
  db,       \* internal-cognition fields of the State row
  day,      \* today
  loop,     \* the gateway loop: idle, dead or what it does within a handler
  tasks,    \* internal passes in flight
  minted,   \* how many launches were emitted; the last correlation id
  up,       \* the platform adapter is connected
  noticed,  \* ghost: how often a turn was surveyed to the end
  started,  \* ghost: passes admitted today
  mark      \* ghost: what upset the passes since the last start

lane == <<turn, turns, slot, rows, text>>
vars == <<turn, turns, slot, rows, by, text, db, day, loop, tasks, minted, up,
          noticed, started, mark>>

Turns  == 1 .. MaxTurns
None   == 0
NoTurn == [id |-> None, dialogue |-> FALSE, opened |-> FALSE]
NoSlot == [turn |-> None, old |-> FALSE]
Idle   == [at |-> "idle"]

Init ==
  /\ turn = NoTurn /\ turns = 0 /\ slot = NoSlot
  /\ rows = {} /\ by = [t \in Turns |-> None] /\ text = [t \in Turns |-> None]
  /\ db = [pending |-> None, subject |-> FALSE, used |-> 0, day |-> 1]
  /\ day = 1 /\ loop = Idle /\ tasks = {} /\ minted = 0 /\ up = TRUE
  /\ noticed = [t \in Turns |-> 0] /\ started = 0 /\ mark = {}

-----------------------------------------------------------------------------
(* The buffer, filled by the hooks of a host turn. *)

Complete(R) == {t \in R : by[t] = None}

\* Mutant of Pruned: the cap counts, and prunes, claimed rows too.
PrunedClaimed(R) ==
  {t \in R : Cardinality({u \in R : u >= t}) <= MaxEntries}

\* Only the newest MaxEntries complete rows stay; claimed rows are immune.
Pruned(R) ==
  {t \in R : by[t] = None =>
             Cardinality({u \in Complete(R) : u >= t}) <= MaxEntries}

\* Mutant of Opened: a slot that is still open is not refreshed.
OpenedOnce(t) == IF slot = NoSlot THEN [turn |-> t, old |-> FALSE] ELSE slot

Opened(t) == [turn |-> t, old |-> FALSE]

\* pre_llm_call: a turn of dialogue opens the pending slot; the being's own
\* impulse or a command does not, nor does the injector when the graph, the
\* State or the buffer fails it: the turn goes on, with the slot as it was.
TurnStarts(dialogue, opens) ==
  /\ turn = NoTurn /\ turns < MaxTurns
  /\ opens => dialogue
  /\ turns' = turns + 1
  /\ turn' = [id |-> turns', dialogue |-> dialogue, opened |-> opens]
  /\ slot' = IF opens THEN Opened(turns') ELSE slot
  /\ UNCHANGED <<rows, by, text, db, day, loop, tasks, minted, up, noticed,
                 started, mark>>

\* post_llm_call: an answered turn of dialogue moves the slot into a row,
\* another one drops the slot.
TurnEnds(answered) ==
  /\ turn # NoTurn
  /\ IF turn.dialogue /\ answered /\ slot # NoSlot
       THEN /\ rows' = Pruned(rows \cup {turn.id})
            /\ text' = [text EXCEPT ![turn.id] = slot.turn]
       ELSE UNCHANGED <<rows, text>>
  /\ slot' = NoSlot
  /\ turn' = NoTurn
  /\ UNCHANGED <<turns, by, db, day, loop, tasks, minted, up, noticed,
                 started, mark>>

\* The host interrupts a turn, its observer fails, or the turn is the read-back
\* of a pending impulse, which never reaches the buffer: an open slot stays.
TurnLost ==
  /\ turn # NoTurn
  /\ turn' = NoTurn
  /\ UNCHANGED <<turns, slot, rows, by, text, db, day, loop, tasks, minted, up,
                 noticed, started, mark>>

\* The slot outlives pending_ttl.
SlotAges ==
  /\ slot # NoSlot /\ ~slot.old
  /\ slot' = [slot EXCEPT !.old = TRUE]
  /\ UNCHANGED <<turn, turns, rows, by, text, db, day, loop, tasks, minted, up,
                 noticed, started, mark>>

-----------------------------------------------------------------------------
(* What a frame's components decide on its snapshot. *)

UsedToday == IF db.day = day THEN db.used ELSE 0

\* Bound of the model: no launch is emitted beyond MaxPasses.
MorePasses == minted + 2 <= MaxPasses

\* Single flight, the interval between passes, the daily budget.
GatesOpen(elapsed) ==
  MorePasses /\ db.pending = None /\ elapsed /\ UsedToday < Ceiling

\* A slot past its TTL is dropped; an open one closes the whole lane.
AgedSlot == IF slot.old THEN NoSlot ELSE slot
Segment  == IF AgedSlot = NoSlot THEN Complete(rows) ELSE {}

\* Mutant of Window: the newest turns are surveyed first.
WindowNewest(seg) == {t \in seg : Cardinality({u \in seg : u >= t}) <= SizeCap}

\* The oldest SizeCap turns of the segment.
Window(seg) == {t \in seg : Cardinality({u \in seg : u <= t}) <= SizeCap}

\* The window NoticingTrigger surveys: the segment is long, or has been idle.
Survey(idle, elapsed) ==
  IF (Cardinality(Segment) >= SizeCap \/ idle) /\ GatesOpen(elapsed)
    THEN Window(Segment) ELSE {}

ClaimedBy(id) == {t \in rows : by[t] = id}
Claim(W, id)  == [t \in Turns |-> IF t \in W \cap Complete(rows) THEN id ELSE by[t]]
Release(id)   == [t \in Turns |-> IF by[t] = id THEN None ELSE by[t]]
ReleaseAll    == [t \in Turns |-> None]

-----------------------------------------------------------------------------
(* A heartbeat: survey, claim, then one launch after the other. *)

Heartbeat ==
  /\ up /\ loop = Idle
  /\ \E idle, elapsed, backlog \in BOOLEAN :
       loop' = [at |-> "claim", window |-> Survey(idle, elapsed),
                process |-> backlog /\ GatesOpen(elapsed)]
  /\ slot' = AgedSlot
  /\ UNCHANGED <<turn, turns, rows, by, text, db, day, tasks, minted, up,
                 noticed, started, mark>>

\* The selector's launch comes first: it was registered first.
Launches ==
  (IF loop.process THEN <<[id |-> minted + 1, subject |-> TRUE]>> ELSE <<>>)
  \o (IF loop.window # {} THEN <<[id |-> minted + 2, subject |-> FALSE]>>
                          ELSE <<>>)

\* The rows that are still complete are claimed; the frame commits.
FrameClaims ==
  /\ loop.at = "claim"
  /\ by' = Claim(loop.window, minted + 2)
  /\ loop' = IF Launches = <<>> THEN Idle
                                ELSE [at |-> "launch", queue |-> Launches]
  /\ minted' = IF Launches = <<>> THEN minted ELSE minted + 2
  /\ UNCHANGED <<lane, db, day, tasks, up, noticed, started, mark>>

\* The commit raises after the claim: the brain loop dies with it.
FrameRaises ==
  /\ loop.at = "claim"
  /\ by' = Claim(loop.window, minted + 2)
  /\ minted' = IF Launches = <<>> THEN minted ELSE minted + 2
  /\ loop' = [at |-> "dead"]
  /\ mark' = mark \cup {"raised"}
  /\ UNCHANGED <<lane, db, day, tasks, up, noticed, started>>

\* Mutant of Reserved: the day of the reservation is not stored.
ReservedSameDay(launch) ==
  [db EXCEPT !.pending = launch.id, !.subject = launch.subject,
             !.used = UsedToday + 1]

\* reserve_internal_call with the runner's pending id, one commit.
Reserved(launch) ==
  [pending |-> launch.id, subject |-> launch.subject, used |-> UsedToday + 1,
   day |-> day]

\* Mutant of Admits: a pass in flight does not refuse another.
AdmitsSecond == UsedToday < Ceiling

Admits == db.pending = None /\ UsedToday < Ceiling

\* Mutant of Refused: a refused noticing launch keeps its claim.
RefusedKeeps(launch) == by

Refused(launch) == IF launch.subject THEN by ELSE Release(launch.id)

\* InternalCognitionRunner.launch; a refused noticing launch gives its claim
\* back.
Launch ==
  /\ loop.at = "launch"
  /\ LET launch == Head(loop.queue)
     IN IF Admits
          THEN /\ db' = Reserved(launch)
               /\ tasks' = tasks \cup {launch}
               /\ started' = started + 1
               /\ UNCHANGED by
          ELSE /\ by' = Refused(launch)
               /\ UNCHANGED <<db, tasks, started>>
  /\ loop' = IF Len(loop.queue) = 1 THEN Idle
             ELSE [loop EXCEPT !.queue = Tail(@)]
  /\ UNCHANGED <<lane, day, minted, up, noticed, mark>>

-----------------------------------------------------------------------------
(* The completion of a pass, on the gateway loop. *)

\* NoticingApply acts on a subjectless pass that is the pending one.
Ours(task) == db.pending = task.id /\ ~db.subject

\* Mutant of Finalize: the surveyed rows return to the buffer.
FinalizeReleases(id) ==
  /\ noticed' = [t \in Turns |-> noticed[t] + IF t \in ClaimedBy(id) THEN 1 ELSE 0]
  /\ by' = Release(id)
  /\ UNCHANGED rows

\* FinalizeBuffer: the claimed rows go with the commit of their thoughts.
Finalize(id) ==
  /\ noticed' = [t \in Turns |-> noticed[t] + IF t \in ClaimedBy(id) THEN 1 ELSE 0]
  /\ rows' = rows \ ClaimedBy(id)
  /\ by' = Release(id)

\* The gateway's loop is free for the runner's tasks, which outlive the brain loop.
Free == loop.at \in {"idle", "dead"}

\* The ASYNC_COMPLETION frame.  A usable result finalizes the claim, another
\* gives it back.  The trigger runs in this frame too: when nothing is pending
\* any more it claims for a launch that nobody dispatches.
Completes(task, usable) ==
  /\ up /\ Free
  /\ \E idle, elapsed \in BOOLEAN :
       IF Ours(task) /\ usable
         THEN Finalize(task.id) /\ UNCHANGED minted
         ELSE /\ by' = IF Ours(task) THEN Release(task.id)
                       ELSE Claim(Survey(idle, elapsed), minted + 2)
              /\ minted' = IF Survey(idle, elapsed) = {} THEN minted
                                                         ELSE minted + 2
              /\ UNCHANGED <<rows, noticed>>
  /\ slot' = AgedSlot
  /\ loop' = [at |-> "tail", task |-> task, then |-> loop.at]
  /\ UNCHANGED <<turn, turns, text, db, day, tasks, up, started, mark>>

\* The completion's second commit clears whatever is pending; the task ends.
CompletionTail ==
  /\ loop.at = "tail"
  /\ db' = [db EXCEPT !.pending = None, !.subject = FALSE]
  /\ tasks' = tasks \ {loop.task}
  /\ loop' = [at |-> loop.then]
  /\ UNCHANGED <<lane, by, day, minted, up, noticed, started, mark>>

\* The completion frame raises: nothing is committed, a release made on the
\* way stands, and the pending id is cleared unless that fails too.
CompletionRaises(task, usable, cleared) ==
  /\ up /\ Free
  /\ by' = IF Ours(task) /\ ~usable THEN Release(task.id) ELSE by
  /\ db' = IF cleared THEN [db EXCEPT !.pending = None, !.subject = FALSE]
                      ELSE db
  /\ tasks' = tasks \ {task}
  /\ slot' = AgedSlot
  /\ mark' = mark \cup {"raised"}
  /\ UNCHANGED <<turn, turns, rows, text, day, loop, minted, up, noticed, started>>

-----------------------------------------------------------------------------
(* Starts, stops and the clock. *)

\* Mutant of Connect: stale claims are not recovered.
ConnectKeepsClaims ==
  /\ ~up /\ up' = TRUE
  /\ db' = [db EXCEPT !.pending = None, !.subject = FALSE]
  /\ mark' = {}
  /\ UNCHANGED <<lane, by, day, loop, tasks, minted, noticed, started>>

\* connect after a disconnect or in a new process: no pass survived, the
\* pending id and the claims are stale.
Connect ==
  /\ ~up /\ up' = TRUE
  /\ db' = [db EXCEPT !.pending = None, !.subject = FALSE]
  /\ by' = ReleaseAll
  /\ mark' = {}
  /\ UNCHANGED <<lane, day, loop, tasks, minted, noticed, started>>

\* connect without a disconnect: the runner and its passes live on, the
\* claims are released all the same.
Reconnect ==
  /\ up /\ Free
  /\ by' = ReleaseAll
  /\ loop' = Idle
  /\ mark' = mark \ {"raised"}
  /\ UNCHANGED <<lane, db, day, tasks, minted, up, noticed, started>>

\* Mutant of Disconnect: it cancels the passes while a completion runs.
DisconnectAnytime ==
  /\ up
  /\ up' = FALSE /\ tasks' = {}
  /\ UNCHANGED <<lane, by, db, day, loop, minted, noticed, started, mark>>

\* disconnect cancels the passes and touches no state.
Disconnect ==
  /\ up /\ Free
  /\ up' = FALSE /\ tasks' = {} /\ loop' = Idle
  /\ UNCHANGED <<lane, by, db, day, minted, noticed, started, mark>>

\* The gateway process dies anywhere.
Crash ==
  /\ up' = FALSE /\ tasks' = {} /\ loop' = Idle /\ turn' = NoTurn
  /\ UNCHANGED <<turns, slot, rows, by, text, db, day, minted, noticed, started,
                 mark>>

\* The factory wipe: the row is a newborn's, the buffer and the passes stay.
Wipe ==
  /\ Free
  /\ db' = [db EXCEPT !.pending = None, !.subject = FALSE, !.used = 0]
  /\ started' = 0
  /\ mark' = mark \cup {"wiped"}
  /\ UNCHANGED <<lane, by, day, loop, tasks, minted, up, noticed>>

NewDay ==
  /\ day < MaxDays
  /\ day' = day + 1
  /\ started' = 0
  /\ UNCHANGED <<lane, by, db, loop, tasks, minted, up, noticed, mark>>

LoopGoesOn == FrameClaims \/ Launch \/ CompletionTail

Next ==
  \/ \E b \in BOOLEAN : TurnEnds(b) \/ \E c \in BOOLEAN : TurnStarts(b, c)
  \/ TurnLost \/ SlotAges
  \/ Heartbeat \/ FrameRaises \/ LoopGoesOn
  \/ \E task \in tasks, b \in BOOLEAN :
       Completes(task, b) \/ \E c \in BOOLEAN : CompletionRaises(task, b, c)
  \/ Connect \/ Reconnect \/ Disconnect \/ Crash \/ Wipe \/ NewDay

\* A handler the loop has begun goes on, the host brings a stopped adapter
\* back, and the loop serves the completion of a pass among its heartbeats:
\* the model call is bounded by a timeout and asyncio serves callbacks in turn.
Fairness ==
  /\ WF_vars(LoopGoesOn) /\ WF_vars(Connect)
  /\ SF_vars(\E task \in tasks, b \in BOOLEAN : Completes(task, b))

Spec == Init /\ [][Next]_vars /\ Fairness

-----------------------------------------------------------------------------
(* Properties. *)

Tasks == [id : Nat \ {0}, subject : BOOLEAN]
Loops ==
  {Idle, [at |-> "dead"]}
  \cup [at : {"claim"}, window : SUBSET Turns, process : BOOLEAN]
  \cup [at : {"launch"}, queue : Seq(Tasks) \ {<<>>}]
  \cup [at : {"tail"}, task : Tasks, then : {"idle", "dead"}]

\* Every variable has its type; a task in its completion's tail is still
\* tracked, so a disconnect would cancel it.
TypeOK ==
  /\ turn \in {NoTurn} \cup [id : Turns, dialogue : BOOLEAN, opened : BOOLEAN]
  /\ turns \in 0 .. MaxTurns
  /\ slot \in {NoSlot} \cup [turn : Turns, old : BOOLEAN]
  /\ rows \subseteq Turns
  /\ by \in [Turns -> Nat] /\ text \in [Turns -> Turns \cup {None}]
  /\ db \in [pending : Nat, subject : BOOLEAN, used : Nat, day : Nat]
  /\ day \in Nat /\ loop \in Loops
  /\ tasks \subseteq Tasks
  /\ loop.at = "tail" => loop.task \in tasks
  /\ minted \in Nat /\ up \in BOOLEAN
  /\ noticed \in [Turns -> Nat] /\ started \in Nat
  /\ mark \subseteq {"raised", "wiped"}

\* At most one internal pass is in flight (internal_runner's single flight),
\* whatever starts, stops and failed completions come between, as long as the
\* row that records the pass is not wiped under it.
SingleFlight ==
  "wiped" \notin mark => \A a, b \in tasks : a = b

\* No turn is surveyed to the end twice, through releases, reconnects,
\* crashes between any two commits and wipes (commit_tick: "a rollback leaves
\* neither the thoughts nor the finalize").
NoticedOnce == \A t \in Turns : noticed[t] <= 1

\* A row is put with the words of its own turn, though an interrupted turn leaves
\* its slot open for the next one; only where that one could not open the slot is
\* the row given the words of the interrupted turn, and no words are ever stored
\* twice (noticing_buffer: never "an entry with no real user turn behind it").
OwnText ==
  [][\A t \in rows' \ rows : /\ turn.opened => text'[t] = t
                             /\ \A u \in Turns \ {t} : text[u] # text'[t]]_vars

\* No more than Ceiling passes are admitted on a day (FR20).
BudgetKept == started <= Ceiling

\* What the admission of a pass promises: one at a time, and a day's worth.
AdmissionHolds == SingleFlight /\ BudgetKept

\* A claimed row has a pass behind it: in flight, or about to be admitted or
\* refused; unless a frame raised or the row was wiped, nobody leaves a claim
\* behind while the adapter is connected (being_platform's C1).
ClaimBacked ==
  up /\ mark = {} =>
    \A t \in rows : by[t] # None =>
      \/ \E task \in tasks : task.id = by[t] /\ ~task.subject
      \/ loop.at = "launch" /\ \E i \in DOMAIN loop.queue : loop.queue[i].id = by[t]

\* A claimed row leaves the buffer only when it was noticed: turns that pile up
\* meanwhile never evict it (claim immunity).
ClaimKept ==
  [][\A t \in rows : by[t] # None /\ t \notin rows' => noticed'[t] > noticed[t]]_vars

\* The conversation is noticed in order: when a turn has been surveyed no older
\* one is left in the buffer (noticing: "no un-surveyed older turn").
InOrder ==
  [][mark = {} => \A t \in Turns : noticed'[t] > noticed[t] =>
                    \A u \in rows' : u > t]_vars

\* A claim ends: its pass comes to an end, is refused, or a restart releases it.
Held(t) == t \in rows /\ by[t] # None /\ mark = {}
ClaimEnds == \A t \in Turns : Held(t) ~> ~Held(t)
=============================================================================
