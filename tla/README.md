# hermes-lifemodel in TLA+

hermes-lifemodel is a plugin that gives a Hermes gateway a being with an inner
life: a heartbeat computes its drives, a desire to reach out may be born, the
being composes a turn of its own and the host delivers it, the human's answers
are read back, and in private the being looks at past conversation and at its
own thoughts. This directory holds TLA+ models of the parts of it whose
correctness depends on order: who writes the one State row and when, what
becomes of a launch, of a conversation turn that a private pass has claimed, of a
thought from its birth to its end, of the file that says who the being is; and,
beside the heartbeat, how it senses and paces itself, what it carries into a live
turn, how its database is migrated, what its observability keeps, and how the
death of its brain is shown. TLC checks the models on small instances, TLAPS
proves every safety property that the passing runs check, for every value of the
constants, under the assumptions that section 5 names.

Paths below are relative to the repository's source root.

## 1. The system

Everything durable of the being is one SQLite file, `lifemodel.sqlite`: the single `runtime_state` row (a `State`
dataclass), `memory_records` (desires, intentions, thoughts, beliefs, ...) and
`conversation_buffer`. Everything that changes the row is an *execution frame*
or one of a handful of writers beside it.

| Part | State | Operations | Interacts with |
|---|---|---|---|
| Execution frame, state actor (`core/frame.py`, `core/state_actor.py`, `core/coreloop.py`) | the process-wide lock; the State an actor caches | `run_frame`: lock, load, run the components on a frozen snapshot, merge their patches in order, one commit; `StateActor.apply` | every hook, heartbeat, completion; the store |
| Runtime store (`state/sqlite_store.py`) | the row, memory records, the buffer | `load`, `commit` (an UPSERT of the whole row), `commit_tick`, field merges (`stamp_soul`, `stamp_genesis_shown`), `reset` | all writers |
| Platform adapter (`adapters/being_platform.py`, `core/supervised_loop.py`) | brain loop, internal runner, connected flag | `connect`, `_tick`, `disconnect`, soul reconciliation, stale recoveries | gateway loop |
| Contact aggregation, launcher (`core/aggregation.py`, `core/cognition.py`) | desire, intention, pending anchor, energy, unanswered counter | wake, contact domination, verdict resolution, launch with reservation | each other through the snapshot; dispatch |
| Launch dispatch (`core/proactive.py`, `gateway_core.py`) | the frame's report, the actor's cached State | backstop, voice pre-flight, delivery, `_rollback` | host's turn queue |
| Hooks (`hooks.py`) | none of their own | inbound contact, injector, `post_llm_call` read-back, `write_soul` | frames, store, buffer |
| Internal cognition (`adapters/internal_runner.py`, `core/internal_cognition.py`, `core/budget.py`) | pending id and subject, daily counter, tasks | `launch`, completion frame and its tail, `recover_stale`, `cancel_all` | heartbeat, apply components |
| Noticing (`core/noticing.py`, `core/noticing_buffer.py`, `SqliteBufferStore`) | pending slot, ring of turns, claims | open, complete, abandon, survey and claim, finalize, release, recover | hooks, heartbeat, completion frame |
| Thoughts (`core/thought_processing.py` and others) | thought records | capture, park, resurface, resolve, drop, expire | heartbeat, completion frame |
| Birth and soul (`core/genesis.py`, `core/soul_guard.py`, `adapters/soul_file.py`, `state/soul_revisions.py`) | SOUL.md, revisions, stamp | `write_soul`, adoption, revert | hooks, connect, admin |
| Admin commands (`state_commands.py`) | none | set, nudge, wake, satiate, reset, soul revert | the row, records |
| Session end (`gateway_core.py`, `domain/session.py`, `core/genesis.py`) | the host's session, its cached agent and prompt | `end_session`, the staleness test, the birth's pre-flight, the injector's stand-down | `write_soul`, soul revert, birth tick |
| Intake (`core/idempotency.py`, `core/coreloop.py`, contact sensor, solitude drive) | the ring of seen ids, u, the breaker's counts | filter before a frame, record after it, isolate a failing component | every hook, heartbeat |
| Pacing (`core/aggregation.py`, `core/suppression.py`, `core/backstop.py`) | clocks of the row, the log of sends | silence window, decline backoff, inhibition, daily cap, gap | aggregation, dispatch, read-back |
| Ambient content (`hooks.py`, `core/belief_view.py`, `core/commitment_view.py`) | the cooldown ring, belief and commitment records | surface, stamp, create, close, defer | hooks, heartbeat's frame |
| Migrations (`state/sqlite_store.py`) | the file, its backup, the schema's versions | check, set aside, back up, rebuild, restore | every process that opens the store |
| Turn recorder (`core/turn_recorder.py`) | the ledger of open turns | open, close, evict, begin and end a call | hooks, tools; the trace writer |
| Trace store (`state/trace_store.py`) | writers by count, queue, transaction, ids, index of exchanges | acquire, release, log, apply, commit, retention | register, adapter, ticks |
| Metrics (`core/metrics.py`, `state/metrics_store.py`) | registry, skip memory, run's rows | emit, sample, heartbeat, prune | components; sampler thread |
| Supervision (`__init__.py`, `state/brain_health.py`, `core/supervised_loop.py`) | health per process, the boot record | register step by step, connect, die, report | host, status command |
| Drives, feelings, wording, views | fields of the row | floating-point dynamics, composition of text | aggregation |

What is hard about it:

* **Writers of one row on several threads.** The heartbeat, the inbound hook and
  completions run on the gateway's asyncio loop; the LLM hooks and agent tools
  run on executor threads. A whole-row commit from a stale load undoes whatever
  was committed in between. A correct system loses no committed write.
* **State kept across a lock's release.** A frame's caller keeps the State its
  actor cached, dispatches a launch, and commits that State again.
* **One attempt recorded in three places**: the desire record, the intention
  record and the row's pending anchor, resolved by a verdict that arrives from
  another thread at an arbitrary time, or never. A correct lane greets once,
  does not long twice without an answer, and resolves the attempt that a
  verdict belongs to.
* **Claims held across an LLM call.** Turns claimed for a private pass must be
  finalized or released on every way out: refusal, timeout, exception,
  cancellation, crash, reconnect. None may be noticed twice, skipped or evicted.
* **Interrupted turns.** The host may cut a turn off so that its last hook
  never runs.
* **Decisions on a bounded snapshot.** A frame sees 256 records of each state;
  a private pass answers long after its subject was picked, the owner's commands
  take no lock, and a thought is parked, re-armed and judged by different frames.
  A correct life of a thought is bounded, reaches its end, and ends once.
* **A file and a row that say the same thing.** SOUL.md is written by a human
  with an editor, by the being and by its owner, and the row's stamps about it
  follow in later steps. Correct bookkeeping loses no text, credits the right
  hand, and lets the being feel a rewrite.
* **A prompt older than the file.** The host keeps a session's prompt. A being
  that has just been given a voice must not speak in the one before it.
* **A second thread behind a queue.** Spans, resolutions and samples are dropped
  when a queue is full, lost with a failed commit, and applied after the state
  they speak of has moved on. What a reader finds must still add up.
* **Several processes.** A gateway and a `serve` process open the same files,
  migrate them, and write one boot record.

`PROJECT.json` lists the components with what is modelled of each, and the
hazards with the line where each one bites.

## 2. Modules

### StateActor, AtomicRow, MCStateActor, StateActorProofs

`StateActor` is the row and everybody who writes it. A *job* is one run of one
kind of writer; `May[t]` says which jobs thread `t` runs:

| Job | Code | Steps |
|---|---|---|
| `frame` | `run_frame` from a hook | `Acquire` (lock, load), `CommitFrame` or `Abandon` |
| `heartbeat` | `proactive_tick` | the same, then `Rollback` or `Dispatched` outside the lock |
| `completion` | `run_internal_completion` | the same, then `CompletionTail` |
| `reserve` | `InternalCognitionRunner.launch`, `_clear_pending_fail_loud` | `Acquire`, `CommitReserve` |
| `soul` | `write_soul` | `Acquire`, `StampSoul` (a merge) |
| `adopt` | reconciliation at connect, soul revert | `Acquire`, `AdoptSoul` (a merge) |
| `recover` | `recover_stale` | `Load` without the lock, `CommitRecover` with it |
| `admin` | state commands | `Load`, `CommitAdmin`, no lock at all |
| `stamp` | the injector's `stamp_genesis_shown` | `Stamp` (a merge), no lock |
| `reset` | factory wipe | `Reset` |

A group of State fields that one kind of writer owns (`vitals`, `lane`,
`internal`, `soul`, `born`, `shown`) is abstracted to the number of writes it
carries. The ghost `intended` counts the writes committed in this life;
`births` counts how often a writer was told it was born. `Protected` selects
the groups a run or a theorem speaks of. `Crash` drops everything but the row.

`AtomicRow` is the promise: every operation acts on the latest committed row,
whole, and a field written once in a life (the birth) is. `ActsAtomically` is
that `StateActor` implements it under the mapping `row <- [f \in Protected |->
db[f]]`.

### ContactLane, MCContactLane, ContactLaneProofs

The lane to the human, with one action for each handler: `Heartbeat` and
`Completion` (a frame whose caller dispatches the report), `Inbound` and
`RepeatedInbound` (the ring drops a repeated event but the frame runs),
`BackstopHolds`, `NotDelivered`, `Delivered`, `CompletionTail`, `TurnEnds` (the
turn's text and the first half of its `post_llm_call`: load and test),
`ReadBack` (the second half: the verdict's frame), `WriteSoul`, and the
environment's `TurnLost` and `Crash`.

`Frame` is one frame on the snapshot it starts from, with the order of the
components kept: personality's recovery of energy, aggregation (contact
dominates, then the verdict, then the wake), launcher. The launcher reads the
snapshot, so a launch needs a desire that an *earlier* frame committed. After a
launch the loop holds `loop.row`, the State its actor cached; `Rollback` and
`CompletionTail` write it back whole.

Time is abstracted. Whether a wake gate is open is the environment's choice
(`urge`), a deadline is the choice `late`. Two rules of the code constrain
them: a contact closes the silence window in its own frame, and (unless
`SlowTurns`) the window also outlasts a turn that the contact voided. For a
born being pressure falls only by contact or an admin command, so staleness by
satisfied pressure is covered by `late`; for an unborn one `u` is pinned to 0.
`_rollback` reads the desire and commits its transition in two transactions;
the model takes them as one step (its raise is a listed hazard).

The ghost `bids` counts texts of longing since the human was last heard,
`greets` the birth greetings said, and a turn's `voided` tells that a contact
came after its launch. Energy is scaled to small integers, `Cap` for `e_max`.

### Noticing, MCNoticing, NoticingProofs

The durable conversation buffer with one session lane, the trigger, the claim, the
runner and the completion. Hooks of a host turn: `TurnStarts` (open or refresh the
pending slot, or leave it as it is: the felt-state injector builds the graph, loads
the State and opens the slot under one fail-soft catch), `TurnEnds` (complete the slot
into a row and prune, or abandon it), `TurnLost`. The heartbeat in its separate
transactions: `Heartbeat` (survey on the frame's snapshot), `FrameClaims` (claim what
is still complete, commit), `Launch` for each launch of the report (single flight and
budget, or refuse and give the claim back), or `FrameRaises`, which kills the
supervised loop. A completion: `Completes` (the frame, with finalize or release; the
trigger runs in it too), `CompletionTail`, or `CompletionRaises`. The runner's tasks
outlive a brain loop that died, so a completion is served then too (`Free`). Starts
and stops: `Connect`, `Reconnect` (without a disconnect: the runner lives on, all
claims are released), `Disconnect`, `Crash`, `Wipe`, `NewDay`.

A turn is its number, which is its place in the buffer. `by[t]` is the survey
that claims row `t`, 0 for a complete row; `text[t]` the turn whose words the
row carries. A correlation id is a counter, which stands for session, tail turn
and instant. The ghosts: `noticed[t]` counts surveys of `t` that ended in a
finalize, `started` the passes admitted today, and `mark` remembers since the
last start that a frame raised or the row was wiped; properties the code does
not promise through such a thing are conditional on it, and say so.

The minimum interval between passes is the choice `elapsed`, idleness of the
lane the choice `idle`. What a pass extracts (thoughts: see `Thoughts`; beliefs) is left
out.

### Thoughts, MCThoughts, ThoughtsProofs

The records of thoughts and the passes that work on them. A frame (`EventFrame`,
`Heartbeat`, `Completes`, `Notices`) decides on what it reads when it begins and
ends in `FrameCommits` or `FrameRaises`; under the state-actor lock nothing but
the owner's commands comes in between. `Rearm` (parked thoughts whose window has
passed) and `Picks` are the selector, which runs in every frame; only a
heartbeat's launch is dispatched (`Launch`). `Verdict` and `Decided` are the
apply: a failed call changes nothing, nor does an answer about a thought that is
not active in the snapshot; `ParkOrTerminate` has the two bounds. `Applies` is
the from-state test of the store: if one transition is stale, the whole commit
raises and the brain loop or the pass goes with it. `Capture` is the
`create_thought` tool, `Think` the owner's upsert, which resets the counters at
any time, `Reset` the wipe, `Crash` a restart with its `recover_stale`.

A thought is its rank in salience, `newer` the order of the records' update
times (which decides what the snapshot sees), `due` the parked thoughts whose
backoff has passed: the 6, 24 and 72 hours are a choice of when. Interval and
budget are the choice `open`. The ghosts `judged` and `wasted` count a thought's
answers, and the unusable ones, in one life. `owed` is the commitment that a
crystallizing verdict puts in the same commit. A completion's tail, which clears
the pending id in a second commit of the same synchronous call, is taken with
the completion's frame: only hooks' frames can come in between, and those
dispatch no launch. `transition_thought_for_dir`, which no command is wired to,
is left out, and so is the crowding of the snapshot by other kinds of objects:
`SnapshotLimit` counts thoughts.

### Soul, MCSoul

SOUL.md, the lineage of its revisions, and what the row says of them. Three hands
write the file: a human (`HumanSaves`, unseen), the being (`BeingWrites`, then
`BeingRecords` under the lock) and its owner (`OwnerReverts`, `OwnerRecords`). A
write by the plugin replaces the file first and keeps the replaced text, records
its own and stamps the row afterwards; `BeingStops` and `OwnerStops` end it in
between (an exception or the process). `Connects` is the reconciliation at the
adapter's start, `ConnectsBadly` one that stops halfway, `Registers` and `Seeds`
the installation of the two stock texts, `Composes` and `Tells` the felt notice
of a rewrite, `Resets` the wipe. A document is a model value and its own digest.

A plugin's write is atomic against an editor's; a crash between the file and its
record loses the replaced text (the property excuses it, as the code does). The
words of a human that the being writes again verbatim change hands. A human who
restores the being's old text is not felt, because the file then carries the
stamped digest. `Seeds` overwrites, unkept, a save that falls into its window.

### Waking

In whose voice a session speaks: the prompt the host builds from SOUL.md at a
session's first turn and keeps, `EndSession` (reset, then evict the agent; each
host call may fail), the staleness test on two times (`Stale`, which answers
"fresh" where the host, the key or the file's time cannot be read), the birth tick
with its pre-flight (`BirthTick`), the injector that stands down on a stale
session (`Injects`), and the two writes of a soul that end the session
(`WritesSoul`, `OwnerReverts`). The host's session store, agent cache and prompt
are external, as `gateway_core.py` describes them. The half hour without a turn
after which a session may be ended is the choice `FallsQuiet`, which does not
fall between a turn's start and its hook: a turn longer than that may have its
session ended under it.

`OwnRitual` excuses what the code cannot see: an agent kept across a change of
session (a failed evict, or a switch by the host, after which the test reads "not
stale" although the prompt is old), a host that would not end the session, a
host or a file whose time could not be read (`identity_slot_is_stale` and
`GatewayStaleIdentity` are fail-soft to "not stale", on purpose: no thread is ended on
a guess, and no birth is withheld on one; then the ritual does reach an old prompt), an
edit of SOUL.md after the pre-flight, a revert between a turn's prompt and its
hook. A `write_soul` or a revert whose record fails leaves the session, and the
old voice, alive.

### Intake, Pacing, Ambient

`Intake` is the way of a message to the contact drive: the filter by the ring of
seen ids, the components of a frame each of which may fail, the record of the id
if the sensor ran, u integrated from the sensor's reading, the breaker of the
CoreLoop that heartbeats share (an inbound message builds a fresh one, so it
never meets a broken sensor). Time runs in the units in which silence raises u by
one. An id is recorded when the sensor ran: a message whose frame lost the drive
or the aggregation is remembered without its whole effect; the ghost `numb` names
those, and `Landed` excuses them. A failed sensor lets the aggregation stamp the
exchange all the same, and the host's retry stamps it again.

`Pacing` has the gates of a wake that are read from a clock (silence window,
decline backoff, inhibition after a send, the hold of a second longing), the
backstop at the dispatch and its log at the read-back, and the owner's commands
in between. A launch and its dispatch are one step here; `ContactLane` has them
apart. `said` records the sends that were read back: a text whose turn was voided
or judged too late never enters the log, so no property speaks of it. A forced
wake clears the backstop's log and leaves the count of unanswered texts, so the
hold may still stop it. A verdict past its deadline leaves the anchor until the
human speaks or the owner intervenes. A deferred desire waits for the human.

`Ambient` has the two injectors of live turns and the `commitment` tool: look at
the ring, pick beliefs, stamp what was shown into the ring; look for a
commitment, then create it; close it by a transition guarded by its state. A
frame loads the row with its ring and commits it later, or raises. Commitments have a
second creator: the completion of a pass over a thought may crystallize it
(`Crystallizes`), an upsert to "active" without a look, in one commit with the end of
the thought. Such a commitment has an id of its own (`Seeded`, by thought and content),
which the tool never makes; its thought comes and ends with commits of its own
(`ThoughtComes`, `ThoughtEnds`), one frame or command at a time. With more
fit beliefs than ring and turn hold, the oldest are never surfaced; many unfit
rows crowd fit ones out of the store's answer (`Uncrowded` is the precondition).
Two ways reopen a commitment that was closed or deferred, and `doubled` names them:
two turns that create the same one at once, and `/lifemodel think`, which puts a
retired thought back to "active" without a look (`state_commands.py:795-826`), so that
a later pass crystallizes it once more (`core/thought_processing.py:420-423`) over
whatever its commitment had become. Apart from these nothing takes a commitment back
from "deferred". Nothing ends a belief.

### Turns, TraceStore, Retention, Metrics

`Turns` is the recorder of host turns and the writer that carries its spans:
hooks of several turns and their concurrent calls open, close and evict roots
under the ledger's lock, submit without waiting, and the thread upserts and
commits in batches. `excused` names the roots that lost a row to a full queue, to
an error or to a restart; a failed commit forgets that anything was pending.

`TraceStore` is the registry of the writer (by count, one for each file), its
thread, queue and transaction, and the ids of events over restarts. The last
release forgets the writer before it stops it, so an acquire may start a second
thread on the same file; `register()` acquires and never releases. A tick that
outlives its writer submits behind the stop. An id that was minted before a
thread of the process had read the highest one of the file may be taken already,
and the line is dropped (`early`, `clashed`).

`Retention` is the index of exchanges in flight and the pruning that spares them.
Production never passes protected trace ids, so the index and the grace after an
end are all the protection there is.

`Metrics` is the registry of series and the sampler, which skips what it believes
it wrote, remembers before it writes, and writes everything at each heartbeat.
`Believed` needs retention by rows to keep at least a heartbeat's worth of them, as the
defaults do. Retention by size has no such floor (`CyclesOversize`): `connect()` sets
WAL before `auto_vacuum`, which then stays off (`metrics_store.py:178-180`), so the file
never shrinks, and once it has grown past `max_bytes` every pruning cycle may delete
all snapshots, the one just written included, without an error. So the docstring of
`MetricsRetentionPolicy` ("the heartbeat guarantees a recent point per series survives",
lines 290-292) holds of age and rows only, and `Believed` is suspended from a failed
or size-pruned cycle to the next heartbeat that goes through and does not prune by
size (`unhealed`).

### Supervision, Migration

`Supervision` is `register()` as its stages in each process, the boot record both
processes share, and the adapter's loops in the gateway. A step outside any
`wire()` (the metric registry, the noticing buffer's store) fails without a
record (`UnwiredFails`). A `serve` process that comes up clears the record of a
gateway that did not. A reconnect without a disconnect forgets a loop that still
ticks; when that one dies the health turns to `loop_dead` while the new one
lives. After a clean disconnect the health stays "connected" until it is stale.
One adapter object, connect and disconnect as one step each, and no staleness:
these are the model's limits. That a successful connect clears the host's fatal
mark is an assumption about the host.

`Migration` is the construction of the runtime store in several processes: check
(any error counts as corruption), set the file aside, list the versions, back up,
apply one by one, restore if a step raised. Version 3 reads the rows of the
memory table, drops it, which sqlite commits at once, and inserts them again in
one transaction with the version's mark. Excused in `Preserved`: another process
that writes meanwhile (`raced`; a loser restores its backup over the winner's
writes), a corrupt file that had to be removed (`discarded`), a crash between the
drop and the refill (`interrupted`), a file set aside while it was in use. After
such a crash the live table is empty, and the next construction marks version 3
as applied: the rows survive in the backup only, although the code's comments
promise a rewrite "preserving every row". Processes of an older version that keep
writing are left out.

### MCBeside, ObservabilityProofs, HostingProofs, ContactProofs, BesideProofs

The eleven modules from `Soul` on share no state. `MCBeside` takes one of them for
a behaviour (`part`) and leaves the others alone; the soul has variables of its
own, the other parts use the same fifteen in turn. So the state spaces add up and do
not multiply, one run checks them all, and the property of a part reads `part =
... => ...`. No liveness is claimed there.

Three modules hold the proofs of the parts, each in the variables of its part:
`ObservabilityProofs` (`TraceStore`, with `Turns`, `Retention` and `Metrics` as
instances), `HostingProofs` (`Migration`, with `Supervision` and `Waking`) and
`ContactProofs` (`Ambient`, with `Intake` and `Pacing`). `BesideProofs` has the proofs
of the soul, and reads the others with `x1` to `x15` for their variables.

## 3. Runs

| Run | Instance | States | Shows |
|---|---|---|---|
| `actor_locked` | 3 threads: loop (frames, reservations, adoption), two executors (frames, souls, stamps), 2 writes per group | 5,450 | with all whole-row writers locked, `BornOnce`, and the row is an `AtomicRow` on all groups but `shown` |
| `actor_single` | one thread runs all ten jobs | 4,455 | the State cached across a frame, its rollback and its tail is never stale; wipes and crashes included |
| `actor_birth` | a heartbeat and a soul writer | violation | a rollback outside the lock erases a birth |
| `actor_shown` | a frame and an unlocked stamp | violation | a frame rolls the stamp back |
| `lane_safety` | 4 launches, two costs, `Cap` 2; late verdicts, losses, completions | 3,660 | `HeldTogether`, `GreetsOnce`, `NoSecondBid`, `VerdictMatches` |
| `lane_release` | 3 launches, no losses, no late verdicts, no completions | 737 | `Released`, with fairness |
| `lane_strand` | 2 launches | violation | a hook's frame strands a launch |
| `lane_verdict` | 3 launches, `SlowTurns` | violation | an old verdict resolves a new attempt |
| `notice` | 3 turns, 4 launches, 2 days, ring 2, window 2, ceiling 1 | 187,016 | the eight properties of `Noticing` |
| `thoughts` | 2 thoughts, 1 park cycle, 2 unusable answers, snapshot of 1, 2 troubles | 102,093 | the six properties of `Thoughts`, `Retires` with fairness |
| `soul_told` | two texts, one of them refused, 4 troubles | violation | a rewrite that nobody told the being of is marked as told |
| `beside` | one part at a time: soul 60k, turns 337k, store 92k, retention 76k, metrics 36k, supervision 7k, migration 71k, ambient 57k, intake 38k, pacing 69k, waking 34k | 877,000 | the sixteen properties of the parts |

**Bounds.** A lost update needs one write by another between a load and a
commit, so two writes to each group and a rollback twice over suffice; three
threads are all that exist in kind (loop, an agent turn, another session's
turn). Four launches let a greeting, a longing, a voided attempt and its retry
follow one another; energy 2 with costs 1 and 2 makes a launch affordable,
just affordable and unaffordable, and a double refund visible. In `notice` a
ring and a window of two with three turns make both overflow; a ceiling of one
with two days exhausts the budget and renews it; four launches (emitted in
pairs of ids, one for the selector and one for the trigger) give a refused
launch, a retry, and a claim in a completion frame. In `thoughts` a snapshot of
one makes two thoughts compete for the view as well as for the pass; one park
cycle and two unusable answers make both bounds reachable in either order; two
troubles (failed calls, failing stores, the owner's commands, wipes, crashes)
let a command outdate a frame and a failure follow it. The guards that hold the
bounds are `Room`, `MoreLaunches`, `MorePasses`, `Trouble`, `turns < MaxTurns`
and `day < MaxDays`. `MoreLaunches` stops wakes and retries together, so that the
bound cannot leave a half-made attempt behind that looks like a defect.

In `beside` the soul has two texts beside the stock ones, one of them refused by
the guard, and two troubles (a write stopped halfway, a crash, a wipe): one stops
the write, the other comes while its record is owed. Three turns of two sessions
with one ledger entry evict and reconcile; a queue of two is filled by a turn and
a call. Two holders and two writers are an overlap on one file; two events and
two processes' lives let an id be taken. Two traces of two rows, one of which the
store may keep, make retention choose. A heartbeat every two cycles with room for
four rows of two series is the least room that the assumption on the metrics
allows. Three loops are a duplicate and its successor; four starts let both
processes come up twice. Two rows, one of which the new schema refuses, and three
constructions by two processes give the winner, the loser and a retry. Two ids
with a ring of one are forgotten by size, and a time to live of one by age; two
failures open the breaker. In `pacing` the day is 5 units, the gap 2, the cap 2,
the windows 1 to 2, over 8 units of time: the cap and the gap both bind, and a day
passes. The log's length never binds within these bounds. Two beliefs over a
ring of one with one shown at a time make the ring turn over; one commitment, which
in half of the initial states a thought makes, meets two sessions; six instants
let a session be begun, made stale and ended twice. Two values let a series change and
come back to a value it has had. The two turns of one session are interchangeable
in `Turns` and nowhere else, so the symmetry under their exchange is sound (no
liveness is checked in this run). The bounds are
named in the guards of the modules (`MaxRoots`, `MaxMishaps`, `MaxWriters`,
`MaxEvents`, `MaxTraces`, `MaxLosses`, `MaxFaults`, `MaxLoops`, `MaxStarts`,
`MaxBuilds`, `MaxTurns`, `MaxNow`, `LastStamp` and so on).

The runs check deadlock, but for `beside`, whose parts end where their bounded
counters do; none of the other models stops, since the clock, contacts or crashes
can always occur.

**Fairness.** `ContactLane`: weak fairness of the dispatch, of the completion's
tail and of the read-back's frame, because each is the continuation of a
handler that already runs, and of `TurnEnds`, because the host ends each turn
it was given. Nothing is assumed of contacts, wakes or heartbeats. `Noticing`:
weak fairness of the loop's continuations and of `Connect` (the host brings a
stopped adapter back), strong fairness of a completion. Strong, because the
loop is busy with heartbeats again and again; justified because the model call
is bounded by `wait_for` (`adapters/internal_runner.py`, `_call`) and asyncio
serves ready callbacks in order, so the completion gets the loop between two
ticks. `Thoughts`: weak fairness of a frame's end and of a window's passing,
strong fairness of `Launch`, of a heartbeat with open gates (the interval passes,
the budget is renewed every day, and other frames come in between), of the
completion of either kind of pass, and of an answer that is not a failure: a
provider that fails for ever would hold every thought, as the code intends
(a failed call must not retire a thought). Nothing is assumed of what the model
answers, of captures or of commands; `Trouble` bounds the failures.

**Properties by hazard.** `ActsAtomically`: no lost update (`NothingLost` says
so of the protected groups, and is proved).
`BornOnce`: the test for "was unborn" and the stamp's own test agree.
`HeldTogether`: a held attempt is held in both records and nothing is pending.
`NoSecondBid`: across rollbacks, late verdicts, lost turns and restarts no
longing follows an unanswered one. `GreetsOnce`: the newborn's greeting depends
on three facts that different handlers write. `Released`: a verdict that comes
in time is never judged stale, so the anchor does not block the lane for ever.
`AdmissionHolds` (`SingleFlight` and `BudgetKept`): one pass in flight and no more
a day than the ceiling, counted in a row that day changes, recoveries, failed
completions and wipes edit. `NoticedOnce`, `ClaimKept`, `InOrder`,
`OwnText`: a turn reaches a survey once, in order, not evicted while claimed,
and in its own words. Only where a turn's injector fails before it opens the slot
(`hooks.py:938-945`, `973-977`) does its row get the words of an interrupted turn, and
even so no words are stored twice: the slot goes with the row. `ClaimBacked`, `ClaimEnds`: no claim without a pass, and
every claim ends. `Chewed`: verdicts decided before the owner reset a thought
land after it, and still a life stays within both bounds. `SubjectAwake`: no
call about a thought that some other frame parked or retired meanwhile.
`StaysRetired`: seeds and captures of a gist that once had its end do not bring
it back. `OwedWhole`: a commitment is made with the verdict that retires its
thought, in one commit. `Retires`: the salient do not starve the others, parking
is no hiding place.

`Recoverable`: a text that a write of the plugin replaced is kept, whoever wrote in
between. `Credited`: the lineage calls nobody the author of another's words. `Felt`:
while a rewrite is untold its notice is due, through reconnects and reverts.
`Remembered`: no text, and no authorship of the being, leaves the lineage. `Voiced`:
the birth ritual is not spoken out of a stranger's prompt, and what was promised at a
write is what the next turn speaks from, but for the excuses under Waking. `Sensed`: a
message delivered again is not felt again, and what the ring remembers has landed.
`Spaced`: the hard limits on real sends, although their log is written late.
`Faithful`: the ring silences nothing that is fit, and what was closed stays closed,
under the tool's creations and a frame's. `VerdictStands`: no late or repeated open
write reopens a finished turn on disk. `WellRooted`: each open root is on its way to a
verdict, and a child on disk has its parent. `WellKept`: no held writer is stopped, no
logged line is lost but by a named accident, and an exchange that ended is not
protected for ever. `Spared`: retention takes whole traces and none in flight.
`Believed`: what the sampler skips as unchanged is there to be read, or will be at the
next heartbeat. `Preserved`: no migration, crash or corruption destroys the last copy
of a row. `Honest`: no brain dies in silence and no failed boot goes unexplained.

Each property has a mutant of the code that violates it under the same
configuration.

## 4. What the violations show

1. `actor_birth`. `core/frame.py` says the lock keeps a frame and a soul write
   from straddling each other. `_rollback` (`core/proactive.py`) commits a whole
   cached State after the lock was released, so a birth stamped meanwhile by an
   agent turn is overwritten.
2. `actor_shown`. `_stamp_genesis_shown` (`hooks.py`) merges without the lock;
   a frame that loaded before the merge takes it back, which
   `state/sqlite_store.py` calls a doubled ritual.
3. `lane_strand`. `dispatch_launches` says no caller can strand a launch. The
   inbound hook and the read-back run frames and ignore the report, and a frame
   with an active desire and nothing pending commits a launch.
4. `lane_verdict`. `core/invalidation.py` names a correlation mismatch as a
   reason for staleness. The read-back hook passes the *current* pending id as
   the outcome's correlation, so the mismatch cannot be seen and an old turn's
   verdict resolves a newer attempt.
5. `soul_told`. `state/sqlite_store.py` says that a rewrite landing between the
   injector's read and its stamp must not be marked as told. The stamp merges the
   time without looking at the rewrite's, so it marks the newer rewrite too.

## 5. Proofs

TLAPS checks every step of eight proof modules; no fact is assumed
beyond the named assumptions on constants in the modelled modules and in `MCBeside`.

**StateActorProofs.** `TypeCorrect` holds for any threads and any jobs. The three
others have the hypothesis `Serialized`: one thread does everything, or every
whole-row commit is by a job that took the lock before its load (the injector's
stamp may run beside them if `shown` is not protected). The inductive invariant
`IInv` adds to the types `Held` (the lock belongs to the thread between load and
commit) and `Fresh` (a thread past its load holds the protected fields as the
row has them): the properties alone are not inductive, because they say nothing
of the snapshots that the next commit writes. `SerializedSafe`: no protected
write is lost. `SerializedBirth`: a birth happens once. `SerializedAtomic`: the refinement of
`AtomicRow`, step by step. The violations of section 4 are what the hypothesis
excludes.

**ContactLaneProofs.** `LaneTypeCorrect` (energy within `0..Cap`) and
`LaneHeldTogether`, for every cap, cost, number of launches and switch. The
invariant `LaneInv` adds `DispatchInv` (the State cached by the dispatching loop
has room for the refund, and while it dispatches either the attempt is live in
both records or in neither) and `TailInv` (the tail restores no pending launch
for a parked desire).

`NeverGreetsTwice` (`GreetsOnce`) holds for every choice of the constants, slow
turns included. `GreetInv` says that until the human was heard one attempt at a time
is under way with its anchor set (`AttemptInv`), that hearing the human is never
forgotten (`HeardInv`), and what becomes of a greeting that was said (`SaidInv`): its
verdict is about to be read, or was read and no cached row takes it back, or the
lane stays anchored. `OnceInv`: at most one greeting is being composed, none after.

`NeverBidsTwice` (`NoSecondBid`) and `OwnVerdict` (`VerdictMatches`) have the
hypothesis `~SlowTurns`: an own turn does not outlive, by the silence window, the
contact that voids it. `ReachInv` says what there can be then: one live turn or
answer, that of the desire and of the anchor (`LiveInv`), none while a launch is
being dispatched (`SoleInv`), the lane at rest while a voided turn still composes
(`VoidInv`), and a longing that was said is about to be read, counted as
unanswered, or anchored (`BidInv`). `lane_verdict` shows what the hypothesis
excludes: the read-back cannot tell a late verdict from its own.

**NoticingProofs.** `NoticingTypeCorrect`; `Admission`, the conjunction of
`OneFlight`, from `FlightInv` (a pass in flight is the one the row names, and
there is none while the adapter is down), and `WithinBudget`, from `BudgetInv`
(what the row counts for today covers the passes admitted today); `NeverTwice`
from `OnceInv` (a noticed turn is over and has no row, and only the turn being
composed, which is none of them, gets one); `OwnWords` (`OwnText`, an action
property) from `TextInv` (the slot of a turn that opened it is its own, and the words in
a slot are in no row); `ClaimImmune`, the action property, from the types.

`NoneLeftBehind` (`ClaimBacked`) and `NoticedInTurn` (`InOrder`) share `ClaimInv`.
Backing needs that the row knows the kind of the pass in flight (`KindInv`) and that
a noticing pass at its tail has left no claim (`EndInv`). The order needs more,
because a survey is decided in one handler and claimed in a later one, with turns
ending in between: the window takes the oldest rows and was chosen when none was
claimed (`WindowInv`), the turn being composed is in no window (`PastInv`), all claims
are of one survey (`SameInv`) and no unclaimed row is older (`FrontInv`).

**ThoughtsProofs.** `ThoughtsTypeCorrect`, `ChewedBounded`, `PassesAwake`,
`RetiredStays`, `CommitmentWhole`, for any number of thoughts, snapshot limit
and bounds with at least one unusable answer. `Chewed` speaks of ghosts, and a
verdict is committed later than it is decided, so `ThoughtsInv` adds `CountInv`
(the counters in a live record cover the ghosts), `VerdictInv` (a verdict that
waits for its commit leaves room for itself in both ghosts, which the commands
that may come in between only reset) and `FrameInv` (what a frame will launch or
seed is still as it was seen, or was wiped or thought anew). `RetiredStays` and
`CommitmentWhole` follow from it and from `Applies`.

**BesideProofs, the soul.** `WellTyped`, `NothingLostInWrites` (`Recoverable`), `CreditWhereDue`
(`Credited`), `RewriteFelt` (`Felt`) and `LineageRemembers` (`Remembered`), for any
texts, any set the guard refuses and any amount of trouble. None but `Felt` is
inductive: `SoulInv` adds `Stamped` (what the row is stamped with is in the
lineage, which is why the code need not keep it again), `InFlight` (a writer at
its bookkeeping has its two texts), `Handed` (each text came from a hand, and one
that is not recorded as the being's came from another, unless the being's record
is under way or was cut) and `Keepable` (who is still to keep a text that is not
in the lineage).

**BesideProofs, all parts.** `BesideInv` says that each part keeps the invariant of
its own proofs. A part's proofs are about its own variables; here they are an
instance with `x1` to `x15` for them. The lemmas `...Moves` show that a step of
`BesideNext` in a behaviour about a part is a step of that part or leaves it alone,
the lemmas `...Same` that the instance the proofs are about and the one `MCBeside`
names are the same formulas, and the lemmas `...Keeps` put the two together under
the assumptions of `MCBeside`. From `BesideInv` follow the thirteen theorems about
`BesideSpec`, one for each property of the run and one for the four of the soul:
`WellTypedBeside`, `SoulBeside`, `RootsFated`, `VerdictsStand`, `StoreWellKept`, `InFlightSpared`, `SkippedIsThere`,
`NoSilentDeath`, `RowsPreserved`, `NeverSilenced`, `HeardOnce`, `WithinCapAndGap` and
`InItsOwnVoice`. The assumptions, which TLC evaluates on the run, are that bounds are
numbers (caps, thresholds and the heartbeat's period not 0) and holders and series
finite, and four that say something of the code:
what the sampler writes in a turn of heartbeats fits into the rows retention keeps
(`MetricsAssumption`; a million by default), the log of sends keeps a day's and the
gap is at most a day (`PacingAssumption`; 20 entries, 3 a day, an hour), no message
is called "no message", and the gateway is one of the processes.

**ObservabilityProofs.** Each theorem is about its part alone, with the hypothesis
that the bounds are numbers (`...Sane`).

`NoneLeftOpen` (`Fated`, `Discoverable`) and `LastWords` (`VerdictStands`) of `Turns`. The
verdict that stands on disk was first queued, and what is still in the queue is
applied over it: `LastWord` says that behind a verdict nothing more is queued about
its root, `Untold` that a turn which is open or being closed has no verdict anywhere,
`OnePerSession` (with the lock on the ledger) why no second close can come, and
`Found` that the row of a root is applied before those of its children.

`KeptWell` (`HeldRuns`, `Accounted`) of `TraceStore`. `Registered`: the registry counts the
holders, and the writer they hold is not the one that is about to be stopped.
`Minted`: an id that was minted above the floor is on no disk and in no transaction,
whichever of two threads carries it, which is why only an early id can clash.
`Traced` says where each line of the human log is.

`NeverInFlight` (`Spared`) and `NotForever` (`Reclaimable`) of `Retention`. `Followed`: once an
exchange ended, behind each opening of it that is still in line comes its
resolution, and an opening in the batch or the index has one on the way; an item
may be dropped at every stage, and only a lost resolution breaks this (`astray`).

`WhatIsSkippedIsThere` (`Believed`) of `Metrics`. `Fresh` bounds the rows written since the
reader's point by the cycles since the last heartbeat (`Age`) times the series, so
that retention by rows, which keeps the newest, cannot have reached it. A cycle that
prunes by size (`OversizeStep`) may leave nothing, and owes nothing until a heartbeat.

**HostingProofs.** `NoLastCopyLost` (`Preserved`) for any processes, rows, rotten
stamps and amount of trouble. While nobody raced, `Orderly` holds: who migrates has
the file alone (`Alone`) and knows what is left to apply (`Marked`), so the mark it
inserts is never taken; a file of the shape that is rebuilt has applied a version
and so gets a backup (`OldMarked`); who may drop the rows has them in that backup
and on the disk (`Saved`); and what was written is in the live file or in the
backup of who will restore it (`Returning`). That a brand-new file gets no backup
is safe only because of `OldMarked`.

`Honesty` (`Honest`) for any processes, loops and starts. `HostedInv` says what the
health is while the host believes the adapter up, `QuietInv` that nothing ticks in a
gateway that did not come up, `BlamedInv` that a blamed process stays aborted with
its own health saying so; the last is why a record that another process clears can
do no harm.

`OwnVoice` (`Voiced`) for any number of texts and sessions. `FitInv` is the heart: in
a session that took no agent over, every prompt in use is the present text, or the
text was written since the session began, which is what `identity_slot_is_stale` sees,
where it can read (`Outdated` is the fact, `Stale` the answer). `AskedInv` carries the
pre-flight's finding to the turn that runs later, `PastInv` says that what is
remembered is not from the future, and `PromiseInv` that no prompt in use is older
than the last promise.

**ContactProofs.** `NothingForgotten` (`Faithful`, and the types) of `Ambient`. The lemma
`Picking` is that the newest of what the store was asked for, without what cools
down, are the newest of all that is fit, when the unfit rows leave room;
`Stamping`, that the ring stays free of repetitions and within its cap. `Watched`: two
turns that are about to create the same commitment, and one that is about to create
a commitment that is there, are known. `Sown`: a commitment that a thought makes is in
no turn's hands, and when it is there its thought is retired, or known to have been
seeded anew; so the upsert without a look finds no row, or a known one.

`ReachesOnce` (`Sensed`) of `Intake`. `Kept`: a message felt within its time is still in
the ring, no further from its end than the messages recorded after it, so neither the
sweep nor the cap can have taken it while it must be remembered; `Past`: no entry is
from the future. The types hold that the ring is in the order of time.

`CapAndGap` (`Spaced`) of `Pacing`. The backstop is asked at a dispatch, with the log of
that moment, and the send is logged at a read-back. `LetThrough`: while a launch is
in flight the log would still let it through at the moment it was launched.
`Aligned`: the log is the end of what was really said, entry by entry and no earlier,
although it is cut and cleared.

**Only model-checked**: `Released`, `ClaimEnds` and `Retires`, since liveness under
fairness and `ENABLED` are out of the prover's reach, and the violations of section 4,
which are behaviours. Also out of reach are induction over data (what a recursive
function computes for every input) and anything in a module with a `RECURSIVE`
operator; the modules need neither.

## 6. Not modelled, and what is left

Left out for good: floating-point dynamics of affect, energy's circadian phase and
the felt words (they decide when a gate opens, and the gates are choices), the
composition of prompts, packets and views, JSON encoding, the host's own session
handling. `core/receptivity.py` and the user model are documented as a veto over
reaching out, but only the debug view evaluates them: no launch asks, so there is
no behaviour to model. The backpressure of `core/intake.py` (a cap of eight
best-effort signals) is left out because no frame in production carries more than
two. Several session lanes and the in-memory buffer are left out of `Noticing`,
the staleness of a silent loop and the fault ring out of `Supervision`, attributes
and the formats of ids out of `Turns`.

Hazards without a property are listed in `PROJECT.json` with the reason:
`_rollback`'s stale transition (two transactions taken as one step), the
intention's row after `force_wake` and `satiate`, the factory wipe beside a frame
(a whole-row write without the lock, as in `actor_birth`), and a completion that
raises and whose clear raises too: the pending id stays, and since a reconnect
keeps the runner and does not recover it, internal cognition stops until the next
real start. `Noticing` has these steps; `ClaimEnds` speaks of the claims only,
not of the launches that are refused meanwhile.

What would come next, in this order: the admin commands on the lane's records,
with `_rollback` as two transactions, in `ContactLane`; several session lanes in
`Noticing`.
