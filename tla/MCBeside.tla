------------------------------ MODULE MCBeside ------------------------------
(***************************************************************************)
(* What runs beside the heartbeat, for TLC: the soul, the turn recorder,   *)
(* the trace store, its retention, the metrics, the supervision of the     *)
(* brain, the migrations, what the injectors surface, the intake of what   *)
(* the human says, the clock's gates on reaching out, and the voice of a   *)
(* session.  The parts share no state, so a behaviour picks one and leaves *)
(* the others alone: their state spaces add up instead of multiplying.     *)
(* The soul has its own variables; the other parts take x1 to x15 in turn, *)
(* and what a part leaves over stays 0.                                    *)
(***************************************************************************)
EXTENDS Soul, Sequences, FiniteSets, TLC

CONSTANTS w1, bad,                    \* two texts, one refused by the guard
          t1, t2, t3, s1, s2, c1,     \* turns of two sessions, a call
          register, adapter,          \* the holders of a writer
          a, b, Absent,               \* series
          Turns, SessionOf, Calls, MaxEntries, MaxQueue, MaxRoots, MaxMishaps,
          Holders, MaxWriters, MaxEvents,
          LastTrace, MaxRows, MaxTraces, MaxLine, MaxBatch, MaxLosses,
          Series, MaxValue, HeartbeatEvery, MaxSamples, MaxFaults,
          gateway, serve, Processes, Gateway, MaxLoops, MaxStarts,
          r1, r2, Rows, Rotten, MaxBuilds,
          Sessions, TopN, RingCap, Factor, Floor, MaxSurfaced, MaxBeliefs, MaxCommitments,
          MaxTurns,
          i1, i2, Ids, Ttl, IdCap, UMax, Beta, Threshold, MaxNow,
          Window, Backoff1, Growth, BackoffMax, Grace, Deadline, Day, MaxPerDay, Gap, Keep,
          LastNow, MaxLaunches,
          LastStamp

TwoWords == {w1, bad}
OneBad   == {bad}
TwoSessions == t1 :> s1 @@ t2 :> s1 @@ t3 :> s2
\* Two turns of a session are alike.
Alike == Permutations({t1, t2})

\* What the proofs use of the constants.
ASSUME TurnsAssumption == {MaxEntries, MaxQueue, MaxRoots, MaxMishaps} \subseteq Nat
ASSUME TraceStoreAssumption ==
  {MaxWriters, MaxEvents, MaxQueue, MaxMishaps} \subseteq Nat /\ IsFiniteSet(Holders)
ASSUME RetentionAssumption ==
  {LastTrace, MaxRows, MaxTraces, MaxLine, MaxBatch, MaxLosses} \subseteq Nat
\* What a turn of heartbeats writes of all the series is kept: at most
\* HeartbeatEvery rows of each (metrics_store.py keeps a million rows).  What
\* retention by size takes is not bounded by it (Metrics' CyclesOversize).
ASSUME MetricsAssumption ==
  /\ {MaxValue, MaxSamples, MaxFaults} \subseteq Nat /\ HeartbeatEvery \in Nat \ {0}
  /\ IsFiniteSet(Series) /\ Absent \notin Nat
  /\ HeartbeatEvery * Cardinality(Series) <= MaxSamples
ASSUME SupervisionAssumption == Gateway \in Processes /\ {MaxLoops, MaxStarts} \subseteq Nat
ASSUME MigrationAssumption == {MaxMishaps, MaxBuilds} \subseteq Nat
ASSUME AmbientAssumption ==
  {TopN, RingCap, Factor, Floor, MaxSurfaced, MaxBeliefs, MaxCommitments, MaxTurns} \subseteq Nat
ASSUME IntakeAssumption ==
  /\ {Ttl, UMax, Beta, MaxFaults} \subseteq Nat /\ {IdCap, Threshold, MaxNow} \subseteq Nat \ {0}
  /\ "no message" \notin Ids
\* The log of sends keeps a day's (20 of them, at most 3 a day) and the gap is
\* no longer than a day (an hour): the defaults of core/backstop.py.
ASSUME PacingAssumption ==
  /\ {Window, Deadline, Day, Gap, Keep, MaxLaunches} \subseteq Nat /\ Gap <= Day
  /\ {LastNow, MaxPerDay} \subseteq Nat \ {0} /\ MaxPerDay <= Keep
ASSUME WakingAssumption == LastStamp \in Nat \ {0}

VARIABLES part,                       \* the part that this behaviour is about
          x1, x2, x3, x4, x5, x6, x7, x8, x9, x10, x11, x12, x13, x14, x15

shared == <<x1, x2, x3, x4, x5, x6, x7, x8, x9, x10, x11, x12, x13, x14, x15>>

T == INSTANCE Turns WITH turnOf <- x1, ledger <- x2, opening <- x3, closing <- x4, calls <- x5,
       queue <- x6, rows <- x7, kids <- x8, saved <- x9, savedKids <- x10, pending <- x11,
       mishaps <- x12, excused <- x13
W == INSTANCE TraceStore WITH reg <- x1, refs <- x2, hold <- x3, thread <- x4, releasing <- x5,
       inbox <- x6, txn <- x7, counter <- x8, events <- x9, misses <- x10, logged <- x11,
       early <- x12, clashed <- x13, failed <- x14, landed <- x15
R == INSTANCE Retention WITH sent <- x1, flight <- x2, line <- x3, batch <- x4, stored <- x5,
       index <- x6, losses <- x7, astray <- x8
M == INSTANCE Metrics WITH value <- x1, last <- x2, cycle <- x3, sampling <- x4, txn <- x5,
       newest <- x6, behind <- x7, faults <- x8, unhealed <- x9, MaxRows <- MaxSamples
V == INSTANCE Supervision WITH stage <- x1, health <- x2, blamed <- x3, record <- x4,
       running <- x5, started <- x6, current <- x7, shuttingDown <- x8, fatal <- x9,
       attached <- x10, hosted <- x11, starts <- x12
G == INSTANCE Migration WITH file <- x1, copies <- x2, at <- x3, pending <- x4, kept <- x5,
       held <- x6, written <- x7, raced <- x8, interrupted <- x9, condemnedYet <- x10,
       discarded <- x11, mishaps <- x12, builds <- x13
A == INSTANCE Ambient WITH learned <- x1, fit <- x2, ring <- x3, frame <- x4, owed <- x5,
       thought <- x6, turn <- x7, turns <- x8, doubled <- x9

I == INSTANCE Intake WITH now <- x1, ring <- x2, u <- x3, tickedAt <- x4, heardAt <- x5,
       born <- x6, failures <- x7, feltAt <- x8, since <- x9, numb <- x10, again <- x11,
       faults <- x12
P == INSTANCE Pacing WITH now <- x1, anchor <- x2, declinedAt <- x3, declines <- x4,
       actedAt <- x5, unanswered <- x6, log <- x7, pending <- x8, desire <- x9,
       composing <- x10, answer <- x11, launches <- x12, said <- x13, MaxNow <- LastNow
K == INSTANCE Waking WITH stamp <- x1, soulAt <- x2, session <- x3, agent <- x4, turn <- x5,
       impulse <- x6, born <- x7, promised <- x8, alien <- x9

everything == <<part, vars, shared>>

\* The soul stands still while another part moves.
AtRest == Init /\ disk = Seed

\* The variables a part leaves over: those from the ninth, tenth, thirteenth
\* or fourteenth on.
From14 == x14 = 0 /\ x15 = 0
From13 == x13 = 0 /\ From14
From10 == x10 = 0 /\ x11 = 0 /\ x12 = 0 /\ From13
From9  == x9 = 0 /\ From10
From1  == x1 = 0 /\ x2 = 0 /\ x3 = 0 /\ x4 = 0 /\ x5 = 0 /\ x6 = 0 /\ x7 = 0 /\ x8 = 0
          /\ From9
after13 == <<x14, x15>>
after12 == <<x13, after13>>
after9  == <<x10, x11, x12, after12>>
after8  == <<x9, after9>>

\* The part that was picked moves, and nothing else.
Moves(p)  == part = p /\ part' = part
Soulful   == Moves("soul") /\ UNCHANGED shared
Turning   == Moves("turns") /\ UNCHANGED <<vars, after13>>
Storing   == Moves("store") /\ UNCHANGED vars
Retaining == Moves("retention") /\ UNCHANGED <<vars, after8>>
Measuring == Moves("metrics") /\ UNCHANGED <<vars, after9>>
Hosting   == Moves("supervision") /\ UNCHANGED <<vars, after12>>
Migrating == Moves("migration") /\ UNCHANGED <<vars, after13>>
Holding   == Moves("ambient") /\ UNCHANGED <<vars, after9>>
Hearing   == Moves("intake") /\ UNCHANGED <<vars, after12>>
Reaching  == Moves("pacing") /\ UNCHANGED <<vars, after13>>
Awaking   == Moves("waking") /\ UNCHANGED <<vars, after9>>

BesideInit ==
  \/ part = "soul" /\ Init /\ From1
  \/ part = "turns" /\ AtRest /\ T!Init /\ From14
  \/ part = "store" /\ AtRest /\ W!Init
  \/ part = "retention" /\ AtRest /\ R!Init /\ From9
  \/ part = "metrics" /\ AtRest /\ M!Init /\ From10
  \/ part = "supervision" /\ AtRest /\ V!Init /\ From13
  \/ part = "migration" /\ AtRest /\ G!Init /\ From14
  \/ part = "ambient" /\ AtRest /\ A!Init /\ From10
  \/ part = "intake" /\ AtRest /\ I!Init /\ From13
  \/ part = "pacing" /\ AtRest /\ P!Init /\ From14
  \/ part = "waking" /\ AtRest /\ K!Init /\ From10

BesideNext ==
  \/ \E d \in Words \cup {Seed} : Soulful /\ HumanSaves(d)
  \/ \E d \in Words : Soulful /\ BeingWrites(d)
  \/ Soulful /\ BeingRecords
  \/ \E done \in Steps \ {"stamped"} : Soulful /\ BeingStops(done)
  \/ \E d \in Docs : Soulful /\ OwnerReverts(d)
  \/ Soulful /\ OwnerRecords
  \/ \E done \in Steps \ {"recorded"} : Soulful /\ OwnerStops(done)
  \/ Soulful /\ Composes
  \/ Soulful /\ Tells
  \/ Soulful /\ Registers
  \/ Soulful /\ Seeds
  \/ Soulful /\ Connects
  \/ \E done \in Steps \ {"kept"} : Soulful /\ ConnectsBadly(done)
  \/ Soulful /\ Resets
  \/ Soulful /\ Crash

  \/ \E t \in Turns : \/ Turning /\ T!Enters(t)
                      \/ Turning /\ T!Opens(t)
                      \/ Turning /\ T!Closes(t)
  \/ Turning /\ \E c \in x4 : T!Completes(c) \/ T!Ends(c)
  \/ \E call \in Calls, t \in Turns : Turning /\ T!CallBegins(call, t)
  \/ Turning /\ \E k \in x5 : T!CallEnds(k)
  \/ Turning /\ T!Applies
  \/ Turning /\ T!ApplyFails
  \/ Turning /\ T!Commits
  \/ Turning /\ T!CommitFails
  \/ Turning /\ T!Restarts

  \/ \E h \in Holders : \/ Storing /\ W!Acquires(h)
                        \/ Storing /\ W!Releases(h)
  \/ Storing /\ \E r \in x5 : W!ReleaseGoesOn(r)
  \/ \E w \in W!Writers : \/ Storing /\ W!Logs(w)
                          \/ Storing /\ W!Starts(w)
                          \/ Storing /\ W!StartFails(w)
                          \/ Storing /\ W!Applies(w)
                          \/ Storing /\ W!ApplyFails(w)
                          \/ Storing /\ W!Commits(w)
                          \/ Storing /\ W!Finishes(w)
  \/ Storing /\ W!Restarts

  \/ \E x \in R!Traces : \/ Retaining /\ R!Records(x)
                         \/ Retaining /\ R!Launches(x)
                         \/ Retaining /\ R!Resolves(x)
                         \/ Retaining /\ R!ResolvesUnseen(x)
                         \/ Retaining /\ R!GraceEnds(x)
  \/ Retaining /\ R!Applies
  \/ Retaining /\ R!ApplyFails
  \/ Retaining /\ R!Commits
  \/ \E cutoff \in 0 .. LastTrace + 1 : Retaining /\ R!CommitsAndPrunes(cutoff)
  \/ Retaining /\ R!Restarts

  \/ \E s \in Series, v \in M!Values : Measuring /\ M!Emits(s, v)
  \/ Measuring /\ M!Starts
  \/ Measuring /\ M!Cycles
  \/ Measuring /\ M!CyclesOversize
  \/ Measuring /\ M!DefsFail
  \/ Measuring /\ M!InsertFails
  \/ Measuring /\ M!CommitFails
  \/ Measuring /\ M!CyclesAfterSleep
  \/ Measuring /\ M!Stops
  \/ Measuring /\ M!Restarts

  \/ \E p \in Processes : \/ Hosting /\ V!Starts(p)
                          \/ Hosting /\ V!RegistersCommand(p)
                          \/ Hosting /\ V!OpensBuffer(p)
                          \/ Hosting /\ V!WiresObservers(p)
                          \/ Hosting /\ V!WiresAmbient(p)
                          \/ Hosting /\ V!WiresTools(p)
                          \/ Hosting /\ V!WiresPlatform(p)
                          \/ Hosting /\ V!WireFails(p)
                          \/ Hosting /\ V!UnwiredFails(p)
                          \/ Hosting /\ V!Exits(p)
  \/ Hosting /\ V!Connects
  \/ Hosting /\ V!WriterFails
  \/ Hosting /\ V!LoopFails
  \/ Hosting /\ V!Disconnects
  \/ \E l \in 1 .. MaxLoops : Hosting /\ V!Dies(l)

  \/ \E p \in Processes : \/ Migrating /\ G!Checks(p)
                          \/ Migrating /\ G!MovesAside(p)
                          \/ Migrating /\ G!Lists(p)
                          \/ Migrating /\ G!BacksUp(p)
                          \/ \E v \in G!Versions : Migrating /\ G!Creates(p, v)
                          \/ Migrating /\ G!Skips(p)
                          \/ Migrating /\ G!Reads(p)
                          \/ Migrating /\ G!Drops(p)
                          \/ Migrating /\ G!Refills(p)
                          \/ Migrating /\ G!Refuses(p)
                          \/ Migrating /\ G!StepFails(p)
                          \/ Migrating /\ G!CheckFails(p)
                          \/ Migrating /\ G!RestoreBegins(p)
                          \/ Migrating /\ G!RestoreEnds(p)
                          \/ Migrating /\ G!GivesUp(p)
                          \/ Migrating /\ G!Crashes(p)
                          \/ \E r \in Rows : Migrating /\ G!Writes(p, r)
  \/ Migrating /\ G!Corrupts

  \/ \E isFit \in BOOLEAN : Holding /\ A!Learns(isFit)
  \/ Holding /\ A!FrameLoads
  \/ Holding /\ A!FrameCommits
  \/ Holding /\ A!FrameRaises
  \/ /\ Holding
     /\ \E c \in A!Seeded : A!Crystallizes(c) \/ A!ThoughtComes(c) \/ A!ThoughtEnds(c)
  \/ \E s \in Sessions : \/ Holding /\ A!LooksAtRing(s)
                         \/ Holding /\ A!PicksBeliefs(s)
                         \/ Holding /\ A!StampsAndShows(s)
                         \/ Holding /\ A!Creates(s)
                         \/ Holding /\ A!TurnEnds(s)
  \/ \E s \in Sessions, c \in A!Commitments :
       \/ Holding /\ A!LooksFor(s, c)
       \/ \E to \in A!Closed \cup {"deferred"} : Holding /\ A!Moves(s, c, to)

  \/ \E outs \in I!Outs : \/ \E id \in Ids : Hearing /\ I!Inbound(id, outs)
                          \/ Hearing /\ I!Beat(outs)
                          \/ Hearing /\ I!BeatAborts(outs)
  \/ Hearing /\ I!Passes
  \/ Hearing /\ I!Births
  \/ Hearing /\ I!Resets
  \/ Hearing /\ I!Restarts
  \/ \E level \in 0 .. UMax : Hearing /\ I!OwnerSets(level)

  \/ Reaching /\ P!Wakes
  \/ Reaching /\ P!Holds
  \/ Reaching /\ P!Launches
  \/ \E verdict \in {"sent", "silent"} : Reaching /\ P!TurnEnds(verdict)
  \/ Reaching /\ P!TurnLost
  \/ Reaching /\ P!ReadsSent
  \/ Reaching /\ P!ReadsSilent
  \/ Reaching /\ P!ReadsStale
  \/ Reaching /\ P!Inbound
  \/ Reaching /\ P!ForceWake
  \/ Reaching /\ P!Satiate
  \/ Reaching /\ P!Resets
  \/ Reaching /\ P!Passes

  \/ Awaking /\ K!HumanSpeaks
  \/ Awaking /\ K!ImpulseRuns
  \/ \E isDue, readable \in BOOLEAN : Awaking /\ K!Injects(isDue, readable)
  \/ Awaking /\ K!HearsImpulse
  \/ \E recorded \in BOOLEAN : Awaking /\ K!WritesSoul(recorded)
  \/ \E outcome \in K!Outcomes :
       \/ Awaking /\ K!FallsAsleep(outcome)
       \/ Awaking /\ K!OwnerReverts(outcome)
       \/ \E delivered, readable \in BOOLEAN : Awaking /\ K!BirthTick(outcome, delivered, readable)
  \/ Awaking /\ K!TurnEnds
  \/ Awaking /\ K!Edits
  \/ Awaking /\ K!FallsQuiet
  \/ Awaking /\ K!NewCommand
  \/ Awaking /\ K!HostSwitches
  \/ Awaking /\ K!Restarts

BesideSpec == BesideInit /\ [][BesideNext]_everything

-----------------------------------------------------------------------------
(* The parts' properties, under the names a configuration can give. *)

\* The types of the part that moves.
Types ==
  CASE part = "soul" -> TypeOK [] part = "turns" -> T!TypeOK [] part = "store" -> W!TypeOK
    [] part = "retention" -> R!TypeOK [] part = "metrics" -> M!TypeOK
    [] part = "supervision" -> V!TypeOK [] part = "migration" -> G!TypeOK
    [] part = "ambient" -> A!TypeOK [] part = "intake" -> I!TypeOK
    [] part = "pacing" -> P!TypeOK [] part = "waking" -> K!TypeOK

\* Turns: a verdict on disk is the last word.
VerdictStands == [][part = "turns" => T!KeepsVerdicts]_everything
\* Turns: a root without a verdict is on its way to one, or excused, and a
\* child on disk has its root there too.
WellRooted == part = "turns" => T!Fated /\ T!Discoverable
\* TraceStore: a writer that is held is not stopped, and what the human log
\* shows is in the store or accounted for.  Retention: an exchange that ended
\* does not stay protected.
WellKept ==
  /\ part = "store" => W!HeldRuns /\ W!Accounted
  /\ part = "retention" => R!Reclaimable
\* Retention: a trace goes whole, and never while it is in flight and indexed.
Spared == [][part = "retention" => R!Spares]_everything
\* Metrics: what the sampler would skip is there to be read.
Believed == part = "metrics" => M!Believed
\* Supervision: no brain dies in silence, no failed boot goes unexplained.
Honest == part = "supervision" => V!Honest
\* Migration: no failure destroys the last copy of a row.
Preserved == part = "migration" => G!Preserved
\* Ambient: what is fit to surface is not silenced, what was closed stays so.
Faithful == [][part = "ambient" => A!NotSilenced /\ A!StaysClosed]_everything
\* Intake: what the human says reaches the drive, and reaches it once.
Sensed == part = "intake" => I!Sensed
\* Pacing: the texts that were read back keep the daily cap and the gap.
Spaced == part = "pacing" => P!Spaced
\* Waking: the being is born, and comes back, in its own voice.
Voiced == part = "waking" => K!Voiced
=============================================================================
