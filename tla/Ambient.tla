------------------------------ MODULE Ambient ------------------------------
(***************************************************************************)
(* What the being holds, carried into its live turns: beliefs, surfaced a  *)
(* few at a time with a cooldown ring, and commitments, surfaced as long   *)
(* as they are owed and closed or set aside by the `commitment` tool.      *)
(*                                                                         *)
(* The injector of beliefs reads the ring, then the rows, then merges the  *)
(* ids it surfaced into the ring; the heartbeat's frame loads the State    *)
(* and commits it whole, with the ring it loaded.  The tool looks for a    *)
(* row and creates it in two steps, and closes it by a guarded transition. *)
(* Turns of different sessions do all of this at the same time.  A frame   *)
(* also makes commitments, without a look: the verdict on a thought may    *)
(* crystallize it.  Those have ids of their own, by thought: Seeded.       *)
(*                                                                         *)
(* A belief is its rank by creation; its text, confidence and sensitivity  *)
(* are reduced to whether it is fit to surface.  A commitment is its rank  *)
(* by salience.                                                            *)
(***************************************************************************)
EXTENDS Naturals, FiniteSets, Sequences, Functions

CONSTANTS Sessions,
          TopN,           \* beliefs surfaced in a turn
          RingCap,        \* SURFACED_BELIEF_IDS_CAP
          Factor, Floor,  \* the superset the store is asked for
          MaxSurfaced,    \* commitments surfaced in a turn
          MaxBeliefs, MaxCommitments,  \* bounds
          MaxTurns                     \* bound: turns

Commitments == 1 .. MaxCommitments
Closed == {"honoured", "dropped"}
CommitmentStates == {"absent", "active", "deferred"} \cup Closed
NoFrame == <<0>>

VARIABLES
  learned,   \* beliefs so far: 1 .. learned, the newest last
  fit,       \* those confident enough and not private
  ring,      \* State.surfaced_belief_ids, the oldest first
  frame,     \* the ring a heartbeat's frame has loaded, or NoFrame
  owed,      \* the state of each commitment's row
  thought,   \* the thought of each seeded commitment: is it live, or retired?
  turn,      \* per session: what its turn is doing
  turns,     \* bound: turns so far
  doubled    \* history: commitments two turns were creating at once, or whose
             \* retired thought was seeded anew

vars == <<learned, fit, ring, frame, owed, thought, turn, turns, doubled>>

Beliefs == 1 .. learned
Idle          == [at |-> "idle"]
Looked(cool)  == [at |-> "looked", cool |-> cool]
Picked(ids)   == [at |-> "picked", ids |-> ids]
Talks(shown)  == [at |-> "talking", shown |-> shown]
Creating(c)   == [at |-> "creating", what |-> c]

Activities == {Idle} \cup {Looked(cool) : cool \in SUBSET Beliefs}
              \cup {Picked(ids) : ids \in SUBSET Beliefs}
              \cup {Talks(shown) : shown \in SUBSET Commitments}
              \cup {Creating(c) : c \in Commitments}

TypeOK ==
  /\ learned \in 0 .. MaxBeliefs /\ fit \subseteq Beliefs
  /\ ring \in Seq(Beliefs) /\ Len(ring) <= RingCap /\ IsInjective(ring)
  /\ frame = NoFrame \/ (frame \in Seq(Beliefs) /\ Len(frame) <= RingCap)
  /\ owed \in [Commitments -> CommitmentStates]
  /\ \E S \in SUBSET Commitments : thought \in [S -> {"none", "live", "retired"}]
  /\ turn \in [Sessions -> Activities]
  /\ turns \in 0 .. MaxTurns /\ doubled \subseteq Commitments

Init ==
  /\ learned = 0 /\ fit = {} /\ ring = <<>> /\ frame = NoFrame
  /\ owed = [c \in Commitments |-> "absent"]
  /\ \E S \in SUBSET Commitments : thought = [c \in S |-> "none"]
  /\ turn = [s \in Sessions |-> Idle]
  /\ turns = 0 /\ doubled = {}

\* The commitments that a thought may crystallize into.
Seeded == DOMAIN thought

Does(s, activity) == turn' = [turn EXCEPT ![s] = activity]

\* The n greatest and the n least of a set of numbers.
Newest(S, n) == {x \in S : Cardinality({y \in S : y > x}) < n}
Salient(S, n) == {x \in S : Cardinality({y \in S : y < x}) < n}

-----------------------------------------------------------------------------
(* Beliefs                                                                 *)

\* A pass of noticing commits a belief; nothing in the code ends one.
Learns(isFit) ==
  /\ learned < MaxBeliefs
  /\ learned' = learned + 1
  /\ fit' = IF isFit THEN fit \cup {learned'} ELSE fit
  /\ UNCHANGED <<ring, frame, owed, thought, turn, turns, doubled>>

\* Mutant of Limit: what a turn surfaces, the ids of the ring not counted.
LimitOwn(cool) == TopN

\* A slot for each id of the ring, and TopN for fresh beliefs.
Limit(cool) == TopN + Cardinality(cool)

FetchSize(limit) == IF limit * Factor > Floor THEN limit * Factor ELSE Floor

\* read_active_beliefs: the fit ones among the newest rows.
ReadActiveBeliefs(limit) == Newest(Newest(Beliefs, FetchSize(limit)) \cap fit, limit)

Picks(cool) == Newest(ReadActiveBeliefs(Limit(cool)) \ cool, TopN)

\* A turn begins: the injector loads the State.
LooksAtRing(s) ==
  /\ turn[s] = Idle /\ turns < MaxTurns
  /\ turns' = turns + 1
  /\ Does(s, Looked(Range(ring)))
  /\ UNCHANGED <<learned, fit, ring, frame, owed, thought, doubled>>

\* It reads the rows; with nothing to surface it stamps nothing.
PicksBeliefs(s) ==
  /\ turn[s].at = "looked"
  /\ Does(s, Picked(Picks(turn[s].cool)))
  /\ UNCHANGED <<learned, fit, ring, frame, owed, thought, turns, doubled>>

\* The ids of a pick, the newest first.
Descending(q) == \A i, j \in DOMAIN q : i < j => q[i] > q[j]
NewestFirst(ids) == CHOOSE q \in [1 .. Cardinality(ids) -> ids] : Descending(q)

\* The newest RingCap ids of a ring.
Capped(whole) ==
  SubSeq(whole, 1 + (IF Len(whole) > RingCap THEN Len(whole) - RingCap ELSE 0), Len(whole))

\* stamp_surfaced_beliefs: the new ids at the end, the oldest fall out.
RingWith(ids) == Capped(ring \o NewestFirst(ids \ Range(ring)))

\* The active commitments, the most salient first, and one more than may be
\* shown: it tells that some are left out.
ReadActiveCommitments == Salient({c \in Commitments : owed[c] = "active"}, MaxSurfaced + 1)

\* The stamp, then the next injector, which shows what is owed.
StampsAndShows(s) ==
  /\ turn[s].at = "picked"
  /\ ring' = RingWith(turn[s].ids)
  /\ Does(s, Talks(Salient(ReadActiveCommitments, MaxSurfaced)))
  /\ UNCHANGED <<learned, fit, frame, owed, thought, turns, doubled>>

\* The heartbeat's frame: a load, and a commit of the whole row.
FrameLoads ==
  /\ frame = NoFrame
  /\ frame' = ring
  /\ UNCHANGED <<learned, fit, ring, owed, thought, turn, turns, doubled>>

Commits ==
  /\ frame # NoFrame
  /\ ring' = frame /\ frame' = NoFrame
  /\ UNCHANGED <<learned, fit, turn, turns>>

FrameCommits == Commits /\ UNCHANGED <<owed, thought, doubled>>

\* The frame or its commit raises (a guard of a transition failed).
FrameRaises ==
  /\ frame # NoFrame
  /\ frame' = NoFrame
  /\ UNCHANGED <<learned, fit, ring, owed, thought, turn, turns, doubled>>

-----------------------------------------------------------------------------
(* Commitments                                                             *)

\* Mutant of MayCreate: what is no longer active may be created again.
MayCreateUnlessHeld(c) == owed[c] # "active"
\* A row in any state is never created again.
MayCreate(c) == owed[c] = "absent"

\* The tool looks for the row; what it creates has an id by its content alone.
LooksFor(s, c) ==
  /\ turn[s].at = "talking" /\ c \notin Seeded /\ MayCreate(c)
  /\ doubled' = IF \E z \in Sessions : turn[z] = Creating(c) THEN doubled \cup {c} ELSE doubled
  /\ Does(s, Creating(c))
  /\ UNCHANGED <<learned, fit, ring, frame, owed, thought, turns>>

\* It puts it, and put is an upsert.
Creates(s) ==
  /\ turn[s].at = "creating"
  /\ owed' = [owed EXCEPT ![turn[s].what] = "active"]
  /\ Does(s, Talks({}))
  /\ UNCHANGED <<learned, fit, ring, frame, thought, turns, doubled>>

\* discharge and defer: guarded by the active state, of any id the model names.
Moves(s, c, to) ==
  /\ turn[s].at = "talking"
  /\ owed[c] = "active"
  /\ owed' = [owed EXCEPT ![c] = to]
  /\ UNCHANGED <<learned, fit, ring, frame, thought, turn, turns, doubled>>

\* Mutant of Crystallizes: the thought is not resolved along with it.
CrystallizesUnresolved(c) ==
  /\ Commits /\ thought[c] = "live"
  /\ owed' = [owed EXCEPT ![c] = "active"]
  /\ UNCHANGED <<thought, doubled>>

\* The completion of a pass over the thought commits what it crystallized into,
\* and resolves the thought: one commit, and the put is an upsert without a look.
Crystallizes(c) ==
  /\ Commits /\ thought[c] = "live"
  /\ owed' = [owed EXCEPT ![c] = "active"]
  /\ thought' = [thought EXCEPT ![c] = "retired"]
  /\ UNCHANGED doubled

\* The thought comes with the commit of a frame; a retired one comes again when
\* the owner seeds it anew (/lifemodel think, a load and a commit too, which
\* puts it active without a look).
ThoughtComes(c) ==
  /\ Commits /\ thought[c] # "live"
  /\ thought' = [thought EXCEPT ![c] = "live"]
  /\ doubled' = IF thought[c] = "retired" THEN doubled \cup {c} ELSE doubled
  /\ UNCHANGED owed

\* Or the thought is retired in another way.
ThoughtEnds(c) ==
  /\ Commits /\ thought[c] = "live"
  /\ thought' = [thought EXCEPT ![c] = "retired"]
  /\ UNCHANGED <<owed, doubled>>

TurnEnds(s) ==
  /\ turn[s].at = "talking"
  /\ Does(s, Idle)
  /\ UNCHANGED <<learned, fit, ring, frame, owed, thought, turns, doubled>>

Next ==
  \/ \E isFit \in BOOLEAN : Learns(isFit)
  \/ FrameLoads \/ FrameCommits \/ FrameRaises
  \/ \E c \in Seeded : Crystallizes(c) \/ ThoughtComes(c) \/ ThoughtEnds(c)
  \/ \E s \in Sessions :
       \/ LooksAtRing(s) \/ PicksBeliefs(s) \/ StampsAndShows(s) \/ Creates(s) \/ TurnEnds(s)
       \/ \E c \in Commitments :
            \/ LooksFor(s, c)
            \/ \E to \in Closed \cup {"deferred"} : Moves(s, c, to)

Spec == Init /\ [][Next]_vars

-----------------------------------------------------------------------------
\* The unfit rows are few enough not to fill what the store is asked for.
Uncrowded(cool) ==
  Cardinality(Beliefs \ fit) <= FetchSize(Limit(cool)) - (TopN + Cardinality(cool))

\* However full the ring is, a fit belief outside of it is surfaced before a
\* turn is left with fewer than it may carry.
NotSilenced ==
  \A s \in Sessions :
    (turn[s].at = "looked" /\ turn'[s].at = "picked" /\ Uncrowded(turn[s].cool))
      => turn'[s].ids = Newest(fit \ turn[s].cool, TopN)

\* What was closed or set aside is not opened again, by the tool or by a frame,
\* unless two turns were creating it at the same time or its thought, retired,
\* was seeded anew and crystallized once more.
StaysClosed ==
  \A c \in Commitments :
    (owed[c] \in Closed \cup {"deferred"} /\ owed'[c] = "active") => c \in doubled

Faithful == [][NotSilenced /\ StaysClosed]_vars
=============================================================================
