------------------------------- MODULE Intake -------------------------------
(***************************************************************************)
(* How a message of the human reaches the contact drive.                   *)
(*                                                                         *)
(* A frame drops a message whose id the ring remembers and runs its        *)
(* components in order, each isolated: the contact sensor measures the     *)
(* channel, the solitude drive integrates u from that reading, the         *)
(* aggregation reads the message itself and stamps the exchange.  The id   *)
(* is recorded only if the sensor ran; ring, u and clocks are one commit.  *)
(*                                                                         *)
(* The inbound hook builds a CoreLoop for each message; heartbeats and     *)
(* completions share the adapter's, with its circuit breaker.  Time runs   *)
(* in units in which silence raises u by one.                              *)
(***************************************************************************)
EXTENDS Naturals, FiniteSets, Sequences

CONSTANTS Ids,         \* of messages: the host may deliver one again
          Ttl, IdCap,  \* DEFAULT_RING_TTL, DEFAULT_RING_CAP
          UMax, Beta,  \* of the drive
          Threshold,   \* breaker_threshold
          MaxNow, MaxFaults  \* bounds

Components == {"sensor", "drive", "aggregation"}
NoId  == "no message"
Never == 0

VARIABLES
  now,
  ring,      \* processed_external_event_ids, the oldest first
  u,         \* the drive
  tickedAt,  \* last_tick_at
  heardAt,   \* last_exchange_at
  born,      \* whether genesis_completed_at is set
  failures,  \* of the adapter's loop: consecutive, Threshold once broken
  feltAt,    \* ghost: when the drive last took each message in
  since,     \* ghost: ids recorded since then, up to IdCap
  numb,      \* ghost: ids recorded without the drive or the aggregation
  again,     \* ghost: ids taken in again while they were to be remembered
  faults     \* how much of MaxFaults has happened

vars == <<now, ring, u, tickedAt, heardAt, born, failures, feltAt, since,
          numb, again, faults>>

Least(i, j) == IF i < j THEN i ELSE j
Less(i, j)  == IF i < j THEN 0 ELSE i - j

Init ==
  /\ now = 1 /\ ring = <<>> /\ u = 0 /\ tickedAt = Never /\ heardAt = Never /\ born = FALSE
  /\ failures = [c \in Components |-> 0]
  /\ feltAt = [i \in Ids |-> Never] /\ since = [i \in Ids |-> 0]
  /\ numb = {} /\ again = {} /\ faults = 0

-----------------------------------------------------------------------------
(* The ring. *)

\* _is_live
Live(entry) == now - entry.at <= Ttl

\* filter_external_events, for the one message a frame may carry.
Remembered == {ring[i].id : i \in {j \in DOMAIN ring : Live(ring[j])}}
Fresh(id) == id # NoId /\ id \notin Remembered

\* What is live: the ring is in the order of time, and what expired is in front.
Swept == SubSeq(ring, 1 + Cardinality({i \in DOMAIN ring : ~Live(ring[i])}), Len(ring))
\* ... and the message of the frame.
Full(id) == IF Fresh(id) THEN Append(Swept, [id |-> id, at |-> now]) ELSE Swept

\* Mutant of Recorded: the cap evicts the newest.
RecordedOldest(id) == SubSeq(Full(id), 1, Least(IdCap, Len(Full(id))))

\* record_external_events: what expired is swept, the oldest are evicted.
Recorded(id) == SubSeq(Full(id), 1 + Less(Len(Full(id)), IdCap), Len(Full(id)))

-----------------------------------------------------------------------------
(* The drive. *)

Silence == IF tickedAt = Never THEN 0 ELSE now - tickedAt

\* SolitudeDrive.step: nobody to miss before birth, no guess without a reading;
\* silence raises u, an exchange lowers it.
Level(id, ran) ==
  IF "drive" \notin ran THEN u
  ELSE IF ~born THEN 0
  ELSE IF "sensor" \notin ran THEN u
  ELSE LET risen == Least(UMax, u + Silence)
       IN IF Fresh(id) THEN Less(risen, Beta) ELSE risen

-----------------------------------------------------------------------------
(* A frame, whatever started it. *)

Felt(id, ran) == Fresh(id) /\ {"sensor", "drive"} \subseteq ran

\* What the ghosts keep of a frame.
Notes(id, ran) ==
  /\ feltAt' = IF Felt(id, ran) THEN [feltAt EXCEPT ![id] = now] ELSE feltAt
  /\ again' = IF Felt(id, ran) /\ feltAt[id] # Never
                 /\ now - feltAt[id] <= Ttl /\ since[id] < IdCap
                THEN again \cup {id} ELSE again
  /\ since' = [i \in Ids |-> IF Felt(id, ran) /\ i = id THEN 0
                             ELSE IF Fresh(id) /\ "sensor" \in ran
                               THEN Least(IdCap, since[i] + 1)
                             ELSE since[i]]
  /\ numb' = IF ~Fresh(id) \/ "sensor" \notin ran THEN numb
             ELSE IF ran = Components THEN numb \ {id} ELSE numb \cup {id}

\* Mutant of Remembers: the id is recorded whatever became of the sensor.
RemembersAnyway(id, ran) == ring' = Recorded(id)

\* The id is recorded, and the ring kept up, once the sensor has run.
Remembers(id, ran) == ring' = IF "sensor" \in ran THEN Recorded(id) ELSE ring

Frame(id, ran) ==
  /\ u' = Level(id, ran)
  /\ heardAt' = IF Fresh(id) /\ "aggregation" \in ran THEN now ELSE heardAt
  /\ Remembers(id, ran)
  /\ tickedAt' = now
  /\ Notes(id, ran)
  /\ UNCHANGED <<now, born>>

Fails(outs) ==
  /\ outs = {} \/ faults < MaxFaults
  /\ faults' = IF outs = {} THEN faults ELSE faults + 1

\* make_inbound_observer: the loop is this message's own, so its breaker is
\* closed.  A commit that fails leaves nothing behind.
Inbound(id, outs) ==
  /\ Fails(outs)
  /\ Frame(id, Components \ outs)
  /\ UNCHANGED failures

Broken == {c \in Components : failures[c] = Threshold}

\* _record_failure, and the reset of a component that ran.
Counts(outs) ==
  failures' = [c \in Components |-> IF c \in Broken THEN Threshold
                                    ELSE IF c \in outs THEN failures[c] + 1 ELSE 0]

\* A heartbeat, or a completion.
Beat(outs) ==
  /\ Fails(outs)
  /\ Frame(NoId, Components \ (outs \cup Broken))
  /\ Counts(outs)

\* Its commit fails: the breaker remembers, nothing else does.
BeatAborts(outs) ==
  /\ faults < MaxFaults /\ faults' = faults + 1
  /\ Counts(outs)
  /\ UNCHANGED <<now, ring, u, tickedAt, heardAt, born, feltAt, since, numb, again>>

-----------------------------------------------------------------------------
(* What happens around the frames. *)

Passes ==
  /\ now < MaxNow /\ now' = now + 1
  /\ UNCHANGED <<ring, u, tickedAt, heardAt, born, failures, feltAt, since,
                 numb, again, faults>>

\* write_soul ends the genesis.
Births ==
  /\ ~born /\ born' = TRUE
  /\ UNCHANGED <<now, ring, u, tickedAt, heardAt, failures, feltAt, since,
                 numb, again, faults>>

\* force-wake, nudge and satiate set u.
OwnerSets(level) ==
  /\ u' = level
  /\ UNCHANGED <<now, ring, tickedAt, heardAt, born, failures, feltAt, since,
                 numb, again, faults>>

\* The factory wipe: a newborn's row, with an empty ring.
Resets ==
  /\ ring' = <<>> /\ u' = 0 /\ tickedAt' = Never /\ heardAt' = Never /\ born' = FALSE
  /\ feltAt' = [i \in Ids |-> Never] /\ numb' = {}
  /\ UNCHANGED <<now, failures, since, again, faults>>

\* The gateway starts again, with a loop that has seen no failure.
Restarts ==
  /\ failures' = [c \in Components |-> 0]
  /\ UNCHANGED <<now, ring, u, tickedAt, heardAt, born, feltAt, since, numb,
                 again, faults>>

Outs == {outs \in SUBSET Components : Cardinality(outs) <= 1}

Next ==
  \/ \E outs \in Outs : \/ \E id \in Ids : Inbound(id, outs)
                        \/ Beat(outs)
                        \/ BeatAborts(outs)
  \/ Passes \/ Births \/ Resets \/ Restarts
  \/ \E level \in 0 .. UMax : OwnerSets(level)

Spec == Init /\ [][Next]_vars

-----------------------------------------------------------------------------
(* Properties. *)

Entries == [id : Ids, at : 1 .. MaxNow]

\* Every variable has its type; the ring is bounded, names no id twice and is
\* in the order of time, u stays between nothing and UMax (core/idempotency.py, core/solitude_drive.py).
TypeOK ==
  /\ now \in 1 .. MaxNow /\ {tickedAt, heardAt} \subseteq Never .. now
  /\ ring \in Seq(Entries) /\ Len(ring) <= IdCap
  /\ \A i, j \in DOMAIN ring : /\ ring[i].id = ring[j].id => i = j
                               /\ i <= j => ring[i].at <= ring[j].at
  /\ u \in 0 .. UMax /\ born \in BOOLEAN
  /\ failures \in [Components -> 0 .. Threshold]
  /\ feltAt \in [Ids -> Never .. now] /\ since \in [Ids -> 0 .. IdCap]
  /\ {numb, again} \subseteq SUBSET Ids /\ faults \in 0 .. MaxFaults

\* A message delivered again is not felt again, unless its time has passed or
\* the cap's worth of others came after it (core/idempotency.py).
FeltOnce == again = {}

\* What the ring remembers has landed in u and in last_exchange_at, whatever
\* components failed in between and however often the host retried
\* (core/coreloop.py: no "id whose effect never landed"), except where the
\* drive or the aggregation was the one that failed.
Landed ==
  \A i \in DOMAIN ring :
    ring[i].id \notin numb => feltAt[ring[i].id] = ring[i].at /\ heardAt >= ring[i].at

\* What the human says reaches the drive, and reaches it once.
Sensed == FeltOnce /\ Landed
=============================================================================
