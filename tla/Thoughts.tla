------------------------------ MODULE Thoughts ------------------------------
(***************************************************************************)
(* The life of a thought: it is captured, turned over in private passes,   *)
(* parked and taken up again, and retired within bounds                    *)
(* (core/thought_processing, core/thought_capture, core/thought_view,      *)
(* domain/objects/thought, the seeds of core/noticing, the tool of         *)
(* hooks.py and the owner's command in state_commands.py).                 *)
(*                                                                         *)
(* A frame decides on the records it reads when it begins and commits at   *)
(* its end.  The state-actor lock keeps other frames and captures out in   *)
(* between; the owner's commands take no lock.                             *)
(*                                                                         *)
(* A thought is its rank in salience, 1 the most salient; equal content is *)
(* the same thought, for its id is a digest of the content.                *)
(***************************************************************************)
EXTENDS Naturals, FiniteSets

CONSTANTS MaxThoughts,    \* the thoughts there are to think
          MaxParkCycles,  \* times a thought is parked
          MaxNoProgress,  \* unusable answers a thought tolerates
          SnapshotLimit,  \* records a frame reads of each live state
          MaxTrouble      \* bound of a behaviour: its failures and commands

ASSUME ThoughtsAssumption ==
  /\ {MaxThoughts, MaxParkCycles, MaxNoProgress, SnapshotLimit, MaxTrouble}
       \subseteq Nat
  /\ MaxNoProgress > 0

VARIABLES
  row,      \* the record of a thought: its state and its two counters
  due,      \* parked thoughts whose window has passed
  newer,    \* pairs of records of which the first was updated later
  owed,     \* thoughts that became a commitment
  pending,  \* the private pass in flight: its subject, or Notice
  queued,   \* the pass a heartbeat is about to launch
  frame,    \* the frame under way: what it has decided
  dead,     \* the brain loop has died
  trouble,  \* failures and commands so far
  judged,   \* ghost: answers a thought got in this life
  wasted    \* ghost: those of them that were unusable

vars == <<row, due, newer, owed, pending, queued, frame, dead, trouble, judged,
          wasted>>

All     == 1 .. MaxThoughts
None    == 0
Notice  == MaxThoughts + 1   \* a pass over the conversation: no subject
Passes  == 0 .. MaxThoughts + 1
Retired == {"resolved", "dropped", "expired"}

Absent  == [state |-> "absent", park |-> 0, np |-> 0]
Born    == [state |-> "active", park |-> 0, np |-> 0]
\* The counters of a retired thought are never read again.
Over(s) == [state |-> s, park |-> 0, np |-> 0]

In(s)   == {t \in All : row[t].state = s}
Live(t) == row[t].state \in {"active", "parked"}

NoVerdict == [id |-> None, row |-> Absent, answer |-> "transient"]
NoFrame   == [kind |-> "none", rearm |-> {}, seeds |-> {},
              verdict |-> NoVerdict, launch |-> None]

Init ==
  /\ row = [t \in All |-> Absent]
  /\ due = {} /\ newer = {} /\ owed = {}
  /\ pending = None /\ queued = None /\ frame = NoFrame /\ dead = FALSE
  /\ trouble = 0
  /\ judged = [t \in All |-> 0] /\ wasted = [t \in All |-> 0]

-----------------------------------------------------------------------------
(* What a frame reads and decides. *)

\* The snapshot: the SnapshotLimit records of a state that were updated last.
Seen(s) ==
  {t \in In(s) : Cardinality({u \in In(s) : <<u, t>> \in newer}) < SnapshotLimit}

\* Mutant of Actives: a parked thought is a candidate as well.
ActivesParked == Seen("active") \cup Seen("parked")

Actives == Seen("active")

\* Parked thoughts that are taken up again, in a frame of any kind.
Rearm == Seen("parked") \cap due

MostSalient(S) == {t \in S : \A u \in S : t <= u}

\* Mutant of ParkOrTerminate: an unusable answer forgets the park count.
ParkOrTerminateAnew(r, bad) ==
  LET np == r.np + IF bad THEN 1 ELSE 0
  IN IF bad /\ np >= MaxNoProgress THEN Over("dropped")
     ELSE IF r.park + 1 > MaxParkCycles THEN Over("expired")
     ELSE [state |-> "parked", park |-> IF bad THEN 0 ELSE r.park + 1, np |-> np]

\* Park with a wider window, or retire at one of the two bounds.
ParkOrTerminate(r, bad) ==
  LET np == r.np + IF bad THEN 1 ELSE 0
  IN IF bad /\ np >= MaxNoProgress THEN Over("dropped")
     ELSE IF r.park + 1 > MaxParkCycles THEN Over("expired")
     ELSE [state |-> "parked", park |-> r.park + 1, np |-> np]

Outcomes == {"resolve", "drop", "crystallize", "park", "malformed", "transient"}

\* decide_processing_transition; a crystallize whose commitment fails its
\* validation is malformed.
Decided(r, outcome) ==
  CASE outcome \in {"resolve", "crystallize"} -> Over("resolved")
    [] outcome = "drop"      -> Over("dropped")
    [] outcome = "park"      -> ParkOrTerminate(r, FALSE)
    [] outcome = "malformed" -> ParkOrTerminate(r, TRUE)

\* A frame that has read its snapshot, with what every frame decides.
Frame(kind) == [kind |-> kind, rearm |-> Rearm, seeds |-> {},
                verdict |-> NoVerdict, launch |-> None]

\* Bound of the model on failures and on the owner's commands.
Trouble == trouble < MaxTrouble /\ trouble' = trouble + 1

-----------------------------------------------------------------------------
(* Frames begin. *)

\* An inbound event or a read-back, on an executor thread: a launch the
\* selector emits is not dispatched.
EventFrame ==
  /\ frame = NoFrame
  /\ frame' = Frame("event")
  /\ UNCHANGED <<row, due, newer, owed, pending, queued, dead, trouble, judged,
                 wasted>>

\* A thought is picked if no pass is in flight and the interval and the budget
\* allow one; noticing gets the pass only if no thought does.
Picks(open, notice) ==
  IF pending # None \/ ~open THEN {None}
  ELSE IF Actives # {} THEN MostSalient(Actives)
  ELSE IF notice THEN {Notice} ELSE {None}

Heartbeat(open, notice) ==
  /\ frame = NoFrame /\ queued = None /\ ~dead
  /\ \E pick \in Picks(open, notice) :
       frame' = [Frame("heartbeat") EXCEPT !.launch = pick]
  /\ UNCHANGED <<row, due, newer, owed, pending, queued, dead, trouble, judged,
                 wasted>>

\* A call that failed says nothing of its thought; nor does any answer if the
\* thought is no longer active, or not in the snapshot.
Verdict(outcome) ==
  IF outcome = "transient" \/ pending \notin Actives THEN NoVerdict
  ELSE [id |-> pending, row |-> Decided(row[pending], outcome), answer |-> outcome]

\* The completion of a processing pass.
Completes(outcome) ==
  /\ frame = NoFrame /\ queued = None /\ pending \in All
  /\ frame' = [Frame("completion") EXCEPT !.verdict = Verdict(outcome)]
  /\ IF outcome = "transient" THEN Trouble ELSE UNCHANGED trouble
  /\ UNCHANGED <<row, due, newer, owed, pending, queued, dead, judged, wasted>>

\* Mutant of NewSeeds: only live thoughts are known, as in the snapshot.
NewSeedsLive(S) == {t \in S : ~Live(t)}

\* A gist that already names a record in any state is not seeded again.
NewSeeds(S) == S \cap In("absent")

\* The completion of a noticing pass, with the thoughts it seeds.
Notices(S) ==
  /\ frame = NoFrame /\ queued = None /\ pending = Notice
  /\ frame' = [Frame("completion") EXCEPT !.seeds = NewSeeds(S)]
  /\ UNCHANGED <<row, due, newer, owed, pending, queued, dead, trouble, judged,
                 wasted>>

-----------------------------------------------------------------------------
(* Frames end. *)

\* Records written in one commit carry one time and are told apart by id.
Touch(U) ==
  newer' = {e \in All \X All :
              \/ e[1] \in U /\ e[2] \notin U
              \/ e[1] \in U /\ e[2] \in U /\ e[1] < e[2]
              \/ e[1] \notin U /\ e[2] \notin U /\ e \in newer}

Subject == IF frame.verdict = NoVerdict THEN {} ELSE {frame.verdict.id}

\* Mutant of Applies: a transition that is stale is not noticed.
AppliesAnyway == TRUE

\* Each transition finds its record in the state it starts from.
Applies ==
  /\ \A t \in frame.rearm : row[t].state = "parked"
  /\ \A t \in Subject : row[t].state = "active"

Rearmed(r) == [r EXCEPT !.state = "active"]

\* The commitment a crystallizing verdict puts beside its transition.
Owes == IF frame.verdict.answer = "crystallize" THEN Subject ELSE {}

Wasted == IF frame.verdict.answer = "malformed" THEN 1 ELSE 0

\* Mutant of Pending: the id is cleared only with a verdict.
PendingKept ==
  IF frame.kind = "completion" /\ Subject # {} THEN None ELSE pending

\* The pass is over with its completion.  Its tail clears the id in a commit of
\* its own, later in the same synchronous call: only hooks' frames can come in
\* between, and those launch nothing.
Pending == IF frame.kind = "completion" THEN None ELSE pending

\* commit_tick, all or nothing; then the heartbeat's report is dispatched.
FrameCommits ==
  /\ frame # NoFrame /\ Applies
  /\ row' = [t \in All |-> IF t \in Subject THEN frame.verdict.row
                           ELSE IF t \in frame.rearm THEN Rearmed(row[t])
                           ELSE IF t \in frame.seeds THEN Born ELSE row[t]]
  /\ due' = due \ (Subject \cup frame.rearm \cup frame.seeds)
  /\ Touch(Subject \cup frame.rearm \cup frame.seeds)
  /\ owed' = owed \cup Owes
  /\ judged' = [t \in All |-> IF t \in Subject THEN judged[t] + 1
                              ELSE IF t \in frame.seeds THEN 0 ELSE judged[t]]
  /\ wasted' = [t \in All |-> IF t \in Subject THEN wasted[t] + Wasted
                              ELSE IF t \in frame.seeds THEN 0 ELSE wasted[t]]
  /\ pending' = Pending
  /\ queued' = IF frame.kind = "heartbeat" THEN frame.launch ELSE queued
  /\ frame' = NoFrame
  /\ UNCHANGED <<dead, trouble>>

\* The commit raises, on a stale transition or a failing store: nothing of it
\* lands.  A heartbeat takes the brain loop with it, a completion clears its
\* pending id, a hook goes on without its frame.  (That the clear fails as well
\* is a case of Noticing.)
FrameRaises ==
  /\ frame # NoFrame
  /\ IF Applies THEN Trouble ELSE UNCHANGED trouble
  /\ pending' = Pending
  /\ dead' = (dead \/ frame.kind = "heartbeat")
  /\ frame' = NoFrame
  /\ UNCHANGED <<row, due, newer, owed, queued, judged, wasted>>

\* The runner admits the launch, under the lock.
Launch ==
  /\ frame = NoFrame /\ queued # None
  /\ pending' = queued /\ queued' = None
  /\ UNCHANGED <<row, due, newer, owed, frame, dead, trouble, judged, wasted>>

-----------------------------------------------------------------------------
(* Captures, the owner's commands, time and crashes. *)

\* Mutant of Begins: the window that passed is kept.
BeginsDue(t) ==
  /\ row' = [row EXCEPT ![t] = Born]
  /\ due' = due
  /\ Touch({t})
  /\ judged' = [judged EXCEPT ![t] = 0] /\ wasted' = [wasted EXCEPT ![t] = 0]

\* A new life of a thought.
Begins(t) ==
  /\ row' = [row EXCEPT ![t] = Born]
  /\ due' = due \ {t}
  /\ Touch({t})
  /\ judged' = [judged EXCEPT ![t] = 0] /\ wasted' = [wasted EXCEPT ![t] = 0]

\* The create_thought tool: a thought with a record in any state is not put.
Capture(t) ==
  /\ frame = NoFrame
  /\ row[t].state = "absent"
  /\ Begins(t)
  /\ UNCHANGED <<owed, pending, queued, frame, dead, trouble>>

\* The owner's think is an upsert, at any time: the thought is active and its
\* counters start over.
Think(t) ==
  /\ Begins(t) /\ Trouble
  /\ UNCHANGED <<owed, pending, queued, frame, dead>>

\* The factory wipe: the row, then the records, in two commits.  A pass whose
\* id is wiped from the row changes no thought any more.
Reset ==
  /\ Trouble
  /\ row' = [t \in All |-> Absent]
  /\ due' = {} /\ newer' = {} /\ owed' = {} /\ pending' = None
  /\ judged' = [t \in All |-> 0] /\ wasted' = [t \in All |-> 0]
  /\ UNCHANGED <<queued, frame, dead>>

\* The window of a parked thought passes.
BecomesDue(t) ==
  /\ row[t].state = "parked" /\ t \notin due
  /\ due' = due \cup {t}
  /\ UNCHANGED <<row, newer, owed, pending, queued, frame, dead, trouble,
                 judged, wasted>>

\* The process dies and the adapter connects again: the pass is lost and
\* recover_stale clears its id.
Crash ==
  /\ Trouble
  /\ pending' = None /\ queued' = None /\ frame' = NoFrame /\ dead' = FALSE
  /\ UNCHANGED <<row, due, newer, owed, judged, wasted>>

Next ==
  \/ EventFrame
  \/ \E open, notice \in BOOLEAN : Heartbeat(open, notice)
  \/ \E outcome \in Outcomes : Completes(outcome)
  \/ \E S \in SUBSET All : Notices(S)
  \/ FrameCommits \/ FrameRaises \/ Launch
  \/ \E t \in All : Capture(t) \/ Think(t) \/ BecomesDue(t)
  \/ Reset \/ Crash

\* A frame or a launch that has begun goes on and a window passes.  Between
\* other frames the loop gets to a heartbeat with open gates (the interval
\* passes and the budget is renewed every day) and to the completion of a pass
\* (the call is bounded by a timeout), and the model answers now and then.
Fairness ==
  /\ WF_vars(FrameCommits \/ FrameRaises) /\ SF_vars(Launch)
  /\ \A t \in All : WF_vars(BecomesDue(t))
  /\ SF_vars(Heartbeat(TRUE, FALSE))
  /\ SF_vars(\E outcome \in Outcomes \ {"transient"} : Completes(outcome))
  /\ SF_vars(\E S \in SUBSET All : Notices(S))

Spec == Init /\ [][Next]_vars /\ Fairness

-----------------------------------------------------------------------------
(* Properties. *)

Rows ==
  {Absent} \cup {Over(s) : s \in Retired}
  \cup [state : {"active", "parked"}, park : 0 .. MaxParkCycles, np : Nat]

Verdicts == {NoVerdict} \cup [id : All, row : Rows, answer : Outcomes \ {"transient"}]

\* Every variable has its type: a live record is within both bounds, and only
\* a parked thought has a window that passed.
TypeOK ==
  /\ row \in [All -> Rows]
  /\ due \subseteq In("parked") /\ newer \subseteq All \X All
  /\ owed \subseteq All
  /\ pending \in Passes /\ queued \in Passes
  /\ frame \in [kind : {"none", "event", "heartbeat", "completion"},
                rearm : SUBSET All, seeds : SUBSET All, verdict : Verdicts,
                launch : Passes]
  /\ dead \in BOOLEAN /\ trouble \in 0 .. MaxTrouble
  /\ judged \in [All -> Nat] /\ wasted \in [All -> Nat]

\* A thought is chewed a bounded number of times in one life, and on fewer
\* unusable answers (thought_processing: "chewed a bounded number of times and
\* then terminates"), though verdicts are decided on a snapshot that the
\* owner's commands may have outdated when they are committed.
Chewed ==
  \A t \in All : judged[t] <= MaxParkCycles + 1 /\ wasted[t] <= MaxNoProgress

\* A pass in flight or about to start is about an active thought, or one that
\* was wiped: no call is spent on a thought that rests or was retired while
\* the launch and the call took their time.
SubjectAwake ==
  \A t \in All : t \in {pending, queued} => row[t].state \in {"active", "absent"}

\* A retired thought comes back only by the owner's think or in a new being
\* (noticing: a terminal row "must never be resurrected"; capture is
\* create-only).
StaysRetired ==
  [][\A t \in All : row[t].state \in Retired =>
       row'[t] = row[t] \/ Think(t) \/ Reset]_vars

\* A commitment lands only with the verdict that retires its thought, and a
\* commit that takes back the one takes back the other.
OwedWhole ==
  [][\A t \in All : t \in owed' \ owed =>
       row[t].state = "active" /\ row'[t].state = "resolved"]_vars

\* While the brain lives every thought is retired in the end: no salient one
\* holds up the others for ever, and parking means to return to it.
Retires == \A t \in All : Live(t) ~> (~Live(t) \/ dead)
=============================================================================
