----------------------------- MODULE ContactLane -----------------------------
(***************************************************************************)
(* The being's one lane to its human: how a desire to reach out is born,   *)
(* launched as a turn of its own, handed to the host, answered, read back  *)
(* and resolved (core/aggregation, core/cognition, core/proactive, the     *)
(* gateway's reach-in and the hooks of hooks.py).                          *)
(*                                                                         *)
(* The heartbeat, the inbound hook and the internal completion run on the  *)
(* gateway loop, one after another; a turn is composed, and its read-back  *)
(* hook runs, on an executor thread.  A frame is atomic (state-actor       *)
(* lock), but what its caller does with the frame's report is not: the     *)
(* loop keeps the State its actor cached, and a rollback or a completion's *)
(* tail commits that whole State later.                                    *)
(*                                                                         *)
(* Time is abstracted: whether the wake gates (pressure, silence window,   *)
(* backoff, backstop) are open is chosen, except where the code forces it. *)
(***************************************************************************)
EXTENDS Naturals, Sequences

CONSTANTS Cap,           \* e_max, the most energy the being can have
          Costs,         \* what one proactive turn may cost (fatigue varies it)
          MaxLaunches,   \* bound on the launches of a behaviour
          SlowTurns,     \* an own turn may outlive the contact that voids it
                         \* by more than the silence window
          Late,          \* a verdict may come after its deadline
          Losses,        \* the host may lose a turn, the gateway may die
          Completions    \* internal completions run frames too

NoCorr == 0
NoAnswer == [corr |-> NoCorr]

ASSUME CapAssumption == Cap \in Nat
ASSUME CostsAssumption == Costs \subseteq Nat \ {0}
ASSUME MaxLaunchesAssumption == MaxLaunches \in Nat
ASSUME SwitchesAssumption == {SlowTurns, Late, Losses, Completions} \subseteq BOOLEAN

VARIABLES
  db,         \* the lane's fields of the State row
  desire,     \* the live contact desire, "none" when it is terminal
  intention,  \* the live contact intention
  loop,       \* the gateway loop: idle, or what it does after a frame
  turns,      \* own turns handed to the host, in the session's order
  answer,     \* the answered turn whose read-back hook has loaded the State
  launched,   \* how many launches there were; the last correlation id
  bids,       \* ghost: longing texts said since the human was last heard
  greets      \* ghost: birth greetings said

vars == <<db, desire, intention, loop, turns, answer, launched, bids, greets>>

Quiet == [state |-> "none", spring |-> "none"]
Idle  == [at |-> "idle"]

Init ==
  /\ db = [pending |-> NoCorr, replied |-> FALSE, energy |-> Cap,
           unanswered |-> 0, heard |-> FALSE, spoke |-> FALSE, born |-> FALSE]
  /\ desire = Quiet /\ intention = "none"
  /\ loop = Idle /\ turns = <<>> /\ answer = NoAnswer
  /\ launched = 0 /\ bids = 0 /\ greets = 0

-----------------------------------------------------------------------------
(* One ExecutionFrame, on the snapshot it starts from. *)

Least(a, b) == IF a < b THEN a ELSE b

\* Bound of the model: no wake and no retry once all launches are used up.
MoreLaunches == launched < MaxLaunches

\* Mutant of FirstWaking: a greeting that was said does not count.
FirstWakingGreeted(row) == ~row.born /\ ~row.heard

\* is_first_waking: nobody yet, nobody has spoken to it, it has not greeted.
FirstWaking(row) == ~row.born /\ ~row.heard /\ ~row.spoke

\* Mutant of Stale: a birth is judged by a pressure it never had.
StaleByPressure(seen, late) ==
  \/ desire.state # "active"
  \/ seen # db.pending
  \/ db.replied
  \/ ~db.born
  \/ late

\* is_proactive_outcome_stale.  post_llm hands over the pending id it read,
\* so the correlation check compares that id with the row's.
Stale(seen, late) ==
  \/ desire.state # "active"
  \/ seen # db.pending
  \/ db.replied
  \/ desire.spring = "drive" /\ ~db.born   \* no pressure left behind it
  \/ late

\* What the frame's trigger does to the desire.
Target(contact, seen, verdict, late) ==
  IF contact
    THEN IF desire.state = "none" THEN "stays" ELSE "satisfied"
    ELSE IF verdict = "none" \/ Stale(seen, late) THEN "stays"
    ELSE IF verdict = "sent" THEN "satisfied" ELSE "dropped"

\* Aggregation's patch: a contact dominates and voids the pending attempt, a
\* fresh verdict resolves it; a said longing counts as unanswered.
Aggregate(contact, verdict, target) ==
  IF contact
    THEN [db EXCEPT !.pending = NoCorr, !.replied = TRUE, !.unanswered = 0,
                    !.heard = TRUE]
  ELSE IF target = "stays" THEN db
  ELSE IF verdict = "sent"
    THEN [db EXCEPT !.pending = NoCorr, !.spoke = TRUE,
                    !.unanswered = @ + IF desire.spring = "drive" THEN 1 ELSE 0]
  ELSE [db EXCEPT !.pending = NoCorr]

\* Mutant of Wakes: no anti-repeat hold.
WakesAgain(row, target, urge) ==
  /\ urge /\ desire.state = "none" /\ target = "stays"
  /\ FirstWaking(row) \/ row.born

\* A wake becomes a desire when none is live and nothing was resolved in this
\* frame.  An unborn being misses nobody (its u is pinned to 0), and a second
\* longing does not follow an unanswered one.
Wakes(row, target, urge) ==
  /\ urge /\ desire.state = "none" /\ target = "stays"
  /\ FirstWaking(row) \/ (row.born /\ row.unanswered = 0)

\* Mutant of Launches: a turn in flight does not hold the launcher.
LaunchesTwice(cost) == desire.state = "active" /\ cost <= db.energy

\* The launcher reads the frame's snapshot, not what aggregation emitted.
Launches(cost) ==
  desire.state = "active" /\ db.pending = NoCorr /\ cost <= db.energy

\* Patches merge in order: personality's recovery, aggregation, launcher.
FrameRow(row, cost, gain) ==
  IF Launches(cost)
    THEN [row EXCEPT !.pending = launched + 1, !.replied = FALSE,
                     !.energy = db.energy - cost]
    ELSE [row EXCEPT !.energy = Least(Cap, @ + gain)]

Frame(contact, seen, verdict, late, urge, cost, gain) ==
  LET target == Target(contact, seen, verdict, late)
      row == Aggregate(contact, verdict, target)
  IN /\ urge => ~contact          \* the silence window is closed by a contact
     /\ urge => SlowTurns \/ (turns = <<>> /\ answer = NoAnswer)
     /\ urge \/ Launches(cost) => MoreLaunches
     /\ db' = FrameRow(row, cost, gain)
     /\ launched' = IF Launches(cost) THEN launched + 1 ELSE launched
     /\ desire' = IF target # "stays" THEN Quiet
                  ELSE IF Wakes(row, target, urge)
                    THEN [state |-> "active",
                          spring |-> IF FirstWaking(row) THEN "genesis"
                                                         ELSE "drive"]
                  ELSE desire
     /\ intention' = IF Launches(cost) THEN "active"
                     ELSE IF target # "stays" THEN "none"
                     ELSE intention

\* A frame of a heartbeat or of a completion: its caller goes on with the
\* report and with the State the actor cached.
LoopFrame(kind) ==
  /\ loop.at = "idle"
  /\ \E urge \in BOOLEAN, cost \in Costs, gain \in {0, 1} :
       /\ Frame(FALSE, NoCorr, "none", FALSE, urge, cost, gain)
       /\ loop' = IF Launches(cost)
                    THEN [at |-> "dispatch", kind |-> kind, row |-> db',
                          corr |-> launched', cost |-> cost,
                          spring |-> desire.spring]
                  ELSE IF kind = "completion"
                    THEN [at |-> "tail", row |-> db']
                  ELSE Idle
  /\ UNCHANGED <<turns, answer, bids, greets>>

Heartbeat == LoopFrame("beat")

Completion == Completions /\ LoopFrame("completion")

\* A message of the human.  The hook ignores the frame's report; the turns
\* still composing are from before the contact.
Inbound ==
  /\ loop.at = "idle"
  /\ \E cost \in Costs, gain \in {0, 1} :
       Frame(TRUE, NoCorr, "none", FALSE, FALSE, cost, gain)
  /\ turns' = [i \in DOMAIN turns |-> [turns[i] EXCEPT !.voided = TRUE]]
  /\ answer' = IF answer = NoAnswer THEN answer
                                    ELSE [answer EXCEPT !.voided = TRUE]
  /\ bids' = 0
  /\ UNCHANGED <<loop, greets>>

\* The same message again: the idempotency ring drops the signal, the frame
\* runs all the same and its report is ignored.
RepeatedInbound ==
  /\ loop.at = "idle" /\ db.heard
  /\ \E urge \in BOOLEAN, cost \in Costs, gain \in {0, 1} :
       Frame(FALSE, NoCorr, "none", FALSE, urge, cost, gain)
  /\ UNCHANGED <<loop, turns, answer, bids, greets>>

-----------------------------------------------------------------------------
(* dispatch_launches, on the gateway loop, after the frame's lock. *)

AfterDispatch(row) ==
  loop' = IF loop.kind = "completion" THEN [at |-> "tail", row |-> row]
                                      ELSE Idle

\* Mutant of Rollback: the reservation is refunded twice.
RollbackTwice(defer) ==
  /\ db' = [loop.row EXCEPT !.pending = NoCorr, !.replied = FALSE,
                            !.energy = @ + 2 * loop.cost]
  /\ desire' = IF defer /\ desire.state = "active"
                 THEN [desire EXCEPT !.state = "deferred"] ELSE desire
  /\ intention' = IF defer /\ intention = "active" THEN "deferred"
                                                   ELSE intention
  /\ AfterDispatch(db')
  /\ UNCHANGED <<turns, answer, launched, bids, greets>>

\* Mutant of Rollback: only the desire is held.
RollbackDesireOnly(defer) ==
  /\ db' = [loop.row EXCEPT !.pending = NoCorr, !.replied = FALSE,
                            !.energy = @ + loop.cost]
  /\ desire' = IF defer /\ desire.state = "active"
                 THEN [desire EXCEPT !.state = "deferred"] ELSE desire
  /\ AfterDispatch(db')
  /\ UNCHANGED <<intention, turns, answer, launched, bids, greets>>

\* _rollback: the cached row with the launch undone; a hold defers the rows
\* that are still active.
Rollback(defer) ==
  /\ db' = [loop.row EXCEPT !.pending = NoCorr, !.replied = FALSE,
                            !.energy = @ + loop.cost]
  /\ desire' = IF defer /\ desire.state = "active"
                 THEN [desire EXCEPT !.state = "deferred"] ELSE desire
  /\ intention' = IF defer /\ intention = "active" THEN "deferred"
                                                   ELSE intention
  /\ AfterDispatch(db')
  /\ UNCHANGED <<turns, answer, launched, bids, greets>>

\* The backstop holds the send; a deferred desire waits for the human.
BackstopHolds == loop.at = "dispatch" /\ loop.row.spoke /\ Rollback(TRUE)

\* The voice pre-flight of the unborn holds, or the reach-in failed: the
\* desire stays active and the next heartbeat tries again.
NotDelivered == loop.at = "dispatch" /\ MoreLaunches /\ Rollback(FALSE)

\* The turn is queued on the human's lane.
Delivered ==
  /\ loop.at = "dispatch"
  /\ turns' = Append(turns, [corr |-> loop.corr, spring |-> loop.spring,
                             voided |-> FALSE])
  /\ AfterDispatch(loop.row)
  /\ UNCHANGED <<db, desire, intention, answer, launched, bids, greets>>

\* run_internal_completion's second commit, from the actor's cached State.
CompletionTail ==
  /\ loop.at = "tail"
  /\ db' = loop.row
  /\ loop' = Idle
  /\ UNCHANGED <<desire, intention, turns, answer, launched, bids, greets>>

-----------------------------------------------------------------------------
(* The host's turn and its post_llm_call hook. *)

\* The session's next own turn ends in a text for the human or in [SILENT];
\* the hook loads the State and goes on only for a pending, active desire.
TurnEnds(verdict) ==
  /\ turns # <<>> /\ answer = NoAnswer
  /\ LET turn == Head(turns)
         said == verdict = "sent"
     IN /\ answer' = IF db.pending # NoCorr /\ desire.state = "active"
                       THEN [corr |-> turn.corr, seen |-> db.pending,
                             verdict |-> verdict, voided |-> turn.voided]
                       ELSE NoAnswer
        /\ bids' = IF said /\ turn.spring = "drive" /\ ~turn.voided
                     THEN bids + 1 ELSE bids
        /\ greets' = IF said /\ turn.spring = "genesis" THEN greets + 1
                                                         ELSE greets
  /\ turns' = Tail(turns)
  /\ UNCHANGED <<db, desire, intention, loop, launched>>

\* The verdict's own frame; the hook ignores the frame's report.
ReadBack ==
  /\ answer # NoAnswer
  /\ \E late \in IF Late THEN BOOLEAN ELSE {FALSE},
        cost \in Costs, gain \in {0, 1} :
       Frame(FALSE, answer.seen, answer.verdict, late, FALSE, cost, gain)
  /\ answer' = NoAnswer
  /\ UNCHANGED <<loop, turns, bids, greets>>

\* The being writes its first soul: a field-level merge into the row.
WriteSoul ==
  /\ ~db.born
  /\ db' = [db EXCEPT !.born = TRUE]
  /\ UNCHANGED <<desire, intention, loop, turns, answer, launched, bids, greets>>

\* The host interrupts a turn: post_llm_call never fires for it.
TurnLost ==
  /\ Losses /\ turns # <<>>
  /\ turns' = Tail(turns)
  /\ UNCHANGED <<db, desire, intention, loop, answer, launched, bids, greets>>

\* The gateway dies and comes back; the row and the records survive.
Crash ==
  /\ Losses
  /\ loop' = Idle /\ turns' = <<>> /\ answer' = NoAnswer
  /\ UNCHANGED <<db, desire, intention, launched, bids, greets>>

Dispatch == BackstopHolds \/ NotDelivered \/ Delivered

Next ==
  \/ Heartbeat \/ Completion \/ Inbound \/ RepeatedInbound
  \/ Dispatch \/ CompletionTail
  \/ \E verdict \in {"sent", "silent"} : TurnEnds(verdict)
  \/ ReadBack \/ WriteSoul \/ TurnLost \/ Crash

\* The loop goes on with what it holds, the host ends every turn and runs
\* the hook it has begun.
Fairness ==
  /\ WF_vars(Dispatch) /\ WF_vars(CompletionTail) /\ WF_vars(ReadBack)
  /\ WF_vars(\E verdict \in {"sent", "silent"} : TurnEnds(verdict))

Spec == Init /\ [][Next]_vars /\ Fairness

-----------------------------------------------------------------------------
(* Properties. *)

Corrs   == 0 .. launched
Springs == {"drive", "genesis"}
Rows == [pending : Corrs, replied : BOOLEAN, energy : 0 .. Cap,
         unanswered : Nat, heard : BOOLEAN, spoke : BOOLEAN, born : BOOLEAN]
Desires == {Quiet} \cup [state : {"active", "deferred"}, spring : Springs]
Loops ==
  {Idle} \cup [at : {"tail"}, row : Rows]
  \cup [at : {"dispatch"}, kind : {"beat", "completion"}, row : Rows,
        corr : Corrs, cost : Costs, spring : Springs]
Answers ==
  {NoAnswer} \cup [corr : Corrs, seen : Corrs, verdict : {"sent", "silent"},
                   voided : BOOLEAN]

\* Every variable has its type; the energy stays between nothing and e_max,
\* however reservations, recoveries and refunds interleave.
TypeOK ==
  /\ launched \in Nat
  /\ db \in Rows
  /\ desire \in Desires
  /\ intention \in {"none", "active", "deferred"}
  /\ loop \in Loops
  /\ turns \in Seq([corr : Corrs, spring : Springs, voided : BOOLEAN])
  /\ answer \in Answers
  /\ bids \in Nat /\ greets \in Nat

\* The desire and the intention are held in lockstep (proactive._rollback):
\* one is parked exactly when the other is, and nothing is then in flight.
HeldTogether ==
  /\ desire.state = "deferred" <=> intention = "deferred"
  /\ desire.state = "deferred" => db.pending = NoCorr

\* A reach is not drummed into the void: after a text of longing the human has
\* not answered, no longing is launched again (aggregation's anti-repeat hold
\* and the pending anchor, across rollbacks, late verdicts, lost turns and
\* restarts).
NoSecondBid ==
  [][launched' > launched /\ desire.spring = "drive" => bids = 0]_vars

\* A newborn that speaks has greeted, and never greets twice
\* (genesis.is_first_waking).
GreetsOnce == greets <= 1

\* A verdict resolves the attempt whose turn it came from (invalidation.py:
\* stale if "its correlation no longer matches").
VerdictMatches ==
  [][answer # NoAnswer /\ answer' = NoAnswer /\ desire.state = "active"
     /\ desire'.state = "none" /\ db.pending # NoCorr
     => answer.corr = db.pending]_vars

\* A pending launch is one that somebody still works on: the loop holds it,
\* the host has its turn, or its read-back is under way (proactive.py: "no
\* caller can strand one").
PendingBacked ==
  db.pending # NoCorr =>
    \/ loop.at = "dispatch" /\ loop.corr = db.pending
    \/ \E i \in DOMAIN turns : turns[i].corr = db.pending
    \/ answer.corr = db.pending

\* A launch handed to the host is resolved in the end: its pending anchor is
\* cleared, by its own verdict or by the human.
HandedOver(c) ==
  db.pending = c /\ ((\E i \in DOMAIN turns : turns[i].corr = c) \/ answer.corr = c)
Released == \A c \in 1 .. MaxLaunches : HandedOver(c) ~> db.pending # c
=============================================================================
