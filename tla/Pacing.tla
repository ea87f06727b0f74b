------------------------------- MODULE Pacing -------------------------------
(***************************************************************************)
(* How often the being may reach out: the gates of a wake by the clock and *)
(* the backstop over real sends.                                           *)
(*                                                                         *)
(* The backstop is asked when a launch is dispatched, with the log of the  *)
(* sends that were read back; a send is logged when its verdict's frame    *)
(* commits, by that frame's clock.  Between the two the turn is composed,  *)
(* the human may write, the owner may reset the drive, and the verdict may *)
(* come too late to count.                                                 *)
(*                                                                         *)
(* ContactLane has the steps of a launch one by one; here a launch and its *)
(* dispatch are one step, and the clock runs between steps.  The being is  *)
(* born, and whether u has crossed its threshold is chosen.                *)
(***************************************************************************)
EXTENDS Naturals, Sequences, FiniteSets

CONSTANTS Window,             \* w, the silence after an exchange
          Backoff1, Growth, BackoffMax,  \* r0, k, r_max
          Grace,              \* CONTACT_GRACE_MIN
          Deadline,           \* verdict_deadline_min
          Day, MaxPerDay, Gap,  \* allow_send
          Keep,               \* record_send
          MaxNow, MaxLaunches \* bounds

Never   == 0
NoLaunch == [id |-> 0]

VARIABLES
  now,
  anchor,      \* silence_anchor_at, or the last exchange
  declinedAt, declines,
  actedAt,     \* action_pending_since
  unanswered,  \* unanswered_outbound_count
  log,         \* proactive_send_log
  pending,     \* the launch in flight, since when
  desire,      \* "none", "active" or "deferred"
  composing,   \* own turns the host has not finished
  answer,      \* a turn's end on its way into the State
  launches,    \* bound: launches so far
  said         \* ghost: when each logged send was really said

vars == <<now, anchor, declinedAt, declines, actedAt, unanswered, log, pending, desire,
          composing, answer, launches, said>>

Quiet ==
  /\ anchor' = Never /\ declinedAt' = Never /\ declines' = 0 /\ actedAt' = Never
  /\ unanswered' = 0 /\ log' = <<>> /\ pending' = NoLaunch /\ desire' = "none"
  /\ said' = <<>>

Init ==
  /\ now = 1 /\ anchor = Never /\ declinedAt = Never /\ declines = 0 /\ actedAt = Never
  /\ unanswered = 0 /\ log = <<>> /\ pending = NoLaunch /\ desire = "none"
  /\ composing = 0 /\ answer = NoLaunch /\ launches = 0 /\ said = <<>>

Past(then, span) == then = Never \/ now - then >= span
Least(i, j) == IF i < j THEN i ELSE j

-----------------------------------------------------------------------------
(* The gates. *)

\* backoff_interval: it grows with each decline, up to a bound.
Interval(n) == Least(BackoffMax, Backoff1 * (Growth ^ (n - 1)))

\* evaluate_wake under the inhibition of a send, and aggregation's hold of a
\* second longing.
MayWake ==
  /\ Past(actedAt, Grace + 1)
  /\ Past(anchor, Window)
  /\ declinedAt # Never => Past(declinedAt, Interval(declines))
  /\ unanswered = 0

\* The sends of the log that are at most a day old.
Recent(at) == {i \in DOMAIN log : log[i] + Day >= at}
\* The last of them is the gap away, and so are the others.
Clear(at)  == \A i \in Recent(at) : at - log[i] >= Gap

\* Mutant of AllowSend: one more than the cap.
AllowOneMore(at) == Cardinality(Recent(at)) <= MaxPerDay /\ Clear(at)

\* allow_send
AllowSend(at) == Cardinality(Recent(at)) < MaxPerDay /\ Clear(at)

\* record_send
RecordSend ==
  LET all == Append(log, now)
  IN IF Len(all) <= Keep THEN all ELSE SubSeq(all, Len(all) - Keep + 1, Len(all))

-----------------------------------------------------------------------------
(* The heartbeat. *)

Wakes ==
  /\ desire = "none" /\ MayWake
  /\ desire' = "active"
  /\ UNCHANGED <<now, anchor, declinedAt, declines, actedAt, unanswered, log, pending,
                 composing, answer, launches, said>>

Launching == desire = "active" /\ pending = NoLaunch

\* The backstop holds: the launch is rolled back, its desire deferred.
Holds ==
  /\ Launching /\ ~AllowSend(now)
  /\ desire' = "deferred"
  /\ UNCHANGED <<now, anchor, declinedAt, declines, actedAt, unanswered, log, pending,
                 composing, answer, launches, said>>

\* The turn is with the host.  (A launch that is not delivered is rolled back
\* and leaves the clocks as they were.)
Launches ==
  /\ Launching /\ AllowSend(now) /\ launches < MaxLaunches
  /\ launches' = launches + 1
  /\ pending' = [id |-> launches', since |-> now]
  /\ composing' = composing + 1
  /\ UNCHANGED <<now, anchor, declinedAt, declines, actedAt, unanswered, log, desire,
                 answer, said>>

-----------------------------------------------------------------------------
(* The turn and its verdict. *)

\* The post_llm hook goes on only for a pending launch and an active desire.
TurnEnds(verdict) ==
  /\ composing > 0 /\ answer = NoLaunch
  /\ composing' = composing - 1
  /\ answer' = IF pending # NoLaunch /\ desire = "active"
                 THEN [id |-> pending.id, verdict |-> verdict, at |-> now] ELSE NoLaunch
  /\ UNCHANGED <<now, anchor, declinedAt, declines, actedAt, unanswered, log, pending,
                 desire, launches, said>>

TurnLost ==
  /\ composing > 0 /\ composing' = composing - 1
  /\ UNCHANGED <<now, anchor, declinedAt, declines, actedAt, unanswered, log, pending,
                 desire, answer, launches, said>>

\* is_proactive_outcome_stale.  An exchange clears the pending launch, so a
\* reply that came while it composed shows in the id.
Stale ==
  \/ desire # "active"
  \/ pending.id # answer.id
  \/ pending.id = answer.id /\ now - pending.since > Deadline

Resolves(verdict) ==
  /\ answer # NoLaunch /\ ~Stale /\ answer.verdict = verdict
  /\ answer' = NoLaunch /\ pending' = NoLaunch /\ desire' = "none"
  /\ UNCHANGED <<now, anchor, composing, launches>>

\* A send is logged, inhibits the next and counts as unanswered.
ReadsSent ==
  /\ Resolves("sent")
  /\ actedAt' = now /\ unanswered' = unanswered + 1
  /\ log' = RecordSend
  /\ said' = Append(said, answer.at)
  /\ UNCHANGED <<declinedAt, declines>>

ReadsSilent ==
  /\ Resolves("silent")
  /\ declinedAt' = now /\ declines' = declines + 1
  /\ UNCHANGED <<actedAt, unanswered, log, said>>

ReadsStale ==
  /\ answer # NoLaunch /\ Stale
  /\ answer' = NoLaunch
  /\ UNCHANGED <<now, anchor, declinedAt, declines, actedAt, unanswered, log, pending,
                 desire, composing, launches, said>>

-----------------------------------------------------------------------------
(* The human, the owner's commands, the clock. *)

\* An exchange resets the clocks and ends the desire and what was in flight.
Inbound ==
  /\ anchor' = now /\ declinedAt' = Never /\ declines' = 0 /\ actedAt' = Never
  /\ unanswered' = 0 /\ pending' = NoLaunch /\ desire' = "none"
  /\ UNCHANGED <<now, log, composing, answer, launches, said>>

\* force_wake opens the gates; the log is cleared only if it blocks.
ForceWake ==
  /\ anchor' = IF now > Window THEN now - Window ELSE Never
  /\ declinedAt' = Never /\ declines' = 0 /\ actedAt' = Never
  /\ pending' = NoLaunch /\ desire' = "none"
  /\ IF AllowSend(now) THEN UNCHANGED <<log, said>> ELSE log' = <<>> /\ said' = <<>>
  /\ UNCHANGED <<now, unanswered, composing, answer, launches>>

\* satiate stands for an exchange without forging one.
Satiate ==
  /\ anchor' = now /\ actedAt' = Never /\ pending' = NoLaunch /\ desire' = "none"
  /\ UNCHANGED <<now, declinedAt, declines, unanswered, log, composing, answer, launches,
                 said>>

\* The factory wipe.
Resets ==
  /\ Quiet
  /\ UNCHANGED <<now, composing, answer, launches>>

Passes ==
  /\ now < MaxNow /\ now' = now + 1
  /\ UNCHANGED <<anchor, declinedAt, declines, actedAt, unanswered, log, pending, desire,
                 composing, answer, launches, said>>

Next ==
  \/ Wakes \/ Holds \/ Launches
  \/ \E verdict \in {"sent", "silent"} : TurnEnds(verdict)
  \/ TurnLost \/ ReadsSent \/ ReadsSilent \/ ReadsStale
  \/ Inbound \/ ForceWake \/ Satiate \/ Resets \/ Passes

Spec == Init /\ [][Next]_vars

-----------------------------------------------------------------------------
(* Properties. *)

Times == Never .. MaxNow
Launched == 1 .. MaxLaunches

\* Every variable has its type (state/model.py, the lane's fields).
TypeOK ==
  /\ now \in 1 .. MaxNow /\ {anchor, declinedAt, actedAt} \subseteq Never .. now
  /\ declines \in Nat /\ unanswered \in Nat
  /\ log \in Seq(1 .. now) /\ Len(log) <= Keep
  /\ pending \in {NoLaunch} \cup [id : Launched, since : 1 .. now]
  /\ desire \in {"none", "active", "deferred"}
  /\ composing \in 0 .. MaxLaunches
  /\ answer \in {NoLaunch} \cup [id : Launched, verdict : {"sent", "silent"}, at : 1 .. now]
  /\ launches \in 0 .. MaxLaunches /\ said \in Seq(1 .. now)

\* The texts the human really got, of those that were read back: never more
\* than the cap within a day, never two closer than the gap, although the log
\* the backstop reads is written late, is cut, and is cleared when it blocks a
\* forced wake (core/backstop.py: a hard limit "on real proactive sends").
Spaced ==
  \A i, j \in DOMAIN said :
    /\ j = i + 1 => said[j] - said[i] >= Gap
    /\ j = i + MaxPerDay => said[j] - said[i] > Day
=============================================================================
