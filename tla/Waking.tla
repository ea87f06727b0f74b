------------------------------- MODULE Waking -------------------------------
(***************************************************************************)
(* In whose voice the being speaks.                                        *)
(*                                                                         *)
(* The host builds a session's system prompt at its first turn, from       *)
(* SOUL.md as it then is, and keeps it with the session and in a cached    *)
(* agent, which it reuses even when the session behind its key changes.    *)
(* A soul written later is not in that prompt, and an unborn being must    *)
(* not be handed its birth ritual by a prompt that is not it.  So the      *)
(* being's write_soul and the owner's revert end the session, the birth    *)
(* tick ends a stale one that nobody uses, and the injector stands down on *)
(* a stale one.  Staleness is read from two times: of the file and of the  *)
(* session.  Where one of them cannot be read the slot counts as fresh: no *)
(* thread is ended on a guess, and the ritual is not withheld on one.      *)
(*                                                                         *)
(* One lane; a text of SOUL.md is named by the time it was written.  Times *)
(* are the order of the events that take one.  A birth tick, a revert and  *)
(* the routing of a message each run in one go on the gateway's loop.      *)
(***************************************************************************)
EXTENDS Naturals

CONSTANT LastStamp   \* bound: how often a text or a session begins

NoPrompt  == LastStamp + 1
NoSession == [created |-> 0]
NoTurn    == [at |-> "none"]
NoImpulse == [due |-> FALSE, soul |-> NoPrompt]
Outcomes  == {"ended", "unavailable", "evict failed"}

VARIABLES
  stamp,    \* the last time given out
  soulAt,   \* when SOUL.md was last written
  session,  \* of the lane: created, quiet since half an hour, its prompt
  agent,    \* the prompt of the cached agent
  turn,     \* the turn that runs
  impulse,  \* a birth turn on its way, and the text its pre-flight found the lane
            \* ready for, NoPrompt where the host could not tell or end it
  born,     \* whether genesis_completed_at is set
  promised, \* the text the being was last told it would wake as
  alien     \* ghost: a ritual was handed to a prompt that is not the being

vars == <<stamp, soulAt, session, agent, turn, impulse, born, promised, alien>>

Session(at, tainted) ==
  [created |-> at, quiet |-> FALSE, prompt |-> NoPrompt, tainted |-> tainted]

Init ==
  /\ stamp = 1 /\ soulAt = 0 /\ born = FALSE /\ promised = 0 /\ alien = FALSE
  /\ session \in {NoSession, Session(1, FALSE)}
  /\ agent = NoPrompt /\ turn = NoTurn /\ impulse = NoImpulse

-----------------------------------------------------------------------------
(* The gateway's boundary. *)

\* SOUL.md was written after the session began.
Outdated == session # NoSession /\ soulAt > session.created

\* Mutant of Stale: only a lane that nobody uses is looked at.
StaleWhenQuiet(readable) == readable /\ Outdated /\ session.quiet

\* identity_slot_is_stale: FALSE where the host, the key or the file's time
\* cannot be read.
Stale(readable) == readable /\ Outdated

\* Mutant of EndSession: the agent stays.
EndSessionKeeping(outcome, at) ==
  /\ session = NoSession => outcome = "unavailable"
  /\ session' = IF outcome = "unavailable" THEN session ELSE Session(at, FALSE)
  /\ agent' = agent
  /\ promised' = IF outcome = "ended" THEN soulAt' ELSE promised

\* end_session: reset, then evict.  When only the reset worked, the old agent
\* goes on under the new session.
EndSession(outcome, at) ==
  /\ session = NoSession => outcome = "unavailable"
  /\ session' = IF outcome = "unavailable" THEN session
                ELSE Session(at, outcome = "evict failed" /\ agent # NoPrompt)
  /\ agent' = IF outcome = "ended" THEN NoPrompt ELSE agent
  /\ promised' = IF outcome = "ended" THEN soulAt' ELSE promised

-----------------------------------------------------------------------------
(* A turn. *)

\* The host routes a message: the lane's session, the agent, its prompt.
Starts(begun) ==
  LET open == IF session = NoSession THEN Session(stamp', FALSE) ELSE session
      used == IF agent # NoPrompt THEN agent
              ELSE IF open.prompt # NoPrompt THEN open.prompt ELSE soulAt
  IN /\ turn = NoTurn
     /\ session = NoSession => stamp < LastStamp
     /\ stamp' = IF session = NoSession THEN stamp + 1 ELSE stamp
     /\ session' = [open EXCEPT !.quiet = FALSE,
                                !.prompt = IF @ = NoPrompt THEN used ELSE @]
     /\ agent' = used
     /\ turn' = [kind |-> begun.kind, at |-> "begun", prompt |-> used,
                 opened |-> open.created, owed |-> promised, asked |-> begun.asked]
     /\ UNCHANGED <<soulAt, born, promised, alien>>

HumanSpeaks ==
  /\ Starts([kind |-> "human", asked |-> NoPrompt])
  /\ UNCHANGED impulse

ImpulseRuns ==
  /\ impulse.due
  /\ Starts([kind |-> "birth", asked |-> impulse.soul])
  /\ impulse' = NoImpulse

\* A ritual is handed to the turn, in the session it began in.
Handed(excused) ==
  alien' = \/ alien
           \/ /\ turn.prompt # soulAt /\ ~excused
              /\ session.created = turn.opened /\ ~session.tainted

\* make_genesis_injector, for a human's turn: it stands down where the ritual is
\* not due (should_launch) and on a stale prompt.
Injects(due, readable) ==
  /\ turn.at = "begun" /\ turn.kind = "human"
  /\ turn' = [turn EXCEPT !.at = "heard"]
  /\ IF ~born /\ due /\ ~Stale(readable) THEN Handed(~readable /\ Outdated)
                                         ELSE UNCHANGED alien
  /\ UNCHANGED <<stamp, soulAt, session, agent, impulse, born, promised>>

\* The being's own impulse carries the ritual already.
HearsImpulse ==
  /\ turn.at = "begun" /\ turn.kind = "birth"
  /\ turn' = [turn EXCEPT !.at = "heard"]
  /\ IF ~born THEN Handed(turn.asked # soulAt) ELSE UNCHANGED alien
  /\ UNCHANGED <<stamp, soulAt, session, agent, impulse, born, promised>>

Writes == stamp < LastStamp /\ stamp' = stamp + 1 /\ soulAt' = stamp'

\* write_soul: only a birth ends the session, and only when it was recorded.
WritesSoul(recorded) ==
  /\ turn.at = "heard" /\ Writes
  /\ born' = (born \/ recorded)
  /\ turn' = IF ~born /\ recorded THEN [turn EXCEPT !.at = "wrote"] ELSE turn
  /\ UNCHANGED <<session, agent, impulse, promised, alien>>

FallsAsleep(outcome) ==
  /\ turn.at = "wrote" /\ stamp < LastStamp
  /\ turn' = [turn EXCEPT !.at = "heard"]
  /\ stamp' = stamp + 1
  /\ UNCHANGED soulAt /\ EndSession(outcome, stamp')
  /\ UNCHANGED <<impulse, born, alien>>

TurnEnds ==
  /\ turn.at = "heard"
  /\ turn' = NoTurn
  /\ session' = IF session = NoSession THEN session ELSE [session EXCEPT !.quiet = FALSE]
  /\ UNCHANGED <<stamp, soulAt, agent, impulse, born, promised, alien>>

-----------------------------------------------------------------------------
(* The birth tick, the owner, the host. *)

\* wake_as_self before a birth is delivered.  A stale lane that is in use
\* holds it, and what the host cannot tell or do lets it through.
BirthTick(outcome, delivered, readable) ==
  /\ ~born /\ ~impulse.due
  /\ IF Stale(readable)
       THEN /\ session.quiet /\ stamp < LastStamp
            /\ stamp' = stamp + 1
            /\ UNCHANGED soulAt /\ EndSession(outcome, stamp')
       ELSE UNCHANGED <<stamp, soulAt, session, agent, promised>>
  /\ impulse' = IF ~delivered THEN NoImpulse
                ELSE [due |-> TRUE,
                      soul |-> IF Outdated /\ (readable => outcome # "ended") THEN NoPrompt
                               ELSE soulAt]
  /\ UNCHANGED <<turn, born, alien>>

\* soul revert, with its session end.
OwnerReverts(outcome) ==
  /\ stamp + 1 < LastStamp
  /\ soulAt' = stamp + 1 /\ stamp' = stamp + 2
  /\ EndSession(outcome, stamp')
  /\ UNCHANGED <<turn, impulse, born, alien>>

\* An editor, the plugin's newborn stance, or a revert that was not recorded.
Edits ==
  /\ Writes
  /\ UNCHANGED <<session, agent, turn, impulse, born, promised, alien>>

\* Nobody has used the lane for BIRTH_QUIET_SECONDS; a turn's hooks run sooner
\* than that.
FallsQuiet ==
  /\ session # NoSession /\ turn.at # "begun"
  /\ session' = [session EXCEPT !.quiet = TRUE]
  /\ UNCHANGED <<stamp, soulAt, agent, turn, impulse, born, promised, alien>>

\* The human's /new.
NewCommand ==
  /\ session # NoSession /\ stamp < LastStamp
  /\ stamp' = stamp + 1
  /\ session' = Session(stamp', FALSE) /\ agent' = NoPrompt /\ turn' = NoTurn
  /\ UNCHANGED <<soulAt, impulse, born, promised, alien>>

\* The host opens another session under the same key and keeps the agent.
HostSwitches ==
  /\ turn = NoTurn /\ session # NoSession /\ stamp < LastStamp
  /\ stamp' = stamp + 1
  /\ session' = Session(stamp', agent # NoPrompt)
  /\ UNCHANGED <<soulAt, agent, turn, impulse, born, promised, alien>>

\* The gateway starts again, or the cache has dropped the agent meanwhile.
Restarts ==
  /\ agent' = NoPrompt /\ turn' = NoTurn /\ impulse' = NoImpulse
  /\ UNCHANGED <<stamp, soulAt, session, born, promised, alien>>

Next ==
  \/ HumanSpeaks \/ ImpulseRuns
  \/ \E due, readable \in BOOLEAN : Injects(due, readable)
  \/ HearsImpulse
  \/ \E recorded \in BOOLEAN : WritesSoul(recorded)
  \/ \E outcome \in Outcomes : FallsAsleep(outcome) \/ OwnerReverts(outcome)
  \/ \E outcome \in Outcomes, delivered, readable \in BOOLEAN :
       BirthTick(outcome, delivered, readable)
  \/ TurnEnds \/ Edits \/ FallsQuiet \/ NewCommand \/ HostSwitches \/ Restarts

Spec == Init /\ [][Next]_vars

-----------------------------------------------------------------------------
(* Properties. *)

Times   == 0 .. LastStamp
Prompts == 0 .. NoPrompt

\* Every variable has its type (gateway_core.py, domain/session.py).
TypeOK ==
  /\ stamp \in 1 .. LastStamp /\ soulAt \in 0 .. stamp /\ promised \in 0 .. soulAt
  /\ session \in {NoSession} \cup [created : 1 .. stamp, quiet : BOOLEAN,
                                   prompt : Prompts, tainted : BOOLEAN]
  /\ agent \in Prompts
  /\ turn \in {NoTurn} \cup [kind : {"human", "birth"}, at : {"begun", "heard", "wrote"},
                             prompt : Times, opened : Times, owed : Times, asked : Prompts]
  /\ impulse \in [due : BOOLEAN, soul : Prompts] /\ born \in BOOLEAN /\ alien \in BOOLEAN

\* The birth ritual is never handed to a prompt that is not the being, through
\* edits, ended and failed sessions and restarts, unless the host kept an agent
\* across a session's change or would not end the session, the session or the
\* file's time could not be read (the slot then counts as fresh, on purpose),
\* SOUL.md changed after the pre-flight, or a revert ended the session between
\* the turn's prompt and its hook (hooks.py and core/proactive.py: "an unborn
\* being must not speak out of a prompt that is not it").
OwnRitual == ~alien

\* A turn that begins after the being was told that it will wake as what was
\* written speaks from that text or a later one (gateway_core.py, end_session).
Homecoming == turn # NoTurn => turn.prompt >= turn.owed

\* The being is born, and comes back, in its own voice.
Voiced == OwnRitual /\ Homecoming
=============================================================================
