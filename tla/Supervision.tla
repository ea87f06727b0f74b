---------------------------- MODULE Supervision ----------------------------
(***************************************************************************)
(* How the brain comes up, dies and is shown.                              *)
(*                                                                         *)
(* register() runs in every process that hosts plugins: the gateway and a  *)
(* `hermes serve`.  It wires the command, the hooks, the tools and the     *)
(* platform step by step; a required step that fails is recorded in the    *)
(* process's BrainHealth and in a file both processes share, and aborts.   *)
(* Only the gateway connects the adapter, whose SupervisedLoop ticks until *)
(* it is stopped or a tick raises.  A reconnect that skipped disconnect    *)
(* starts another loop and forgets the first, which goes on ticking.       *)
(*                                                                         *)
(* What /lifemodel status shows is computed from the health of its process *)
(* and the file.  Ticks, errors' texts and times are left out: a loop is   *)
(* running or not, an error is its state.                                  *)
(***************************************************************************)
EXTENDS Naturals, FiniteSets

CONSTANTS Processes, Gateway,   \* the hosts of the plugin; the one that connects it
          MaxLoops,             \* bound: loops an adapter starts
          MaxStarts             \* bound: process starts

\* The wiring steps of register(), in their order.
Steps == {"command", "buffer", "observers", "ambient", "tools", "platform"}
After == [command |-> "buffer", buffer |-> "observers", observers |-> "ambient",
          ambient |-> "tools", tools |-> "platform", platform |-> "enabled"]

Stages == Steps \cup {"down", "enabled", "aborted"}
\* "connecting" lasts only inside connect(), which runs as one step.
BrainStates == {"never_started", "connected", "boot_failed", "loop_dead"}

VARIABLES
  stage,        \* per process: the wiring step it is at
  health,       \* per process: BrainHealth.state
  blamed,       \* per process: a wired required step aborted it (history)
  record,       \* brain_boot.json says boot_failed
  running,      \* the loops that tick
  started,      \* loops started by this adapter
  current,      \* the adapter's _loop, 0 when there is none
  shuttingDown, \* the adapter's _shutting_down
  fatal,        \* the adapter has reported a fatal error since it connected
  attached,     \* the adapter holds its trace writer
  hosted,       \* the host's connect() returned and it has not disconnected (history)
  starts        \* bound: process starts so far

vars == <<stage, health, blamed, record, running, started, current, shuttingDown, fatal,
          attached, hosted, starts>>

adapterVars == <<running, started, current, shuttingDown, fatal, attached, hosted>>

TypeOK ==
  /\ stage \in [Processes -> Stages]
  /\ health \in [Processes -> BrainStates]
  /\ blamed \in [Processes -> BOOLEAN]
  /\ record \in BOOLEAN
  /\ started \in 0 .. MaxLoops
  /\ running \subseteq 1 .. started
  /\ current \in 0 .. started
  /\ shuttingDown \in BOOLEAN /\ fatal \in BOOLEAN /\ attached \in BOOLEAN /\ hosted \in BOOLEAN
  /\ starts \in 0 .. MaxStarts

Init ==
  /\ stage = [p \in Processes |-> "down"]
  /\ health = [p \in Processes |-> "never_started"]
  /\ blamed = [p \in Processes |-> FALSE]
  /\ record = FALSE
  /\ running = {} /\ started = 0 /\ current = 0
  /\ shuttingDown = FALSE /\ fatal = FALSE /\ attached = FALSE /\ hosted = FALSE
  /\ starts = 0

-----------------------------------------------------------------------------
(* BrainHealth                                                             *)

\* The file is written and removed as well as it goes.
Files(says) == record' \in {says, record}

MarkBootFailed(p) ==
  /\ health' = [health EXCEPT ![p] = "boot_failed"]
  /\ Files(TRUE)

\* A fixed deploy is healthy, for this process and for whoever reads the file.
MarkBootOk == Files(FALSE)

MarkConnected ==
  /\ health' = [health EXCEPT ![Gateway] = "connected"]
  /\ Files(FALSE)

RecordLoopDeath == health' = [health EXCEPT ![Gateway] = "loop_dead"]

-----------------------------------------------------------------------------
(* register()                                                              *)

Starts(p) ==
  /\ stage[p] = "down" /\ starts < MaxStarts
  /\ starts' = starts + 1
  /\ stage' = [stage EXCEPT ![p] = "command"]
  /\ health' = [health EXCEPT ![p] = "never_started"]
  /\ blamed' = [blamed EXCEPT ![p] = FALSE]
  /\ UNCHANGED <<record, adapterVars>>

\* A step succeeds, or is optional and fails.
Advances(p) ==
  /\ stage' = [stage EXCEPT ![p] = After[stage[p]]]
  /\ UNCHANGED <<health, blamed, adapterVars, starts>>

RegistersCommand(p) == stage[p] = "command" /\ Advances(p) /\ UNCHANGED record
OpensBuffer(p)      == stage[p] = "buffer" /\ Advances(p) /\ UNCHANGED record
WiresObservers(p)   == stage[p] = "observers" /\ Advances(p) /\ UNCHANGED record
WiresAmbient(p)     == stage[p] = "ambient" /\ Advances(p) /\ UNCHANGED record
WiresTools(p)       == stage[p] = "tools" /\ Advances(p) /\ UNCHANGED record
WiresPlatform(p)    == stage[p] = "platform" /\ Advances(p) /\ MarkBootOk

\* A required step raises inside wire().
WireFails(p) ==
  /\ stage[p] \in Steps \ {"buffer"}
  /\ stage' = [stage EXCEPT ![p] = "aborted"]
  /\ blamed' = [blamed EXCEPT ![p] = TRUE]
  /\ MarkBootFailed(p)
  /\ UNCHANGED <<adapterVars, starts>>

\* The metric surface and the buffer's table are set up between two wires.
UnwiredFails(p) ==
  /\ stage[p] = "buffer"
  /\ stage' = [stage EXCEPT ![p] = "aborted"]
  /\ UNCHANGED <<health, blamed, record, adapterVars, starts>>

-----------------------------------------------------------------------------
(* The adapter, in the gateway                                             *)

\* The gate of a registered platform is always open to the host.
MayConnect == stage[Gateway] = "enabled"

\* Mutant of Enters: what an earlier disconnect has set stays set.
EntersStillShutting == UNCHANGED shuttingDown
\* connect() clears what an earlier disconnect has set.
Enters == shuttingDown' = FALSE

\* A new loop becomes the adapter's; the one it replaces is not stopped.
LoopStarts ==
  /\ started < MaxLoops
  /\ started' = started + 1
  /\ running' = running \cup {started'}
  /\ current' = started'

\* connect() has no await: it runs as one step.  The sampler, the runner and
\* the recovery of claims are optional, and their failure changes nothing here.
Connects ==
  /\ MayConnect
  /\ Enters /\ LoopStarts /\ MarkConnected
  /\ attached' = TRUE /\ fatal' = FALSE /\ hosted' = TRUE
  /\ UNCHANGED <<stage, blamed, starts>>

\* The trace writer cannot be acquired: only asked when none is held.
WriterFails ==
  /\ MayConnect /\ ~attached
  /\ Enters /\ MarkBootFailed(Gateway)
  /\ hosted' = FALSE
  /\ UNCHANGED <<stage, blamed, running, started, current, fatal, attached, starts>>

\* The loop cannot be started; the writer stays acquired for the next attempt.
LoopFails ==
  /\ MayConnect
  /\ Enters /\ MarkBootFailed(Gateway)
  /\ attached' = TRUE /\ hosted' = FALSE
  /\ UNCHANGED <<stage, blamed, running, started, current, fatal, starts>>

Suppressed == shuttingDown

OnDeath ==
  IF Suppressed THEN UNCHANGED <<health, fatal>> ELSE RecordLoopDeath /\ fatal' = TRUE

\* A tick of loop l raises: run() reports it once, and returns.
Dies(l) ==
  /\ l \in running
  /\ running' = running \ {l}
  /\ OnDeath
  /\ UNCHANGED <<stage, blamed, record, started, current, shuttingDown, attached, hosted, starts>>

\* Stops and cancels the adapter's own loop, and no other.
Disconnects ==
  /\ MayConnect
  /\ shuttingDown' = TRUE
  /\ running' = running \ {current}
  /\ attached' = FALSE /\ hosted' = FALSE
  /\ UNCHANGED <<stage, health, blamed, record, started, current, fatal, starts>>

\* The process ends; what it kept in memory is gone.
Exits(p) ==
  /\ stage[p] # "down"
  /\ stage' = [stage EXCEPT ![p] = "down"]
  /\ health' = [health EXCEPT ![p] = "never_started"]
  /\ blamed' = [blamed EXCEPT ![p] = FALSE]
  /\ IF p = Gateway
       THEN /\ running' = {} /\ started' = 0 /\ current' = 0
            /\ shuttingDown' = FALSE /\ fatal' = FALSE /\ attached' = FALSE /\ hosted' = FALSE
       ELSE UNCHANGED adapterVars
  /\ UNCHANGED <<record, starts>>

Next ==
  \/ \E p \in Processes :
       \/ Starts(p) \/ RegistersCommand(p) \/ OpensBuffer(p) \/ WiresObservers(p)
       \/ WiresAmbient(p) \/ WiresTools(p) \/ WiresPlatform(p)
       \/ WireFails(p) \/ UnwiredFails(p) \/ Exits(p)
  \/ Connects \/ WriterFails \/ LoopFails \/ Disconnects
  \/ \E l \in 1 .. MaxLoops : Dies(l)

Spec == Init /\ [][Next]_vars

-----------------------------------------------------------------------------
(* What the status command shows, and what it must not get wrong.          *)

\* The file speaks only for a process that has not tried to connect.
Shown(p) ==
  IF health[p] = "never_started" /\ record THEN "boot_failed" ELSE health[p]

\* A brain the host believes to be up is shown as connected and has a loop
\* that runs, unless its death was reported and is shown: it never dies in
\* silence, whatever reconnects, disconnects and forgotten loops there were,
\* and no file left by another process shows it as failed.
NoSilentDeath ==
  hosted => IF fatal THEN Shown(Gateway) = "loop_dead"
            ELSE Shown(Gateway) = "connected" /\ running # {} /\ attached

\* A registration that a required step aborted says so as long as its process
\* lives, whatever the other process does to the file.
Explained == \A p \in Processes : blamed[p] => Shown(p) = "boot_failed"

\* The status never hides that the brain is dead or did not come up.
Honest == NoSilentDeath /\ Explained
=============================================================================
