--------------------------- MODULE NoticingProofs ---------------------------
(***************************************************************************)
(* Noticing for every buffer size, window, daily budget and length of a    *)
(* behaviour: its types, the single flight of internal passes within their *)
(* budget, that no turn is surveyed to the end twice or in another's       *)
(* words, and that claims are immune, backed by a pass and taken in order. *)
(***************************************************************************)
EXTENDS Noticing, SequenceTheorems, FiniteSetTheorems, TLAPS

LEMMA InitTypes == Init => TypeOK
  BY NoticingAssumption DEF Init, TypeOK, NoTurn, NoSlot, None, Idle, Turns, Loops

\* Rows are claimed and released within their type.
LEMMA ClaimTypes ==
  ASSUME TypeOK
  PROVE  /\ \A id \in Nat : Release(id) \in [Turns -> Nat]
         /\ \A W : \A id \in Nat : Claim(W, id) \in [Turns -> Nat]
         /\ ReleaseAll \in [Turns -> Nat]
  BY DEF TypeOK, Release, Claim, ReleaseAll, None

LEMMA SlotTypes ==
  ASSUME TypeOK PROVE AgedSlot \in {NoSlot} \cup [turn : Turns, old : BOOLEAN]
  BY DEF TypeOK, AgedSlot

LEMMA SurveyTypes ==
  ASSUME TypeOK, NEW idle \in BOOLEAN, NEW elapsed \in BOOLEAN
  PROVE  Survey(idle, elapsed) \in SUBSET Turns
  BY DEF TypeOK, Survey, Window, Segment, Complete

LEMMA UsedTypes == ASSUME TypeOK PROVE UsedToday \in Nat
  BY DEF TypeOK, UsedToday

\* A frame's launches: none, one or two, with fresh ids.
LEMMA LaunchTypes ==
  ASSUME TypeOK, loop.at = "claim"
  PROVE  Launches \in Seq(Tasks)
<1>1. minted + 1 \in Nat \ {0} /\ minted + 2 \in Nat \ {0}
  BY DEF TypeOK
<1>2. /\ <<[id |-> minted + 1, subject |-> TRUE]>> \in Seq(Tasks)
      /\ <<[id |-> minted + 2, subject |-> FALSE]>> \in Seq(Tasks)
      /\ <<>> \in Seq(Tasks)
  BY <1>1 DEF Tasks
<1> QED BY <1>2, ConcatProperties DEF Launches

\* The launch at the head of a queue, and what remains of the queue.
LEMMA QueueTypes ==
  ASSUME TypeOK, loop.at = "launch"
  PROVE  /\ Head(loop.queue) \in Tasks
         /\ Len(loop.queue) # 1 => Tail(loop.queue) \in Seq(Tasks) \ {<<>>}
<1>1. loop.queue \in Seq(Tasks) /\ loop.queue # <<>>
  BY DEF TypeOK, Loops, Idle
<1>2. Head(loop.queue) \in Tasks /\ Tail(loop.queue) \in Seq(Tasks)
  BY <1>1
<1>3. Len(loop.queue) \in Nat /\ Len(Tail(loop.queue)) = Len(loop.queue) - 1
  BY <1>1
<1>4. ASSUME Tail(loop.queue) = <<>> PROVE Len(loop.queue) = 1
  <2>1. Len(Tail(loop.queue)) = 0
    BY <1>4, EmptySeq
  <2> QED BY <1>3, <2>1
<1> QED BY <1>2, <1>4

\* The loop is in a handler only with what that handler holds.
LEMMA LoopTypes ==
  ASSUME TypeOK
  PROVE  /\ loop.at = "claim" => loop.window \in SUBSET Turns
         /\ loop.at = "tail" => loop.task \in Tasks /\ loop.then \in {"idle", "dead"}
         /\ loop.at \in {"idle", "dead", "claim", "launch", "tail"}
  BY DEF TypeOK, Loops, Idle

\* The loop's next place, handler by handler.
LEMMA LoopPlaces ==
  /\ Idle \in Loops /\ [at |-> "dead"] \in Loops
  /\ \A W \in SUBSET Turns : \A b \in BOOLEAN :
       [at |-> "claim", window |-> W, process |-> b] \in Loops
  /\ \A q \in Seq(Tasks) \ {<<>>} : [at |-> "launch", queue |-> q] \in Loops
  /\ \A task \in Tasks : \A place \in {"idle", "dead"} :
       /\ [at |-> place] \in Loops
       /\ [at |-> "tail", task |-> task, then |-> place] \in Loops
  BY DEF Loops, Idle

LEMMA StepTypes == TypeOK /\ [Next]_vars => TypeOK'
<1> SUFFICES ASSUME TypeOK, [Next]_vars PROVE TypeOK'
  OBVIOUS
<1> USE NoticingAssumption
<1>1. CASE UNCHANGED vars
  BY <1>1 DEF vars, TypeOK, Turns, Loops, Tasks
<1>2. ASSUME NEW b \in BOOLEAN, NEW c \in BOOLEAN, TurnStarts(b, c) PROVE TypeOK'
  <2>1. turns' \in Turns
    BY <1>2 DEF TurnStarts, TypeOK, Turns
  <2>2. turn' \in [id : Turns, dialogue : BOOLEAN, opened : BOOLEAN]
    BY <1>2, <2>1 DEF TurnStarts
  <2>3. slot' \in {NoSlot} \cup [turn : Turns, old : BOOLEAN]
    BY <1>2, <2>1 DEF TurnStarts, TypeOK, Opened
  <2>4. turns' \in 0 .. MaxTurns
    BY <2>1 DEF Turns
  <2> QED BY <1>2, <2>2, <2>3, <2>4 DEF TurnStarts, TypeOK
<1>3. ASSUME NEW b \in BOOLEAN, TurnEnds(b) PROVE TypeOK'
  <2>1. turn.id \in Turns
    BY <1>3 DEF TurnEnds, TypeOK
  <2>2. slot # NoSlot => slot.turn \in Turns
    BY DEF TypeOK
  <2>3. rows' \subseteq Turns
    BY <1>3, <2>1 DEF TurnEnds, TypeOK, Pruned
  <2>4. text' \in [Turns -> Turns \cup {None}]
    BY <1>3, <2>1, <2>2 DEF TurnEnds, TypeOK
  <2> QED BY <1>3, <2>3, <2>4 DEF TurnEnds, TypeOK
<1>4. CASE TurnLost
  BY <1>4 DEF TurnLost, TypeOK
<1>5. CASE SlotAges
  BY <1>5 DEF SlotAges, TypeOK
<1>6. CASE Heartbeat
  <2>1. PICK idle \in BOOLEAN, elapsed \in BOOLEAN, backlog \in BOOLEAN :
          loop' = [at |-> "claim", window |-> Survey(idle, elapsed),
                   process |-> backlog /\ GatesOpen(elapsed)]
    BY <1>6 DEF Heartbeat
  <2>2. (backlog /\ GatesOpen(elapsed)) \in BOOLEAN
    BY DEF GatesOpen
  <2>3. loop' \in Loops /\ loop'.at = "claim"
    BY <2>1, <2>2, SurveyTypes, LoopPlaces
  <2>4. slot' \in {NoSlot} \cup [turn : Turns, old : BOOLEAN]
    BY <1>6, SlotTypes DEF Heartbeat
  <2> QED BY <1>6, <2>3, <2>4 DEF Heartbeat, TypeOK
<1>7. CASE FrameRaises
  <2>0. minted + 2 \in Nat
    BY DEF TypeOK
  <2>1. by' \in [Turns -> Nat] /\ minted' \in Nat
    BY <1>7, <2>0, ClaimTypes DEF FrameRaises, TypeOK
  <2>2. loop' \in Loops /\ loop'.at = "dead"
    BY <1>7, LoopPlaces DEF FrameRaises
  <2> QED BY <1>7, <2>1, <2>2 DEF FrameRaises, TypeOK, lane
<1>8. CASE FrameClaims
  <2>0. minted + 2 \in Nat
    BY DEF TypeOK
  <2>1. by' \in [Turns -> Nat] /\ minted' \in Nat
    BY <1>8, <2>0, ClaimTypes DEF FrameClaims, TypeOK
  <2>2. loop' \in Loops /\ loop'.at # "tail"
    BY <1>8, LaunchTypes, LoopPlaces DEF FrameClaims, Idle
  <2> QED BY <1>8, <2>1, <2>2 DEF FrameClaims, TypeOK, lane
<1>9. CASE Launch
  <2> DEFINE launch == Head(loop.queue)
  <2>1. launch \in Tasks
    BY <1>9, QueueTypes DEF Launch
  <2>2. Reserved(launch) \in [pending : Nat, subject : BOOLEAN, used : Nat, day : Nat]
    BY <2>1, UsedTypes DEF Reserved, Tasks, TypeOK
  <2>3. Refused(launch) \in [Turns -> Nat]
    BY <2>1, ClaimTypes DEF Refused, Tasks, TypeOK
  <2>4. loop' \in Loops /\ loop'.at # "tail"
    <3>1. CASE Len(loop.queue) = 1
      BY <1>9, <3>1, LoopPlaces DEF Launch, Idle
    <3>2. CASE Len(loop.queue) # 1
      <4>1. loop = [at |-> "launch", queue |-> loop.queue]
        BY <1>9 DEF Launch, TypeOK, Loops, Idle
      <4>2. loop' = [at |-> "launch", queue |-> Tail(loop.queue)]
        BY <1>9, <3>2, <4>1 DEF Launch
      <4> QED BY <1>9, <3>2, <4>2, QueueTypes, LoopPlaces DEF Launch
    <3> QED BY <3>1, <3>2
  <2>5. CASE Admits
    <3>1. /\ db' = Reserved(launch) /\ tasks' = tasks \cup {launch}
          /\ started' = started + 1 /\ UNCHANGED by
      BY <1>9, <2>5 DEF Launch
    <3>2. tasks' \subseteq Tasks /\ started' \in Nat
      BY <2>1, <3>1 DEF TypeOK
    <3> QED BY <1>9, <2>2, <2>4, <3>1, <3>2 DEF Launch, TypeOK, lane
  <2>6. CASE ~Admits
    BY <1>9, <2>3, <2>4, <2>6 DEF Launch, TypeOK, lane
  <2> QED BY <2>5, <2>6
<1>10. CASE CompletionTail
  <2>1. loop' \in Loops /\ loop'.at # "tail"
    BY <1>10, LoopTypes, LoopPlaces DEF CompletionTail
  <2> QED BY <1>10, <2>1 DEF CompletionTail, TypeOK, lane, None
<1>11. ASSUME NEW task \in tasks, NEW b \in BOOLEAN, Completes(task, b)
       PROVE  TypeOK'
  <2>1. task \in Tasks /\ task.id \in Nat
    BY DEF TypeOK, Tasks
  <2>2. loop' \in Loops /\ (loop'.at = "tail" => loop'.task \in tasks')
    BY <1>11, <2>1, LoopPlaces DEF Completes, Free
  <2>3. slot' \in {NoSlot} \cup [turn : Turns, old : BOOLEAN]
    BY <1>11, SlotTypes DEF Completes
  <2>4. PICK idle \in BOOLEAN, elapsed \in BOOLEAN :
          IF Ours(task) /\ b
            THEN Finalize(task.id) /\ UNCHANGED minted
            ELSE /\ by' = IF Ours(task) THEN Release(task.id)
                          ELSE Claim(Survey(idle, elapsed), minted + 2)
                 /\ minted' = IF Survey(idle, elapsed) = {} THEN minted
                                                            ELSE minted + 2
                 /\ UNCHANGED <<rows, noticed>>
    BY <1>11 DEF Completes
  <2>5. /\ by' \in [Turns -> Nat] /\ minted' \in Nat
        /\ rows' \subseteq Turns /\ noticed' \in [Turns -> Nat]
    <3>1. CASE Ours(task) /\ b
      <4>1. noticed' \in [Turns -> Nat]
        BY <2>4, <3>1 DEF Finalize, TypeOK
      <4> QED BY <2>1, <2>4, <3>1, <4>1, ClaimTypes DEF Finalize, TypeOK
    <3>2. CASE ~(Ours(task) /\ b)
      <4>1. minted + 2 \in Nat
        BY DEF TypeOK
      <4>2. /\ by' = IF Ours(task) THEN Release(task.id)
                     ELSE Claim(Survey(idle, elapsed), minted + 2)
            /\ minted' = IF Survey(idle, elapsed) = {} THEN minted
                                                       ELSE minted + 2
            /\ UNCHANGED <<rows, noticed>>
        BY <2>4, <3>2
      <4>3. by' \in [Turns -> Nat]
        <5>1. Release(task.id) \in [Turns -> Nat]
          BY <2>1, ClaimTypes
        <5>2. Claim(Survey(idle, elapsed), minted + 2) \in [Turns -> Nat]
          BY <4>1, ClaimTypes
        <5> QED BY <4>2, <5>1, <5>2
      <4>4. minted' \in Nat
        BY <4>1, <4>2 DEF TypeOK
      <4> QED BY <4>2, <4>3, <4>4 DEF TypeOK
    <3> QED BY <3>1, <3>2
  <2> QED BY <1>11, <2>2, <2>3, <2>5 DEF Completes, TypeOK
<1>12. ASSUME NEW task \in tasks, NEW b \in BOOLEAN, NEW c \in BOOLEAN,
              CompletionRaises(task, b, c)
       PROVE  TypeOK'
  <2>1. by' \in [Turns -> Nat]
    BY <1>12, ClaimTypes DEF CompletionRaises, TypeOK, Tasks
  <2>2. slot' \in {NoSlot} \cup [turn : Turns, old : BOOLEAN]
    BY <1>12, SlotTypes DEF CompletionRaises
  <2>3. loop' \in Loops /\ loop'.at # "tail"
    BY <1>12 DEF CompletionRaises, Free, TypeOK
  <2> QED BY <1>12, <2>1, <2>2, <2>3 DEF CompletionRaises, TypeOK, None
<1>13. CASE Connect
  BY <1>13, ClaimTypes DEF Connect, TypeOK, lane, None
<1>14. CASE Reconnect
  BY <1>14, ClaimTypes, LoopPlaces DEF Reconnect, TypeOK, lane, Idle
<1>15. CASE Disconnect
  BY <1>15, LoopPlaces DEF Disconnect, TypeOK, lane, Idle
<1>16. CASE Crash
  BY <1>16, LoopPlaces DEF Crash, TypeOK, Idle
<1>17. CASE Wipe
  BY <1>17 DEF Wipe, TypeOK, lane, None
<1>18. CASE NewDay
  BY <1>18 DEF NewDay, TypeOK, lane
<1> QED
  BY <1>1, <1>2, <1>3, <1>4, <1>5, <1>6, <1>7, <1>8, <1>9, <1>10, <1>11, <1>12,
     <1>13, <1>14, <1>15, <1>16, <1>17, <1>18 DEF Next, LoopGoesOn

\* Every reachable state of the buffer, the loop and the passes is well typed.
THEOREM NoticingTypeCorrect == Spec => []TypeOK
BY InitTypes, StepTypes, PTL DEF Spec

-----------------------------------------------------------------------------
(* Single flight.  A pass in flight is the one the row names, so a second is  *)
(* refused while it lasts; while the adapter is down there is none at all.    *)

Tracked ==
  "wiped" \notin mark => /\ \A a \in tasks : a.id = db.pending
                         /\ \A a, b \in tasks : a = b
Stopped   == ~up => tasks = {} /\ loop = Idle
FlightInv == TypeOK /\ Tracked /\ Stopped

LEMMA InitFlight == Init => FlightInv
  BY InitTypes DEF Init, FlightInv, Tracked, Stopped

\* An admitted launch finds no other pass: a tracked one would be pending.
LEMMA LaunchTracked == FlightInv /\ Launch => Tracked'
<1> SUFFICES ASSUME FlightInv, Launch, "wiped" \notin mark' PROVE Tracked'
  BY DEF Tracked
<1> DEFINE launch == Head(loop.queue)
<1>1. "wiped" \notin mark
  BY DEF Launch
<1>2. CASE Admits
  <2>1. tasks = {}
    <3> SUFFICES ASSUME NEW a \in tasks PROVE FALSE
      OBVIOUS
    <3>1. a.id # 0
      BY DEF FlightInv, TypeOK, Tasks
    <3>2. a.id = db.pending
      BY <1>1 DEF FlightInv, Tracked
    <3> QED BY <1>2, <3>1, <3>2 DEF Admits, None
  <2>2. tasks' = {launch}
    BY <1>2, <2>1 DEF Launch
  <2>3. db'.pending = launch.id
    BY <1>2 DEF Launch, Reserved
  <2> QED BY <2>2, <2>3 DEF Tracked
<1>3. CASE ~Admits
  BY <1>1, <1>3 DEF Launch, FlightInv, Tracked
<1> QED BY <1>2, <1>3

\* The pass whose completion ends was the only one.
LEMMA EndsTracked ==
  ASSUME FlightInv, NEW task \in tasks, tasks' = tasks \ {task},
         "wiped" \in mark => "wiped" \in mark'
  PROVE  Tracked'
<1> SUFFICES ASSUME "wiped" \notin mark' PROVE tasks' = {}
  BY DEF Tracked
<1> QED BY DEF FlightInv, Tracked

LEMMA StepFlight == FlightInv /\ [Next]_vars => FlightInv'
<1> SUFFICES ASSUME FlightInv, [Next]_vars PROVE Tracked' /\ Stopped'
  BY StepTypes DEF FlightInv
<1> USE DEF FlightInv
<1>1. CASE UNCHANGED vars
  BY <1>1 DEF vars, Tracked, Stopped
<1>2. ASSUME NEW b \in BOOLEAN, NEW c \in BOOLEAN, TurnStarts(b, c) \/ TurnEnds(b)
      PROVE  Tracked' /\ Stopped'
  BY <1>2 DEF TurnStarts, TurnEnds, Tracked, Stopped
<1>3. CASE TurnLost \/ SlotAges
  BY <1>3 DEF TurnLost, SlotAges, Tracked, Stopped
<1>4. CASE Heartbeat
  BY <1>4 DEF Heartbeat, Tracked, Stopped
<1>5. CASE FrameClaims
  BY <1>5 DEF FrameClaims, Tracked, Stopped, lane, Idle
<1>6. CASE FrameRaises
  BY <1>6 DEF FrameRaises, Tracked, Stopped, lane, Idle
<1>7. CASE Launch
  <2>1. loop # Idle
    BY <1>7 DEF Launch, Idle
  <2>2. up /\ up' = up
    BY <1>7, <2>1 DEF Launch, Stopped
  <2> QED BY <1>7, <2>2, LaunchTracked DEF Stopped
<1>8. CASE CompletionTail
  <2>1. loop # Idle /\ loop.task \in tasks
    BY <1>8 DEF CompletionTail, TypeOK, Idle
  <2>2. up'
    BY <1>8, <2>1 DEF CompletionTail, Stopped
  <2>3. tasks' = tasks \ {loop.task} /\ mark' = mark
    BY <1>8 DEF CompletionTail
  <2> QED BY <2>1, <2>2, <2>3, EndsTracked DEF Stopped
<1>9. ASSUME NEW task \in tasks, NEW b \in BOOLEAN, Completes(task, b)
      PROVE  Tracked' /\ Stopped'
  BY <1>9 DEF Completes, Tracked, Stopped
<1>10. ASSUME NEW task \in tasks, NEW b \in BOOLEAN, NEW c \in BOOLEAN,
              CompletionRaises(task, b, c)
       PROVE  Tracked' /\ Stopped'
  <2>1. up' /\ tasks' = tasks \ {task} /\ mark' = mark \cup {"raised"}
    BY <1>10 DEF CompletionRaises
  <2> QED BY <2>1, EndsTracked DEF Stopped
<1>11. CASE Connect
  BY <1>11 DEF Connect, Tracked, Stopped
<1>12. CASE Reconnect
  BY <1>12 DEF Reconnect, Tracked, Stopped, lane
<1>13. CASE Disconnect \/ Crash
  BY <1>13 DEF Disconnect, Crash, Tracked, Stopped
<1>14. CASE Wipe
  BY <1>14 DEF Wipe, Tracked, Stopped
<1>15. CASE NewDay
  BY <1>15 DEF NewDay, Tracked, Stopped
<1> QED
  BY <1>1, <1>2, <1>3, <1>4, <1>5, <1>6, <1>7, <1>8, <1>9, <1>10, <1>11, <1>12,
     <1>13, <1>14, <1>15 DEF Next, LoopGoesOn

\* At most one internal pass is in flight, for every budget, crash, restart
\* and failed completion, while the row that records it is not wiped.
THEOREM OneFlight == Spec => []SingleFlight
<1>1. FlightInv => SingleFlight
  BY DEF FlightInv, Tracked, SingleFlight
<1> QED BY <1>1, InitFlight, StepFlight, PTL DEF Spec

-----------------------------------------------------------------------------
(* No turn is noticed twice.  A noticed turn is over and has no row, and only *)
(* the turn the host composes, which is none of them, is given one.           *)

Past(t)  == t <= turns /\ t \notin rows /\ t # turn.id
Composed == turn.id # None => turn.id = turns /\ turn.id \notin rows
OnceInv  ==
  /\ TypeOK /\ rows \subseteq 1 .. turns /\ Composed
  /\ \A t \in Turns : noticed[t] <= 1 /\ (noticed[t] > 0 => Past(t))

LEMMA InitOnce == Init => OnceInv
  BY InitTypes DEF Init, OnceInv, Composed, NoTurn

LEMMA StepOnce == OnceInv /\ [Next]_vars => OnceInv'
<1> DEFINE Counted == \A t \in Turns : noticed[t] <= 1 /\ (noticed[t] > 0 => Past(t))
<1> SUFFICES ASSUME OnceInv, [Next]_vars
             PROVE  (rows \subseteq 1 .. turns /\ Composed /\ Counted)'
  BY StepTypes DEF OnceInv
<1> USE DEF OnceInv
<1>0. turns \in Nat /\ noticed \in [Turns -> Nat]
  BY DEF TypeOK
<1>1. ASSUME UNCHANGED <<turn, turns, rows, noticed>>
      PROVE  (rows \subseteq 1 .. turns /\ Composed /\ Counted)'
  BY <1>1 DEF Composed, Past
<1>2. ASSUME NEW b \in BOOLEAN, NEW c \in BOOLEAN, TurnStarts(b, c)
      PROVE  (rows \subseteq 1 .. turns /\ Composed /\ Counted)'
  <2>1. /\ turns' = turns + 1 /\ turn'.id = turns + 1
        /\ rows' = rows /\ noticed' = noticed
    BY <1>2 DEF TurnStarts
  <2> QED BY <1>0, <2>1 DEF Composed, Past, Turns
<1>3. ASSUME NEW b \in BOOLEAN, TurnEnds(b)
      PROVE  (rows \subseteq 1 .. turns /\ Composed /\ Counted)'
  <2>1. /\ rows' \subseteq rows \cup {turn.id} /\ turn'.id = None
        /\ turns' = turns /\ noticed' = noticed
    BY <1>3 DEF TurnEnds, Pruned, NoTurn
  <2>2. turn.id \in Turns
    BY <1>3 DEF TurnEnds, TypeOK
  <2>3. turn.id = turns /\ turn.id >= 1
    BY <2>2 DEF Composed, Turns, None
  <2>4. \A t \in Turns : t # None
    BY DEF Turns, None
  <2>5. (rows \subseteq 1 .. turns)'
    <3>1. turn.id \in 1 .. turns
      BY <1>0, <2>3
    <3> QED BY <2>1, <3>1
  <2>6. Composed'
    BY <2>1 DEF Composed
  <2>7. ASSUME NEW t \in Turns, noticed[t] > 0 PROVE Past(t)'
    BY <2>1, <2>4, <2>7 DEF Past
  <2> QED BY <2>1, <2>5, <2>6, <2>7
<1>4. ASSUME turn' = NoTurn, UNCHANGED <<turns, rows, noticed>>
      PROVE  (rows \subseteq 1 .. turns /\ Composed /\ Counted)'
  <2>1. turn'.id = None /\ \A t \in Turns : t # None
    BY <1>4 DEF NoTurn, None, Turns
  <2> QED BY <1>4, <2>1 DEF Composed, Past
<1>5. ASSUME NEW task \in tasks, NEW b \in BOOLEAN, Completes(task, b)
      PROVE  (rows \subseteq 1 .. turns /\ Composed /\ Counted)'
  <2>1. CASE UNCHANGED <<rows, noticed>>
    BY <1>1, <1>5, <2>1 DEF Completes
  <2>2. CASE Finalize(task.id)
    <3>1. turn' = turn /\ turns' = turns /\ rows' = rows \ ClaimedBy(task.id)
      BY <1>5, <2>2 DEF Completes, Finalize
    <3>2. ClaimedBy(task.id) \subseteq rows
      BY DEF ClaimedBy
    <3>3. ASSUME NEW t \in Turns
          PROVE  (noticed[t] <= 1 /\ (noticed[t] > 0 => Past(t)))'
      <4>1. noticed'[t] = noticed[t] + IF t \in ClaimedBy(task.id) THEN 1 ELSE 0
        BY <2>2 DEF Finalize
      <4>2. CASE t \in ClaimedBy(task.id)
        <5>1. t \in rows /\ t <= turns /\ t # turn.id
          BY <1>0, <3>2, <4>2 DEF Composed, Turns, None
        <5>2. noticed[t] = 0
          BY <1>0, <5>1 DEF Past
        <5> QED BY <3>1, <4>1, <4>2, <5>1, <5>2 DEF Past
      <4>3. CASE t \notin ClaimedBy(task.id)
        BY <1>0, <3>1, <4>1, <4>3 DEF Past
      <4> QED BY <4>2, <4>3
    <3>4. (rows \subseteq 1 .. turns /\ Composed)'
      BY <3>1 DEF Composed
    <3>5. Counted'
      BY <3>3
    <3> QED BY <3>4, <3>5
  <2> QED BY <1>5, <2>1, <2>2 DEF Completes
<1>6. CASE UNCHANGED vars
  BY <1>1, <1>6 DEF vars
<1>7. CASE TurnLost \/ Crash
  BY <1>4, <1>7 DEF TurnLost, Crash
<1>8. CASE SlotAges \/ Heartbeat \/ FrameRaises
  BY <1>1, <1>8 DEF SlotAges, Heartbeat, FrameRaises, lane
<1>9. CASE LoopGoesOn
  BY <1>1, <1>9 DEF LoopGoesOn, FrameClaims, Launch, CompletionTail, lane
<1>10. ASSUME NEW task \in tasks, NEW b \in BOOLEAN, NEW c \in BOOLEAN,
              CompletionRaises(task, b, c)
       PROVE  (rows \subseteq 1 .. turns /\ Composed /\ Counted)'
  BY <1>1, <1>10 DEF CompletionRaises
<1>11. CASE Connect \/ Reconnect \/ Disconnect
  BY <1>1, <1>11 DEF Connect, Reconnect, Disconnect, lane
<1>12. CASE Wipe \/ NewDay
  BY <1>1, <1>12 DEF Wipe, NewDay, lane
<1> QED
  BY <1>2, <1>3, <1>5, <1>6, <1>7, <1>8, <1>9, <1>10, <1>11, <1>12 DEF Next

\* No turn is surveyed to the end twice, for every buffer, window and number
\* of turns, through releases, crashes between two commits and wipes.
THEOREM NeverTwice == Spec => []NoticedOnce
<1>1. OnceInv => NoticedOnce
  BY DEF OnceInv, NoticedOnce
<1> QED BY <1>1, InitOnce, StepOnce, PTL DEF Spec

-----------------------------------------------------------------------------
(* The budget.  What the row counts for today covers the passes admitted      *)
(* today, and only a launch below the ceiling raises it.                      *)

BudgetInv == TypeOK /\ Ceiling \in Nat /\ started <= UsedToday /\ db.used <= Ceiling

LEMMA InitBudget == Init => BudgetInv
  BY InitTypes, NoticingAssumption DEF Init, BudgetInv, UsedToday

LEMMA StepBudget == BudgetInv /\ [Next]_vars => BudgetInv'
<1> SUFFICES ASSUME BudgetInv, [Next]_vars
             PROVE  started' <= UsedToday' /\ db'.used <= Ceiling
  BY StepTypes DEF BudgetInv
<1> USE DEF BudgetInv
<1>0. /\ started \in Nat /\ day \in Nat
      /\ db \in [pending : Nat, subject : BOOLEAN, used : Nat, day : Nat]
  BY DEF TypeOK
<1>1. ASSUME UNCHANGED <<db, day, started>>
      PROVE  started' <= UsedToday' /\ db'.used <= Ceiling
  BY <1>1 DEF UsedToday
<1>2. ASSUME db' = [db EXCEPT !.pending = None, !.subject = FALSE],
             UNCHANGED <<day, started>>
      PROVE  started' <= UsedToday' /\ db'.used <= Ceiling
  <2>1. db'.used = db.used /\ db'.day = db.day
    BY <1>0, <1>2
  <2> QED BY <1>2, <2>1 DEF UsedToday
<1>3. CASE Launch
  <2>1. CASE Admits
    <3>1. /\ db'.used = UsedToday + 1 /\ db'.day = day
          /\ day' = day /\ started' = started + 1
      BY <1>3, <2>1 DEF Launch, Reserved, lane
    <3>2. UsedToday \in Nat /\ UsedToday < Ceiling
      BY <1>0, <2>1 DEF Admits, UsedToday
    <3>3. UsedToday' = UsedToday + 1
      BY <3>1 DEF UsedToday
    <3> QED BY <1>0, <3>1, <3>2, <3>3
  <2>2. CASE ~Admits
    BY <1>1, <1>3, <2>2 DEF Launch
  <2> QED BY <2>1, <2>2
<1>4. CASE CompletionTail
  BY <1>2, <1>4 DEF CompletionTail
<1>5. ASSUME NEW task \in tasks, NEW b \in BOOLEAN, NEW c \in BOOLEAN,
             CompletionRaises(task, b, c)
      PROVE  started' <= UsedToday' /\ db'.used <= Ceiling
  BY <1>1, <1>2, <1>5 DEF CompletionRaises
<1>6. CASE Connect
  BY <1>2, <1>6 DEF Connect
<1>7. CASE Wipe
  <2>1. db'.used = 0 /\ db'.day = db.day /\ started' = 0
    BY <1>0, <1>7 DEF Wipe
  <2> QED BY <2>1 DEF UsedToday
<1>8. CASE NewDay
  BY <1>0, <1>8 DEF NewDay, UsedToday
<1>9. ASSUME NEW b \in BOOLEAN, NEW c \in BOOLEAN, TurnStarts(b, c) \/ TurnEnds(b)
      PROVE  started' <= UsedToday' /\ db'.used <= Ceiling
  BY <1>1, <1>9 DEF TurnStarts, TurnEnds
<1>10. CASE TurnLost \/ SlotAges \/ Heartbeat \/ FrameRaises \/ FrameClaims
  BY <1>1, <1>10 DEF TurnLost, SlotAges, Heartbeat, FrameRaises, FrameClaims
<1>11. ASSUME NEW task \in tasks, NEW b \in BOOLEAN, Completes(task, b)
       PROVE  started' <= UsedToday' /\ db'.used <= Ceiling
  BY <1>1, <1>11 DEF Completes
<1>12. CASE Reconnect \/ Disconnect \/ Crash
  BY <1>1, <1>12 DEF Reconnect, Disconnect, Crash
<1>13. CASE UNCHANGED vars
  BY <1>1, <1>13 DEF vars
<1> QED
  BY <1>3, <1>4, <1>5, <1>6, <1>7, <1>8, <1>9, <1>10, <1>11, <1>12, <1>13
     DEF Next, LoopGoesOn

\* No day admits more passes than its ceiling, whatever the row's counter went
\* through: the day's turn between a check and a reservation, crashes, wipes.
THEOREM WithinBudget == Spec => []BudgetKept
<1>1. BudgetInv => BudgetKept
  BY DEF BudgetInv, BudgetKept, TypeOK, UsedToday
<1> QED BY <1>1, InitBudget, StepBudget, PTL DEF Spec

\* Both together: what an admission promises, for any ceiling.
THEOREM Admission == Spec => []AdmissionHolds
<1>1. SingleFlight /\ BudgetKept => AdmissionHolds
  BY DEF AdmissionHolds
<1> QED BY <1>1, OneFlight, WithinBudget, PTL

-----------------------------------------------------------------------------
(* A row's words.  The slot of a turn that opened it is its own, and whatever *)
(* slot is open, its words are stored nowhere yet: the next row is the first  *)
(* to carry them.                                                             *)

SlotFits == turn.opened /\ slot # NoSlot => slot.turn = turn.id
Unstored ==
  /\ \A u \in Turns : text[u] <= turns
  /\ slot # NoSlot => slot.turn <= turns /\ \A u \in Turns : text[u] # slot.turn
TextInv == TypeOK /\ SlotFits /\ Unstored

LEMMA InitText == Init => TextInv
  BY InitTypes DEF Init, TextInv, SlotFits, Unstored, NoTurn, None

LEMMA StepText == TextInv /\ [Next]_vars => TextInv'
<1> SUFFICES ASSUME TextInv, [Next]_vars PROVE SlotFits' /\ Unstored'
  BY StepTypes DEF TextInv
<1> USE DEF TextInv
<1>0. turns \in Nat /\ text \in [Turns -> Nat]
  <2>1. turns \in Nat /\ text \in [Turns -> Turns \cup {None}]
    BY NoticingAssumption DEF TypeOK
  <2>2. Turns \cup {None} \subseteq Nat
    BY NoticingAssumption DEF Turns, None
  <2> QED BY <2>1, <2>2
<1>1. ASSUME turn' = turn, slot' \in {slot, AgedSlot}, UNCHANGED <<turns, text>>
      PROVE  SlotFits' /\ Unstored'
  BY <1>1 DEF SlotFits, Unstored, AgedSlot
<1>2. ASSUME NEW b \in BOOLEAN, NEW c \in BOOLEAN, TurnStarts(b, c)
      PROVE  SlotFits' /\ Unstored'
  <2>1. /\ turns' = turns + 1 /\ text' = text
        /\ turn'.id = turns' /\ turn'.opened = c
        /\ slot' = IF c THEN Opened(turns') ELSE slot
    BY <1>2 DEF TurnStarts
  <2>2. \A u \in Turns : text[u] \in Nat /\ text[u] <= turns
    BY <1>0 DEF Unstored
  <2>3. slot # NoSlot => slot.turn \in Nat
    BY NoticingAssumption DEF TypeOK, Turns
  <2> QED BY <1>0, <2>1, <2>2, <2>3 DEF SlotFits, Unstored, Opened
<1>3. ASSUME NEW b \in BOOLEAN, TurnEnds(b) PROVE SlotFits' /\ Unstored'
  <2>1. slot' = NoSlot /\ turns' = turns
        /\ \/ text' = text
           \/ slot # NoSlot /\ text' = [text EXCEPT ![turn.id] = slot.turn]
    BY <1>3 DEF TurnEnds
  <2> QED BY <1>0, <2>1 DEF SlotFits, Unstored
<1>4. CASE TurnLost \/ Crash
  BY <1>4 DEF TurnLost, Crash, NoTurn, SlotFits, Unstored
<1>5. CASE SlotAges
  <2>1. slot'.turn = slot.turn
    BY <1>5 DEF SlotAges, TypeOK, NoSlot
  <2> QED BY <1>5, <2>1 DEF SlotAges, SlotFits, Unstored
<1>6. CASE Heartbeat
  BY <1>1, <1>6 DEF Heartbeat
<1>7. CASE FrameRaises \/ LoopGoesOn
  BY <1>1, <1>7 DEF FrameRaises, LoopGoesOn, FrameClaims, Launch, CompletionTail, lane
<1>8. ASSUME NEW task \in tasks, NEW b \in BOOLEAN, Completes(task, b)
      PROVE  SlotFits' /\ Unstored'
  BY <1>1, <1>8 DEF Completes
<1>9. ASSUME NEW task \in tasks, NEW b \in BOOLEAN, NEW c \in BOOLEAN,
             CompletionRaises(task, b, c)
      PROVE  SlotFits' /\ Unstored'
  BY <1>1, <1>9 DEF CompletionRaises
<1>10. CASE Connect \/ Reconnect \/ Disconnect \/ Wipe \/ NewDay
  BY <1>1, <1>10 DEF Connect, Reconnect, Disconnect, Wipe, NewDay, lane
<1>11. CASE UNCHANGED vars
  BY <1>1, <1>11 DEF vars
<1> QED
  BY <1>2, <1>3, <1>4, <1>5, <1>6, <1>7, <1>8, <1>9, <1>10, <1>11 DEF Next

\* What a row that is put carries.
PutInOwnWords ==
  \A t \in rows' \ rows : /\ turn.opened => text'[t] = t
                          /\ \A u \in Turns \ {t} : text[u] # text'[t]

LEMMA StepWords == TextInv /\ [Next]_vars => PutInOwnWords
<1> SUFFICES ASSUME TextInv, [Next]_vars, NEW t \in rows' \ rows
             PROVE  /\ turn.opened => text'[t] = t
                    /\ \A u \in Turns \ {t} : text[u] # text'[t]
  BY DEF PutInOwnWords
<1>1. ASSUME rows' \subseteq rows PROVE FALSE
  BY <1>1
<1>2. PICK b \in BOOLEAN : TurnEnds(b)
  BY <1>1
  DEF Next, vars, TurnStarts, TurnLost, SlotAges, Heartbeat, FrameRaises, LoopGoesOn,
      FrameClaims, Launch, CompletionTail, Completes, Finalize, CompletionRaises, Connect,
      Reconnect, Disconnect, Crash, Wipe, NewDay, lane
<1>3. /\ slot # NoSlot /\ turn # NoTurn /\ rows' = Pruned(rows \cup {turn.id})
      /\ text' = [text EXCEPT ![turn.id] = slot.turn]
  BY <1>1, <1>2 DEF TurnEnds
<1>4. t = turn.id /\ t \in Turns /\ text \in [Turns -> Turns \cup {None}]
  BY <1>3 DEF Pruned, TextInv, TypeOK
<1>5. text'[t] = slot.turn
  BY <1>3, <1>4
<1> QED BY <1>3, <1>4, <1>5 DEF TextInv, SlotFits, Unstored

\* A row is put with the words of its own turn, however many turns before it were
\* interrupted with their slot left open, and no words are stored twice; a turn
\* that could not open the slot may be given the words of an interrupted one.
THEOREM OwnWords == Spec => OwnText
<1>1. TextInv /\ [Next]_vars =>
        [\A t \in rows' \ rows : /\ turn.opened => text'[t] = t
                                 /\ \A u \in Turns \ {t} : text[u] # text'[t]]_vars
  BY StepWords DEF PutInOwnWords
<1> QED BY <1>1, InitText, StepText, PTL DEF Spec, OwnText

-----------------------------------------------------------------------------
(* Claim immunity: of all steps only a finalize takes a claimed row away.     *)

ClaimStays == \A t \in rows : by[t] # None /\ t \notin rows' => noticed'[t] > noticed[t]

LEMMA StepClaim == TypeOK /\ [Next]_vars => ClaimStays
<1> SUFFICES ASSUME TypeOK, [Next]_vars PROVE ClaimStays
  OBVIOUS
<1>1. ASSUME rows' = rows PROVE ClaimStays
  BY <1>1 DEF ClaimStays
<1>2. ASSUME NEW b \in BOOLEAN, TurnEnds(b) PROVE ClaimStays
  <2>1. \A t \in rows : by[t] # None => t \in Pruned(rows \cup {turn.id})
    BY DEF Pruned
  <2> QED BY <1>1, <1>2, <2>1 DEF TurnEnds, ClaimStays
<1>3. ASSUME NEW task \in tasks, NEW b \in BOOLEAN, Completes(task, b)
      PROVE  ClaimStays
  <2>1. CASE Finalize(task.id)
    <3> SUFFICES ASSUME NEW t \in rows, t \notin rows'
                 PROVE  noticed'[t] > noticed[t]
      BY DEF ClaimStays
    <3>1. t \in ClaimedBy(task.id)
      BY <2>1 DEF Finalize
    <3>2. t \in Turns /\ noticed[t] \in Nat
      BY DEF TypeOK
    <3>3. noticed'[t] = noticed[t] + 1
      BY <2>1, <3>1, <3>2 DEF Finalize
    <3> QED BY <3>2, <3>3
  <2>2. CASE rows' = rows
    BY <1>1, <2>2
  <2> QED BY <1>3, <2>1, <2>2 DEF Completes
<1>4. ASSUME NEW b \in BOOLEAN, NEW c \in BOOLEAN, TurnStarts(b, c) PROVE ClaimStays
  BY <1>1, <1>4 DEF TurnStarts
<1>5. ASSUME NEW task \in tasks, NEW b \in BOOLEAN, NEW c \in BOOLEAN,
             CompletionRaises(task, b, c)
      PROVE  ClaimStays
  BY <1>1, <1>5 DEF CompletionRaises
<1>6. CASE TurnLost \/ SlotAges \/ Heartbeat \/ FrameRaises \/ LoopGoesOn
  BY <1>1, <1>6 DEF TurnLost, SlotAges, Heartbeat, FrameRaises, LoopGoesOn,
                    FrameClaims, Launch, CompletionTail, lane
<1>7. CASE Connect \/ Reconnect \/ Disconnect \/ Crash \/ Wipe \/ NewDay
  BY <1>1, <1>7 DEF Connect, Reconnect, Disconnect, Crash, Wipe, NewDay, lane
<1>8. CASE UNCHANGED vars
  BY <1>1, <1>8 DEF vars
<1> QED BY <1>2, <1>3, <1>4, <1>5, <1>6, <1>7, <1>8 DEF Next

\* A claimed row leaves the buffer only by being noticed, whatever the buffer
\* keeps and however many turns pile up while it is claimed.
THEOREM ClaimImmune == Spec => ClaimKept
<1>1. TypeOK /\ [Next]_vars =>
        [\A t \in rows : by[t] # None /\ t \notin rows' => noticed'[t] > noticed[t]]_vars
  BY StepClaim DEF ClaimStays
<1> QED BY <1>1, NoticingTypeCorrect, PTL DEF Spec, ClaimKept

-----------------------------------------------------------------------------
(* Claims.  Each has a pass behind it that will notice or release it, all are *)
(* of one survey, and no row that is not claimed is older than one that is.   *)

\* Behind a claim: a noticing pass in flight, or one about to be launched.
Backed(t) ==
  \/ \E task \in tasks : task.id = by[t] /\ ~task.subject
  \/ /\ loop.at = "launch"
     /\ \E i \in DOMAIN loop.queue : loop.queue[i].id = by[t] /\ ~loop.queue[i].subject

\* The row knows what kind of pass is in flight.
KindInv == "wiped" \notin mark => \A a \in tasks : a.subject = db.subject

\* A turn without a row is not claimed.
FreeInv == \A t \in Turns \ rows : by[t] = None

\* Nothing upset the passes and the adapter is up.
Calm == up /\ mark = {}

BackInv == Calm => \A t \in rows : by[t] # None => Backed(t)

\* A noticing pass that reached its tail has left no claim.
EndInv ==
  Calm /\ loop.at = "tail" =>
    loop.task.subject \/ \A t \in rows : by[t] # loop.task.id

\* A survey that is about to claim found no claim, and takes the oldest rows.
WindowInv ==
  Calm /\ loop.at = "claim" /\ loop.window # {} =>
    /\ \A t \in rows : by[t] = None
    /\ \A t \in loop.window \cap rows, u \in rows : u \notin loop.window => u > t

\* The turn that is composed is in no survey.
PastInv ==
  loop.at = "claim" => \A t \in loop.window : t <= turns /\ t # turn.id

SameInv  == Calm => \A t, u \in rows : by[t] # None /\ by[u] # None => by[t] = by[u]
FrontInv == Calm => \A t, u \in rows : by[t] # None /\ by[u] = None => u > t

ClaimInv == KindInv /\ FreeInv /\ BackInv /\ EndInv /\ WindowInv /\ PastInv
            /\ SameInv /\ FrontInv

LEMMA InitClaim == Init => ClaimInv
  BY DEF Init, ClaimInv, KindInv, FreeInv, BackInv, EndInv, WindowInv, PastInv,
         SameInv, FrontInv, Calm, Idle

\* What a frame surveys is the oldest part of the complete rows.
LEMMA SurveyOldest ==
  ASSUME OnceInv, NEW idle \in BOOLEAN, NEW elapsed \in BOOLEAN
  PROVE  /\ Survey(idle, elapsed) # {} => db.pending = None
         /\ \A t \in Survey(idle, elapsed), u \in rows :
              by[u] = None /\ u \notin Survey(idle, elapsed) => u > t
<1> SUFFICES ASSUME Survey(idle, elapsed) # {}
             PROVE  /\ db.pending = None
                    /\ \A t \in Survey(idle, elapsed), u \in rows :
                         by[u] = None /\ u \notin Survey(idle, elapsed) => u > t
  OBVIOUS
<1>1. Survey(idle, elapsed) = Window(Segment) /\ db.pending = None
  BY DEF Survey, GatesOpen
<1>2. Segment = Complete(rows)
  BY <1>1 DEF Segment, Window
<1>3. IsFiniteSet(Complete(rows)) /\ rows \subseteq Nat
  <2>1. turns \in Nat /\ rows \subseteq 1 .. turns
    BY NoticingAssumption DEF OnceInv, TypeOK
  <2>2. Complete(rows) \in SUBSET (1 .. turns)
    BY <2>1 DEF Complete
  <2>3. IsFiniteSet(1 .. turns)
    BY <2>1, FS_Interval
  <2> QED BY <2>1, <2>2, <2>3, FS_Subset
<1>4. ASSUME NEW t \in Window(Complete(rows)), NEW u \in rows, by[u] = None, ~(u > t)
      PROVE  u \in Window(Complete(rows))
  <2> DEFINE U == {v \in Complete(rows) : v <= u}
             T == {v \in Complete(rows) : v <= t}
  <2>1. t \in Complete(rows) /\ u \in Complete(rows) /\ Cardinality(T) <= SizeCap
    BY <1>4 DEF Window, Complete
  <2>2. Complete(rows) \subseteq Nat
    BY <1>3 DEF Complete
  <2>3. u \in Nat /\ t \in Nat /\ u <= t
    BY <1>4, <2>1, <2>2
  <2>4. U \in SUBSET T
    BY <2>2, <2>3
  <2>5. IsFiniteSet(T) /\ IsFiniteSet(U)
    BY <1>3, FS_Subset
  <2>6. Cardinality(U) <= Cardinality(T)
    BY <2>4, <2>5, FS_Subset
  <2>7. Cardinality(U) \in Nat /\ Cardinality(T) \in Nat
    BY <2>5, FS_CardinalityType
  <2>8. Cardinality(U) <= SizeCap
    BY <2>1, <2>6, <2>7, NoticingAssumption
  <2> QED BY <2>1, <2>8 DEF Window
<1> QED BY <1>1, <1>2, <1>4

\* While nothing is pending, no pass is in flight and no row is claimed.
LEMMA NothingClaimed ==
  ASSUME FlightInv, ClaimInv, Calm, loop = Idle, db.pending = None
  PROVE  \A t \in rows : by[t] = None
<1>1. \A a \in tasks : a.id # None /\ a.id = db.pending
  BY DEF FlightInv, TypeOK, Tasks, Tracked, Calm, None
<1> QED BY <1>1 DEF ClaimInv, BackInv, Backed, Idle

\* A step that touches neither the rows, nor their claims, nor the passes, nor
\* what the loop is about to do.
LEMMA SameClaims ==
  ASSUME ClaimInv, UNCHANGED <<rows, by, tasks, loop>>, Calm' => Calm,
         "wiped" \notin mark' => "wiped" \notin mark /\ db'.subject = db.subject,
         PastInv'
  PROVE  ClaimInv'
BY DEF ClaimInv, KindInv, FreeInv, BackInv, EndInv, WindowInv, SameInv, FrontInv, Backed

\* A step after which no row is claimed and the loop is idle.
LEMMA NoClaims ==
  ASSUME ClaimInv, loop' = Idle, KindInv',
         Calm' => (\A t \in Turns : by'[t] = None) /\ rows' \subseteq Turns, FreeInv'
  PROVE  ClaimInv'
<1>1. loop'.at = "idle"
  BY DEF Idle
<1>2. Calm' => \A t \in rows' : by'[t] = None
  OBVIOUS
<1> QED BY <1>1, <1>2 DEF ClaimInv, BackInv, EndInv, WindowInv, PastInv, SameInv, FrontInv

\* A turn that ends adds a row that is not claimed and younger than the others,
\* and the cap takes only rows that are not claimed.
LEMMA TurnEndsClaim ==
  ASSUME OnceInv, ClaimInv, NEW b \in BOOLEAN, TurnEnds(b)
  PROVE  ClaimInv'
<1>1. UNCHANGED <<by, db, loop, tasks, up, mark>>
  BY DEF TurnEnds
<1>a. PastInv'
  <2>1. loop.at = "claim" => loop.window \in SUBSET Turns
    BY LoopTypes DEF OnceInv
  <2> QED BY <2>1 DEF TurnEnds, ClaimInv, PastInv, NoTurn, None, Turns
<1>2. CASE rows' = rows
  BY <1>1, <1>2, <1>a, SameClaims DEF Calm
<1>3. CASE rows' = Pruned(rows \cup {turn.id})
  <2>1. /\ turn.id \in Turns /\ turn.id \notin rows /\ by[turn.id] = None
        /\ \A t \in rows : turn.id > t
    <3>1. turn.id \in Turns /\ turn.id = turns /\ turn.id \notin rows
      BY DEF TurnEnds, OnceInv, TypeOK, Composed, NoTurn, None, Turns
    <3>2. turns \in Nat /\ rows \subseteq 1 .. turns
      BY NoticingAssumption DEF OnceInv, TypeOK
    <3> QED BY <3>1, <3>2 DEF ClaimInv, FreeInv
  <2>2. /\ rows' \subseteq rows \cup {turn.id}
        /\ \A t \in rows \ rows' : by[t] = None
    BY <1>3 DEF Pruned
  <2>3. FreeInv'
    BY <1>1, <2>1, <2>2 DEF ClaimInv, FreeInv
  <2>4. BackInv' /\ EndInv' /\ KindInv'
    BY <1>1, <2>1, <2>2 DEF ClaimInv, KindInv, BackInv, Backed, EndInv, Calm, OnceInv, TypeOK,
                            Tasks, None
  <2>5. SameInv' /\ FrontInv'
    BY <1>1, <2>1, <2>2 DEF ClaimInv, SameInv, FrontInv, Calm
  <2>6. WindowInv'
    <3> SUFFICES ASSUME Calm, loop.at = "claim", loop.window # {}
                 PROVE  /\ \A t \in rows' : by[t] = None
                        /\ \A t \in loop.window \cap rows', u \in rows' :
                             u \notin loop.window => u > t
      BY <1>1 DEF WindowInv, Calm
    <3>1. /\ \A t \in rows : by[t] = None
          /\ \A t \in loop.window \cap rows, u \in rows : u \notin loop.window => u > t
      BY DEF ClaimInv, WindowInv
    <3>2. turn.id \notin loop.window
      BY DEF ClaimInv, PastInv
    <3> QED BY <2>1, <2>2, <3>1, <3>2
  <2> QED BY <1>a, <2>3, <2>4, <2>5, <2>6 DEF ClaimInv
<1> QED BY <1>2, <1>3 DEF TurnEnds

\* A frame claims its window, the oldest rows, when none is claimed.
LEMMA FrameClaimsClaim ==
  ASSUME FlightInv, OnceInv, ClaimInv, FrameClaims
  PROVE  ClaimInv'
<1> DEFINE W == loop.window
<1>1. /\ loop.at = "claim" /\ by' = Claim(W, minted + 2)
      /\ loop' = IF Launches = <<>> THEN Idle ELSE [at |-> "launch", queue |-> Launches]
      /\ UNCHANGED <<rows, db, tasks, up, mark>>
  BY DEF FrameClaims, lane
<1>2. minted + 2 # None /\ rows \subseteq Turns
  BY DEF OnceInv, TypeOK, None
<1>3. \A t \in Turns : by'[t] = IF t \in W /\ t \in rows /\ by[t] = None THEN minted + 2
                                                                     ELSE by[t]
  BY <1>1, <1>2 DEF Claim, Complete
<1>4. W # {} => /\ loop'.at = "launch"
                /\ \E i \in DOMAIN loop'.queue :
                     loop'.queue[i].id = minted + 2 /\ ~loop'.queue[i].subject
  <2> SUFFICES ASSUME W # {}
               PROVE  /\ loop'.at = "launch"
                      /\ \E i \in DOMAIN loop'.queue :
                           loop'.queue[i].id = minted + 2 /\ ~loop'.queue[i].subject
    OBVIOUS
  <2> DEFINE n == [id |-> minted + 2, subject |-> FALSE]
             p == [id |-> minted + 1, subject |-> TRUE]
  <2> DEFINE ps == IF loop.process THEN <<p>> ELSE <<>>
  <2>1. Launches = ps \o <<n>>
    BY DEF Launches
  <2>2. ps \in Seq(Tasks) /\ <<n>> \in Seq(Tasks)
    <3>1. p \in Tasks /\ n \in Tasks
      BY DEF Tasks, OnceInv, TypeOK
    <3> QED BY <3>1
  <2>3. Launches # <<>> /\ \E i \in DOMAIN Launches : Launches[i] = n
    <3> HIDE DEF ps, n
    <3>1. Len(ps) \in Nat
      BY <2>2
    <3>2. /\ Launches \in Seq(Tasks) /\ Len(Launches) = Len(ps) + 1
          /\ Launches[Len(ps) + 1] = n
      BY <2>1, <2>2, ConcatProperties
    <3> QED BY <3>1, <3>2
  <2>4. n.id = minted + 2 /\ ~n.subject
    OBVIOUS
  <2> HIDE DEF n, p, ps
  <2>5. loop' = [at |-> "launch", queue |-> Launches]
    BY <1>1, <2>3
  <2> QED BY <2>3, <2>4, <2>5
<1>5. KindInv' /\ FreeInv'
  BY <1>1, <1>2, <1>3 DEF ClaimInv, KindInv, FreeInv
<1>6. loop'.at # "tail" /\ loop'.at # "claim"
  BY <1>1 DEF Idle
<1>7. EndInv' /\ WindowInv' /\ PastInv'
  BY <1>6 DEF EndInv, WindowInv, PastInv
<1>8. Calm' = Calm /\ (Calm => \A t \in rows : by[t] # None =>
                          \E task \in tasks : task.id = by[t] /\ ~task.subject)
  BY <1>1 DEF ClaimInv, BackInv, Backed, Calm
<1>9. CASE W = {}
  <2>1. \A t \in rows : by'[t] = by[t]
    BY <1>2, <1>3, <1>9
  <2> QED BY <1>1, <1>5, <1>7, <1>8, <2>1 DEF ClaimInv, BackInv, Backed, SameInv, FrontInv
<1>10. CASE W # {}
  <2>1. Calm => /\ \A t \in rows : by[t] = None
                /\ \A t \in W \cap rows, u \in rows : u \notin W => u > t
    BY <1>1, <1>10 DEF ClaimInv, WindowInv
  <2>2. Calm => \A t \in rows : by'[t] = IF t \in W THEN minted + 2 ELSE None
    BY <1>2, <1>3, <2>1
  <2> HIDE DEF W
  <2>3. BackInv'
    BY <1>1, <1>4, <1>8, <1>10, <2>2 DEF BackInv, Backed
  <2>4. SameInv' /\ FrontInv'
    BY <1>1, <1>2, <1>8, <2>1, <2>2 DEF SameInv, FrontInv
  <2> QED BY <1>5, <1>7, <2>3, <2>4 DEF ClaimInv
<1> QED BY <1>9, <1>10

\* The queue without its head.
LEMMA QueueRest ==
  ASSUME TypeOK, loop.at = "launch"
  PROVE  \A i \in DOMAIN loop.queue :
           \/ loop.queue[i] = Head(loop.queue)
           \/ /\ Len(loop.queue) # 1
              /\ \E j \in DOMAIN Tail(loop.queue) : Tail(loop.queue)[j] = loop.queue[i]
<1>1. loop.queue \in Seq(Tasks) /\ loop.queue # <<>>
  BY DEF TypeOK, Loops, Idle
<1>2. /\ Len(loop.queue) \in Nat \ {0} /\ DOMAIN loop.queue = 1 .. Len(loop.queue)
      /\ Head(loop.queue) = loop.queue[1]
      /\ DOMAIN Tail(loop.queue) = 1 .. Len(loop.queue) - 1
      /\ \A j \in 1 .. Len(loop.queue) - 1 : Tail(loop.queue)[j] = loop.queue[j + 1]
  BY <1>1, HeadTailProperties, EmptySeq
<1> SUFFICES ASSUME NEW i \in DOMAIN loop.queue, i # 1
             PROVE  /\ Len(loop.queue) # 1
                    /\ \E j \in DOMAIN Tail(loop.queue) : Tail(loop.queue)[j] = loop.queue[i]
  BY <1>2
<1>3. i - 1 \in 1 .. Len(loop.queue) - 1 /\ (i - 1) + 1 = i
  BY <1>2
<1> QED BY <1>2, <1>3

\* An admitted launch is behind its claim from now on, a refused one gives it back.
LEMMA LaunchClaim ==
  ASSUME FlightInv, OnceInv, ClaimInv, Launch
  PROVE  ClaimInv'
<1> DEFINE launch == Head(loop.queue)
<1>1. /\ loop.at = "launch" /\ UNCHANGED <<rows, up, mark>>
      /\ loop' = IF Len(loop.queue) = 1 THEN Idle ELSE [loop EXCEPT !.queue = Tail(@)]
      /\ \/ /\ Admits /\ db' = Reserved(launch) /\ tasks' = tasks \cup {launch} /\ by' = by
         \/ ~Admits /\ by' = Refused(launch) /\ UNCHANGED <<db, tasks>>
  BY DEF Launch, lane
<1>2. TypeOK /\ rows \subseteq Turns /\ launch \in Tasks
  BY <1>1, QueueTypes DEF FlightInv, TypeOK
<1>3. loop'.at \in {"idle", "launch"}
      /\ (Len(loop.queue) # 1 => loop'.at = "launch" /\ loop'.queue = Tail(loop.queue))
  <2>1. CASE Len(loop.queue) = 1
    BY <1>1, <2>1 DEF Idle
  <2>2. CASE Len(loop.queue) # 1
    <3>1. loop \in [at : {"launch"}, queue : Seq(Tasks) \ {<<>>}]
      BY <1>1, <1>2 DEF TypeOK, Loops, Idle
    <3> QED BY <1>1, <2>2, <3>1
  <2> QED BY <2>1, <2>2
<1> HIDE DEF launch
<1>4. \A t \in Turns : by'[t] = by[t]
                       \/ (~Admits /\ ~launch.subject /\ by[t] = launch.id /\ by'[t] = None)
  <2>1. by' = by \/ (~Admits /\ ~launch.subject /\ by' = Release(launch.id))
    BY <1>1, <1>2 DEF Refused, Tasks
  <2> QED BY <2>1 DEF Release
<1>5. ~Admits /\ ~launch.subject => \A t \in Turns : by'[t] # launch.id
  BY <1>1, <1>2 DEF Refused, Release, TypeOK, Tasks, None
<1>6. KindInv'
  <2>1. CASE Admits
    <3> SUFFICES ASSUME "wiped" \notin mark PROVE \A a \in tasks' : a.subject = db'.subject
      BY <1>1 DEF KindInv
    <3>1. tasks = {}
      <4> SUFFICES ASSUME NEW a \in tasks PROVE FALSE
        OBVIOUS
      <4>1. a.id # 0 /\ a.id = db.pending
        BY DEF FlightInv, TypeOK, Tasks, Tracked
      <4> QED BY <2>1, <4>1 DEF Admits, None
    <3> QED BY <1>1, <2>1, <3>1 DEF Reserved
  <2>2. CASE ~Admits
    BY <1>1, <2>2 DEF ClaimInv, KindInv
  <2> QED BY <2>1, <2>2
<1>7. FreeInv'
  BY <1>1, <1>4 DEF ClaimInv, FreeInv
<1>8. EndInv' /\ WindowInv' /\ PastInv'
  BY <1>3 DEF EndInv, WindowInv, PastInv
<1>9. SameInv' /\ FrontInv'
  <2>1. CASE \A t \in rows : by'[t] = by[t]
    BY <1>1, <2>1 DEF ClaimInv, SameInv, FrontInv, Calm
  <2>2. CASE \E t \in rows : by'[t] # by[t]
    <3>1. PICK t \in rows : ~Admits /\ ~launch.subject /\ by[t] = launch.id
      BY <1>2, <1>4, <2>2
    <3>2. launch.id # None
      BY <1>2 DEF Tasks, None
    <3>3. Calm => \A u \in rows : by[u] = launch.id \/ by[u] = None
      BY <3>1, <3>2 DEF ClaimInv, SameInv
    <3>4. Calm => \A u \in rows : by'[u] = None
      BY <1>2, <1>4, <1>5, <3>1, <3>3
    <3> QED BY <1>1, <3>4 DEF SameInv, FrontInv, Calm
  <2> QED BY <2>1, <2>2
<1>10. BackInv'
  <2> SUFFICES ASSUME Calm, NEW t \in rows, by'[t] # None PROVE Backed(t)'
    BY <1>1 DEF BackInv, Calm
  <2>1. by'[t] = by[t] /\ by[t] # None /\ t \in Turns
    BY <1>2, <1>4
  <2>2. tasks \subseteq tasks'
    BY <1>1
  <2>3. Backed(t)
    BY <2>1 DEF ClaimInv, BackInv
  <2>4. CASE \E task \in tasks : task.id = by[t] /\ ~task.subject
    BY <2>1, <2>2, <2>4 DEF Backed
  <2>5. CASE \E i \in DOMAIN loop.queue : loop.queue[i].id = by[t] /\ ~loop.queue[i].subject
    <3>1. PICK i \in DOMAIN loop.queue : loop.queue[i].id = by[t] /\ ~loop.queue[i].subject
      BY <2>5
    <3>2. CASE loop.queue[i] = launch
      <4>1. Admits
        BY <1>5, <2>1, <3>1, <3>2
      <4>2. launch \in tasks'
        BY <1>1, <4>1
      <4> QED BY <2>1, <3>1, <3>2, <4>2 DEF Backed
    <3>3. CASE loop.queue[i] # launch
      <4>1. /\ Len(loop.queue) # 1
            /\ \E j \in DOMAIN Tail(loop.queue) : Tail(loop.queue)[j] = loop.queue[i]
        BY <1>1, <1>2, <3>3, QueueRest DEF launch
      <4> QED BY <1>3, <2>1, <3>1, <4>1 DEF Backed
    <3> QED BY <3>2, <3>3
  <2> QED BY <2>3, <2>4, <2>5 DEF Backed
<1> QED BY <1>6, <1>7, <1>8, <1>9, <1>10 DEF ClaimInv

\* A heartbeat surveys only when no pass is in flight, and then no row is claimed.
LEMMA HeartbeatClaim ==
  ASSUME FlightInv, OnceInv, ClaimInv, Heartbeat
  PROVE  ClaimInv'
<1>1. PICK idle \in BOOLEAN, elapsed \in BOOLEAN, backlog \in BOOLEAN :
        loop' = [at |-> "claim", window |-> Survey(idle, elapsed),
                 process |-> backlog /\ GatesOpen(elapsed)]
  BY DEF Heartbeat
<1>2. loop = Idle /\ UNCHANGED <<turn, turns, rows, by, db, tasks, up, mark>>
  BY DEF Heartbeat
<1>3. loop'.at = "claim" /\ loop'.window = Survey(idle, elapsed)
  BY <1>1
<1>4. KindInv' /\ FreeInv' /\ SameInv' /\ FrontInv' /\ EndInv'
  BY <1>2, <1>3 DEF ClaimInv, KindInv, FreeInv, SameInv, FrontInv, EndInv, Calm
<1>5. BackInv'
  BY <1>2, <1>3 DEF ClaimInv, BackInv, Backed, Calm, Idle
<1>6. WindowInv'
  <2> SUFFICES ASSUME Calm, Survey(idle, elapsed) # {}
               PROVE  /\ \A t \in rows : by[t] = None
                      /\ \A t \in Survey(idle, elapsed) \cap rows, u \in rows :
                           u \notin Survey(idle, elapsed) => u > t
    BY <1>2, <1>3 DEF WindowInv, Calm
  <2>1. db.pending = None
    BY SurveyOldest
  <2>2. \A t \in rows : by[t] = None
    BY <1>2, <2>1, NothingClaimed
  <2> QED BY <2>2, SurveyOldest
<1>7. PastInv'
  <2>1. Survey(idle, elapsed) \subseteq rows
    BY DEF Survey, Window, Segment, Complete
  <2>2. \A t \in rows : t <= turns /\ t # turn.id
    BY NoticingAssumption DEF OnceInv, Composed, TypeOK, None
  <2> QED BY <1>2, <1>3, <2>1, <2>2 DEF PastInv
<1> QED BY <1>4, <1>5, <1>6, <1>7 DEF ClaimInv

\* The completion of a pass that is tracked ends its claim, and claims nothing.
LEMMA CompletesClaim ==
  ASSUME FlightInv, OnceInv, ClaimInv, NEW task \in tasks, NEW b \in BOOLEAN,
         Completes(task, b)
  PROVE  ClaimInv'
<1>1. /\ up /\ loop.at # "launch"
      /\ loop' = [at |-> "tail", task |-> task, then |-> loop.at]
      /\ UNCHANGED <<db, tasks, up, mark>>
  BY DEF Completes, Free
<1>2. /\ TypeOK /\ rows \subseteq Turns /\ task.id # None /\ task.id \in Nat
      /\ Calm => db.pending = task.id /\ task.subject = db.subject
  BY DEF FlightInv, TypeOK, Tasks, Tracked, ClaimInv, KindInv, Calm, None
<1>3. loop'.at = "tail" /\ loop'.task = task
  BY <1>1
<1>4. KindInv'
  BY <1>1 DEF ClaimInv, KindInv
<1>5. WindowInv' /\ PastInv'
  BY <1>3 DEF WindowInv, PastInv
<1>6. Calm => \A t \in rows : by[t] # None =>
                \E a \in tasks : a.id = by[t] /\ ~a.subject
  BY <1>1 DEF ClaimInv, BackInv, Backed
<1>7. CASE Ours(task) /\ b
  <2>1. /\ rows' = rows \ ClaimedBy(task.id) /\ by' = Release(task.id)
    BY <1>7 DEF Completes, Finalize
  <2>2. \A t \in Turns : by'[t] = IF by[t] = task.id THEN None ELSE by[t]
    BY <2>1 DEF Release
  <2>3. rows' \subseteq rows /\ \A t \in rows' : by'[t] = by[t] /\ by[t] # task.id
    BY <1>2, <2>1, <2>2 DEF ClaimedBy
  <2>4. FreeInv'
    BY <1>2, <2>1, <2>2 DEF ClaimInv, FreeInv, ClaimedBy
  <2>5. BackInv' /\ EndInv'
    BY <1>1, <1>3, <1>6, <2>3 DEF BackInv, Backed, EndInv, Calm
  <2>6. SameInv' /\ FrontInv'
    BY <1>1, <2>3 DEF ClaimInv, SameInv, FrontInv, Calm
  <2> QED BY <1>4, <1>5, <2>4, <2>5, <2>6 DEF ClaimInv
<1>8. CASE Ours(task) /\ ~b
  <2>1. rows' = rows /\ by' = Release(task.id)
    BY <1>8 DEF Completes
  <2>2. \A t \in Turns : by'[t] = IF by[t] = task.id THEN None ELSE by[t]
    BY <2>1 DEF Release
  <2>3. FreeInv'
    BY <1>2, <2>1, <2>2 DEF ClaimInv, FreeInv
  <2>4. BackInv' /\ EndInv'
    BY <1>1, <1>2, <1>3, <1>6, <2>1, <2>2 DEF BackInv, Backed, EndInv, Calm
  <2>5. SameInv' /\ FrontInv'
    <3>1. CASE \A t \in rows : by[t] # task.id
      BY <1>1, <1>2, <2>1, <2>2, <3>1 DEF ClaimInv, SameInv, FrontInv, Calm
    <3>2. CASE \E t \in rows : by[t] = task.id
      <4>1. Calm => \A u \in rows : by[u] = task.id \/ by[u] = None
        BY <1>2, <3>2 DEF ClaimInv, SameInv
      <4>2. Calm => \A u \in rows : by'[u] = None
        BY <1>2, <2>2, <4>1
      <4> QED BY <1>1, <2>1, <4>2 DEF SameInv, FrontInv, Calm
    <3> QED BY <3>1, <3>2
  <2> QED BY <1>4, <1>5, <2>3, <2>4, <2>5 DEF ClaimInv
<1>9. CASE ~Ours(task)
  <2>1. PICK idle \in BOOLEAN, elapsed \in BOOLEAN :
          rows' = rows /\ by' = Claim(Survey(idle, elapsed), minted + 2)
    BY <1>9 DEF Completes
  <2>2. Calm => by' = by /\ task.subject
    <3> SUFFICES ASSUME Calm PROVE by' = by /\ task.subject
      OBVIOUS
    <3>1. Survey(idle, elapsed) = {}
      BY <1>2, SurveyOldest
    <3>2. \A t \in Turns : by'[t] = by[t]
      BY <2>1, <3>1 DEF Claim
    <3>3. by \in [Turns -> Nat] /\ by' \in [Turns -> Nat]
      BY <1>2, <2>1, ClaimTypes DEF TypeOK
    <3>4. task.subject
      BY <1>2, <1>9 DEF Ours, TypeOK
    <3> QED BY <3>2, <3>3, <3>4
  <2>3. FreeInv'
    BY <2>1 DEF ClaimInv, FreeInv, Claim, Complete
  <2>4. BackInv' /\ EndInv' /\ SameInv' /\ FrontInv'
    BY <1>1, <1>3, <1>6, <2>1, <2>2
    DEF ClaimInv, BackInv, Backed, EndInv, SameInv, FrontInv, Calm
  <2> QED BY <1>4, <1>5, <2>3, <2>4 DEF ClaimInv
<1> QED BY <1>7, <1>8, <1>9

\* The pass that ends was the only one, and it left no claim behind.
LEMMA TailClaim ==
  ASSUME FlightInv, OnceInv, ClaimInv, CompletionTail
  PROVE  ClaimInv'
<1>1. /\ loop.at = "tail" /\ loop' = [at |-> loop.then] /\ tasks' = tasks \ {loop.task}
      /\ UNCHANGED <<rows, by, up, mark>>
  BY DEF CompletionTail, lane
<1>2. loop'.at \in {"idle", "dead"} /\ loop.task \in tasks
  BY <1>1, LoopTypes DEF FlightInv, TypeOK
<1>3. KindInv' /\ FreeInv'
  <2>1. "wiped" \notin mark => tasks' = {}
    BY <1>1, <1>2 DEF FlightInv, Tracked
  <2> QED BY <1>1, <2>1 DEF ClaimInv, KindInv, FreeInv
<1>4. EndInv' /\ WindowInv' /\ PastInv'
  BY <1>2 DEF EndInv, WindowInv, PastInv
<1>5. SameInv' /\ FrontInv'
  BY <1>1 DEF ClaimInv, SameInv, FrontInv, Calm
<1>6. BackInv'
  <2> SUFFICES ASSUME Calm, NEW t \in rows, by[t] # None PROVE FALSE
    BY <1>1 DEF BackInv, Calm
  <2>1. PICK a \in tasks : a.id = by[t] /\ ~a.subject
    BY <1>1 DEF ClaimInv, BackInv, Backed
  <2>2. a = loop.task
    BY <1>2, <2>1 DEF FlightInv, Tracked, Calm
  <2> QED BY <1>1, <2>1, <2>2 DEF ClaimInv, EndInv
<1> QED BY <1>3, <1>4, <1>5, <1>6 DEF ClaimInv

\* A frame that raises upsets the passes: what is claimed waits for the next start.
LEMMA RaisesClaim ==
  ASSUME FlightInv, OnceInv, ClaimInv,
         \/ FrameRaises
         \/ \E task \in tasks, b, c \in BOOLEAN : CompletionRaises(task, b, c)
  PROVE  ClaimInv'
<1>1. rows' = rows /\ ~Calm' /\ FreeInv'
  <2>1. CASE FrameRaises
    BY <2>1 DEF FrameRaises, lane, Calm, ClaimInv, FreeInv, Claim, Complete
  <2>2. ASSUME NEW task \in tasks, NEW b \in BOOLEAN, NEW c \in BOOLEAN,
               CompletionRaises(task, b, c)
        PROVE  rows' = rows /\ ~Calm' /\ FreeInv'
    BY <2>2 DEF CompletionRaises, Calm, ClaimInv, FreeInv, Release
  <2> QED BY <2>1, <2>2
<1>2. KindInv'
  <2>1. CASE FrameRaises
    BY <2>1 DEF FrameRaises, lane, ClaimInv, KindInv
  <2>2. ASSUME NEW task \in tasks, NEW b \in BOOLEAN, NEW c \in BOOLEAN,
               CompletionRaises(task, b, c)
        PROVE  KindInv'
    <3>1. "wiped" \notin mark' => tasks' = {}
      BY <2>2 DEF CompletionRaises, FlightInv, Tracked
    <3> QED BY <3>1 DEF KindInv
  <2> QED BY <2>1, <2>2
<1>3. PastInv'
  <2>1. loop'.at # "claim"
    <3>1. CASE FrameRaises
      BY <3>1 DEF FrameRaises
    <3>2. CASE Free /\ loop' = loop
      BY <3>2 DEF Free
    <3> QED BY <3>1, <3>2 DEF CompletionRaises
  <2> QED BY <2>1 DEF PastInv
<1> QED BY <1>1, <1>2, <1>3 DEF ClaimInv, BackInv, EndInv, WindowInv, SameInv, FrontInv

\* Starts release every claim; while the adapter is down none is spoken of.
LEMMA RestartsClaim ==
  ASSUME FlightInv, OnceInv, ClaimInv, Connect \/ Reconnect \/ Disconnect \/ Crash
  PROVE  ClaimInv'
<1>0. rows \subseteq Turns
  BY DEF OnceInv, TypeOK
<1>1. CASE Connect
  <2>1. loop' = Idle /\ KindInv'
    BY <1>1 DEF Connect, lane, FlightInv, Stopped, KindInv
  <2>2. (\A t \in Turns : by'[t] = None) /\ rows' = rows
    BY <1>1 DEF Connect, ReleaseAll, lane
  <2> QED BY <1>0, <2>1, <2>2, NoClaims DEF FreeInv
<1>2. CASE Reconnect
  <2>1. loop' = Idle /\ KindInv'
    BY <1>2 DEF Reconnect, lane, ClaimInv, KindInv
  <2>2. (\A t \in Turns : by'[t] = None) /\ rows' = rows
    BY <1>2 DEF Reconnect, ReleaseAll, lane
  <2> QED BY <1>0, <2>1, <2>2, NoClaims DEF FreeInv
<1>3. CASE Disconnect \/ Crash
  <2>1. loop' = Idle /\ ~Calm' /\ tasks' = {} /\ UNCHANGED <<rows, by>>
    BY <1>3 DEF Disconnect, Crash, lane, Calm
  <2>2. KindInv' /\ FreeInv'
    BY <2>1 DEF KindInv, ClaimInv, FreeInv
  <2> QED BY <2>1, <2>2, NoClaims
<1> QED BY <1>1, <1>2, <1>3

\* A turn that begins is younger than what is being surveyed.
LEMMA PastKept ==
  ASSUME OnceInv, ClaimInv, loop' = loop,
         \/ UNCHANGED <<turn, turns>>
         \/ UNCHANGED turns /\ turn' = NoTurn
         \/ turns' = turns + 1 /\ turn'.id = turns'
  PROVE  PastInv'
<1>1. loop.at = "claim" => loop.window \in SUBSET Turns
  BY LoopTypes DEF OnceInv
<1>2. \A t \in Turns : t \in Nat /\ t # 0
  BY NoticingAssumption DEF Turns
<1>3. turns \in Nat
  BY NoticingAssumption DEF OnceInv, TypeOK
<1> QED BY <1>1, <1>2, <1>3 DEF ClaimInv, PastInv, NoTurn, None

LEMMA StepClaims == FlightInv /\ OnceInv /\ ClaimInv /\ [Next]_vars => ClaimInv'
<1> SUFFICES ASSUME FlightInv, OnceInv, ClaimInv, [Next]_vars PROVE ClaimInv'
  OBVIOUS
<1>1. ASSUME NEW b \in BOOLEAN, NEW c \in BOOLEAN, TurnStarts(b, c) PROVE ClaimInv'
  <2>1. PastInv'
    BY <1>1, PastKept DEF TurnStarts
  <2> QED BY <1>1, <2>1, SameClaims DEF TurnStarts, Calm
<1>2. CASE TurnLost \/ SlotAges
  <2>1. PastInv'
    BY <1>2, PastKept DEF TurnLost, SlotAges
  <2> QED BY <1>2, <2>1, SameClaims DEF TurnLost, SlotAges, Calm
<1>3. CASE Wipe \/ NewDay
  <2>1. PastInv'
    BY <1>3, PastKept DEF Wipe, NewDay, lane
  <2>2. Calm' => Calm
    BY <1>3 DEF Wipe, NewDay, Calm
  <2> QED BY <1>3, <2>1, <2>2, SameClaims DEF Wipe, NewDay, lane
<1>4. CASE UNCHANGED vars
  <2>1. PastInv'
    BY <1>4, PastKept DEF vars
  <2> QED BY <1>4, <2>1, SameClaims DEF vars, Calm
<1>5. ASSUME NEW task \in tasks, NEW b \in BOOLEAN, NEW c \in BOOLEAN,
             CompletionRaises(task, b, c)
      PROVE  ClaimInv'
  BY <1>5, RaisesClaim
<1> QED
  BY <1>1, <1>2, <1>3, <1>4, <1>5, TurnEndsClaim, HeartbeatClaim, FrameClaimsClaim,
     LaunchClaim, CompletesClaim, TailClaim, RaisesClaim, RestartsClaim
  DEF Next, LoopGoesOn

\* No claim is left behind: while the adapter is connected and no frame has
\* raised, a claimed row has its pass in flight or about to be launched.
THEOREM NoneLeftBehind == Spec => []ClaimBacked
<1>1. ClaimInv => ClaimBacked
  BY DEF ClaimInv, BackInv, Backed, Calm, ClaimBacked
<1>2. FlightInv /\ OnceInv /\ ClaimInv /\ [Next]_vars => ClaimInv'
  BY StepClaims
<1> QED
  BY <1>1, <1>2, InitFlight, StepFlight, InitOnce, StepOnce, InitClaim, PTL DEF Spec

\* What a completion notices is older than whatever stays in the buffer.
NoticedInOrder ==
  mark = {} => \A t \in Turns : noticed'[t] > noticed[t] => \A u \in rows' : u > t

LEMMA StepOrder == FlightInv /\ OnceInv /\ ClaimInv /\ [Next]_vars => NoticedInOrder
<1> SUFFICES ASSUME FlightInv, OnceInv, ClaimInv, [Next]_vars, mark = {},
                    NEW t \in Turns, noticed'[t] > noticed[t]
             PROVE  \A u \in rows' : u > t
  BY DEF NoticedInOrder
<1>0. noticed[t] \in Nat /\ rows \subseteq Turns
  BY DEF OnceInv, TypeOK
<1>1. noticed' # noticed
  BY <1>0
<1>2. PICK task \in tasks, b \in BOOLEAN : Completes(task, b)
  BY <1>1
  DEF Next, vars, TurnStarts, TurnEnds, TurnLost, SlotAges, Heartbeat, FrameRaises,
      LoopGoesOn, FrameClaims, Launch, CompletionTail, CompletionRaises, Connect,
      Reconnect, Disconnect, Crash, Wipe, NewDay
<1>3. up /\ Finalize(task.id)
  BY <1>1, <1>2 DEF Completes
<1>4. task.id # None
  BY DEF FlightInv, TypeOK, Tasks, None
<1>5. t \in rows /\ by[t] = task.id
  <2>1. noticed'[t] = noticed[t] + IF t \in ClaimedBy(task.id) THEN 1 ELSE 0
    BY <1>3 DEF Finalize
  <2>2. t \in ClaimedBy(task.id)
    BY <1>0, <2>1
  <2> QED BY <2>2 DEF ClaimedBy
<1>6. ASSUME NEW u \in rows' PROVE u > t
  <2>1. u \in rows /\ by[u] # task.id
    BY <1>3 DEF Finalize, ClaimedBy
  <2>2. by[u] = None
    BY <1>3, <1>4, <1>5, <2>1 DEF ClaimInv, SameInv, Calm
  <2> QED BY <1>3, <1>4, <1>5, <2>1, <2>2 DEF ClaimInv, FrontInv, Calm
<1> QED BY <1>6

\* The conversation is noticed in order, for any cap, window and number of
\* turns: a survey leaves no older turn in the buffer.
THEOREM NoticedInTurn == Spec => InOrder
<1>1. FlightInv /\ OnceInv /\ ClaimInv /\ [Next]_vars => ClaimInv'
  BY StepClaims
<1>2. FlightInv /\ OnceInv /\ ClaimInv /\ [Next]_vars
        => [mark = {} => \A t \in Turns : noticed'[t] > noticed[t] =>
                           \A u \in rows' : u > t]_vars
  BY StepOrder DEF NoticedInOrder
<1> QED
  BY <1>1, <1>2, InitFlight, StepFlight, InitOnce, StepOnce, InitClaim, PTL
  DEF Spec, InOrder
=============================================================================
