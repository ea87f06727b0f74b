-------------------------- MODULE ContactLaneProofs --------------------------
(***************************************************************************)
(* ContactLane for every energy scale, every set of costs and every number *)
(* of launches: its types, with them the energy bounds, the lockstep of    *)
(* the held desire and intention, the one greeting of a newborn, and, when *)
(* own turns are not slow, the one longing and each verdict to its own     *)
(* attempt.                                                                *)
(***************************************************************************)
EXTENDS ContactLane, SequenceTheorems, TLAPS

USE CapAssumption, CostsAssumption, MaxLaunchesAssumption, SwitchesAssumption

\* What the loop holds between a frame and its dispatch.  The desire it wants
\* to dispatch is still active with its intention, or a read-back has resolved
\* both; the cached energy leaves room for the refund.
DispatchInv ==
  loop.at = "dispatch" =>
    /\ loop.row.energy + loop.cost <= Cap
    /\ \/ desire.state = "active" /\ intention = "active" /\ db.pending # NoCorr
       \/ desire.state = "none" /\ intention = "none"

\* A completion's tail brings back no pending launch for a parked desire.
TailInv ==
  loop.at = "tail" /\ desire.state = "deferred" => loop.row.pending = NoCorr

LaneInv == TypeOK /\ HeldTogether /\ DispatchInv /\ TailInv

LEMMA InitLane == Init => LaneInv
<1> SUFFICES ASSUME Init PROVE LaneInv
  OBVIOUS
<1>1. TypeOK
  BY DEF Init, TypeOK, Corrs, Rows, Desires, Loops, Answers, NoCorr
<1>2. HeldTogether /\ DispatchInv /\ TailInv
  BY DEF Init, Quiet, Idle, HeldTogether, DispatchInv, TailInv
<1> QED BY <1>1, <1>2 DEF LaneInv

\* The rows with correlation ids up to a bound; Rows is RowsUpTo(launched).
RowsUpTo(n) == [pending : 0 .. n, replied : BOOLEAN, energy : 0 .. Cap,
                unanswered : Nat, heard : BOOLEAN, spoke : BOOLEAN,
                born : BOOLEAN]

LEMMA RowsUpToLaunched == Rows = RowsUpTo(launched) /\ Rows' = RowsUpTo(launched')
BY DEF Rows, RowsUpTo, Corrs

\* More launches leave a row a row.
LEMMA RowsGrow ==
  ASSUME NEW m \in Nat, NEW n \in Nat, m <= n, NEW r \in RowsUpTo(m)
  PROVE  r \in RowsUpTo(n)
<1>1. r.pending \in 0 .. n
  BY DEF RowsUpTo
<1> QED BY <1>1 DEF RowsUpTo

\* A patch of the pending launch and the energy.
LEMMA RowPatched ==
  ASSUME NEW n \in Nat, NEW r \in RowsUpTo(n), NEW e \in 0 .. Cap,
         NEW p \in 0 .. n
  PROVE  /\ [r EXCEPT !.pending = p, !.replied = FALSE, !.energy = e]
              \in RowsUpTo(n)
         /\ [r EXCEPT !.energy = e] \in RowsUpTo(n)
BY ZenonT(30) DEF RowsUpTo

\* A said reach: the anchor is cleared, the greeting and the count recorded.
LEMMA RowSaid ==
  ASSUME NEW n \in Nat, NEW r \in RowsUpTo(n), NEW k \in Nat
  PROVE  [r EXCEPT !.pending = 0, !.spoke = TRUE, !.unanswered = @ + k]
           \in RowsUpTo(n)
<1>0. 0 \in 0 .. n
  OBVIOUS
<1>1. r.unanswered + k \in Nat
  BY DEF RowsUpTo
<1> QED BY <1>0, <1>1, ZenonT(30) DEF RowsUpTo

Verdicts == {"none", "sent", "silent"}

\* What a frame that brings no verdict is called with.
LEMMA NoVerdict == "none" \in Verdicts /\ FALSE \in BOOLEAN /\ TRUE \in BOOLEAN
BY DEF Verdicts

\* Aggregation patches a row to a row, and leaves its energy alone.
LEMMA Aggregated ==
  ASSUME TypeOK, NEW contact \in BOOLEAN, NEW verdict, NEW target
  PROVE  LET row == Aggregate(contact, verdict, target)
         IN  /\ row \in Rows /\ row.energy = db.energy
             /\ row.pending \in {db.pending, NoCorr}
<1> DEFINE row == Aggregate(contact, verdict, target)
<1> SUFFICES /\ row \in Rows /\ row.energy = db.energy
             /\ row.pending \in {db.pending, NoCorr}
  OBVIOUS
<1>1. db \in Rows /\ NoCorr \in Corrs
  BY DEF TypeOK, Corrs, NoCorr
<1>2. CASE contact
  BY <1>1, <1>2 DEF Rows, Aggregate
<1>3. CASE ~contact /\ target = "stays"
  BY <1>1, <1>3 DEF Rows, Aggregate
<1>4. CASE ~contact /\ target # "stays" /\ verdict = "sent"
  <2> DEFINE more == IF desire.spring = "drive" THEN 1 ELSE 0
  <2>1. row = [db EXCEPT !.pending = NoCorr, !.spoke = TRUE,
                         !.unanswered = @ + more]
    BY <1>4 DEF Aggregate
  <2>2. more \in Nat
    OBVIOUS
  <2>3. launched \in Nat /\ db \in RowsUpTo(launched)
    BY <1>1, RowsUpToLaunched DEF TypeOK
  <2> HIDE DEF more, row
  <2>4. row \in RowsUpTo(launched)
    BY <2>1, <2>2, <2>3, RowSaid DEF NoCorr
  <2>5. row.energy = db.energy /\ row.pending = NoCorr
    BY <2>1, <1>1 DEF Rows
  <2> QED BY <2>4, <2>5, RowsUpToLaunched
<1>5. CASE ~contact /\ target # "stays" /\ verdict # "sent"
  BY <1>1, <1>5 DEF Rows, Aggregate
<1> QED BY <1>2, <1>3, <1>4, <1>5

\* What one frame does to the row, the desire and the intention.
LEMMA FrameKeeps ==
  ASSUME TypeOK, HeldTogether,
         NEW contact \in BOOLEAN, NEW seen \in Corrs, NEW verdict \in Verdicts,
         NEW late \in BOOLEAN, NEW urge \in BOOLEAN, NEW cost \in Costs,
         NEW gain \in {0, 1},
         Frame(contact, seen, verdict, late, urge, cost, gain)
  PROVE  /\ launched' \in Nat /\ launched <= launched'
         /\ db' \in RowsUpTo(launched')
         /\ desire' \in Desires
         /\ intention' \in {"none", "active", "deferred"}
         /\ HeldTogether'
         /\ Launches(cost) =>
              /\ launched' = launched + 1
              /\ db'.energy + cost <= Cap
              /\ db'.pending # NoCorr
<1> DEFINE target == Target(contact, seen, verdict, late)
           row == Aggregate(contact, verdict, target)
<1>1. target \in {"stays", "satisfied", "dropped"}
  BY DEF Target
<1>2. /\ row \in Rows /\ row.energy = db.energy
      /\ row.pending \in {db.pending, NoCorr}
  BY Aggregated
<1>4. launched' \in Nat /\ launched <= launched'
      /\ (Launches(cost) => launched' = launched + 1)
  BY DEF Frame, TypeOK
<1>5. cost \in Nat \ {0} /\ Cap \in Nat /\ db.energy \in 0 .. Cap
  BY DEF TypeOK, Rows
<1>6. CASE Launches(cost)
  <2>1. db' = [row EXCEPT !.pending = launched + 1, !.replied = FALSE,
                          !.energy = db.energy - cost]
    BY <1>6 DEF Frame, FrameRow
  <2>2. cost <= db.energy /\ desire.state = "active"
    BY <1>6 DEF Launches
  <2>3. launched' = launched + 1 /\ launched \in Nat
    BY <1>6, <1>4 DEF TypeOK
  <2>4. db.energy - cost \in 0 .. Cap
    BY <2>2, <1>5
  <2> HIDE DEF row, target
  <2>5. db' \in RowsUpTo(launched')
    <3>1. row \in RowsUpTo(launched')
      BY <1>2, <2>3, RowsUpToLaunched, RowsGrow
    <3>2. launched + 1 \in 0 .. launched' /\ launched' \in Nat
      BY <2>3
    <3>3. [row EXCEPT !.pending = launched + 1, !.replied = FALSE,
                      !.energy = db.energy - cost] \in RowsUpTo(launched')
      BY <2>4, <3>1, <3>2, RowPatched, Zenon
    <3> QED BY <2>1, <3>3, Zenon
  <2>6. db'.energy = db.energy - cost /\ db'.pending = launched + 1
    BY <2>1, <1>2 DEF Rows
  <2>7. intention' = "active" /\ desire' \in {desire, Quiet}
    BY <1>6, <2>2 DEF Frame, Wakes, target, row
  <2>8. HeldTogether'
    BY <2>7, <2>2 DEF HeldTogether, Quiet
  <2>9. db'.energy + cost <= Cap /\ db'.pending # NoCorr
    BY <2>6, <2>3, <1>5 DEF NoCorr
  <2>10. desire' \in Desires /\ intention' \in {"none", "active", "deferred"}
    BY <2>7 DEF TypeOK, Desires
  <2> QED BY <2>3, <2>5, <2>8, <2>9, <2>10
<1>7. CASE ~Launches(cost)
  <2>1. db' = [row EXCEPT !.energy = Least(Cap, @ + gain)]
    BY <1>7 DEF Frame, FrameRow
  <2>2. Least(Cap, db.energy + gain) \in 0 .. Cap
    BY <1>5 DEF Least
  <2> HIDE DEF row, target
  <2>3. db' \in RowsUpTo(launched')
    <3>1. row \in RowsUpTo(launched') /\ launched' \in Nat
      BY <1>2, <1>4, RowsUpToLaunched, RowsGrow DEF TypeOK
    <3>2. db' = [row EXCEPT !.energy = Least(Cap, db.energy + gain)]
      BY <2>1, <1>2 
    <3>3. 0 \in 0 .. launched'
      BY <3>1
    <3>4. [row EXCEPT !.energy = Least(Cap, db.energy + gain)]
            \in RowsUpTo(launched')
      BY <2>2, <3>1, <3>3, RowPatched, Zenon
    <3> QED BY <3>2, <3>4, Zenon
  <2>4. db'.pending \in {db.pending, NoCorr}
    BY <2>1, <1>2 DEF Rows
  <2>5. \/ target # "stays" /\ desire' = Quiet /\ intention' = "none"
        \/ /\ target = "stays" /\ intention' = intention
           /\ desire' = desire
        \/ /\ target = "stays" /\ intention' = intention
           /\ desire.state = "none"
           /\ desire' \in [state : {"active"}, spring : Springs]
    BY <1>1, <1>7 DEF Frame, Wakes, Springs, target, row
  <2>6. desire' \in Desires /\ intention' \in {"none", "active", "deferred"}
    BY <2>5 DEF TypeOK, Desires
  <2>7. HeldTogether'
    BY <2>4, <2>5 DEF HeldTogether, Quiet
  <2> QED BY <2>3, <2>6, <2>7, <1>4, <1>7
<1> QED BY <1>6, <1>7

-----------------------------------------------------------------------------
(* The values that carry correlation ids grow with the launches. *)

Turns == [corr : Corrs, spring : Springs, voided : BOOLEAN]

LEMMA CorrsGrow ==
  ASSUME launched \in Nat, launched' \in Nat, launched <= launched'
  PROVE  Corrs \subseteq Corrs'
BY DEF Corrs

LEMMA RowsGrowToo ==
  ASSUME launched \in Nat, launched' \in Nat, launched <= launched'
  PROVE  Rows \subseteq Rows'
BY CorrsGrow DEF Rows

LEMMA TurnsGrow ==
  ASSUME launched \in Nat, launched' \in Nat, launched <= launched',
         NEW s \in Seq(Turns)
  PROVE  s \in Seq(Turns')
<1>1. Turns \subseteq Turns'
  BY CorrsGrow DEF Turns, Springs
<1> QED BY <1>1, SeqMonotonic

LEMMA AnswersGrow ==
  ASSUME launched \in Nat, launched' \in Nat, launched <= launched'
  PROVE  Answers \subseteq Answers'
BY CorrsGrow DEF Answers

LEMMA LoopsGrow ==
  ASSUME launched \in Nat, launched' \in Nat, launched <= launched'
  PROVE  Loops \subseteq Loops'
BY CorrsGrow, RowsGrowToo DEF Loops, Springs

\* TypeOK, with the set of turns named.
LEMMA TypeParts ==
  /\ TypeOK <=> /\ launched \in Nat /\ db \in Rows /\ desire \in Desires
                /\ intention \in {"none", "active", "deferred"}
                /\ loop \in Loops /\ turns \in Seq(Turns)
                /\ answer \in Answers /\ bids \in Nat /\ greets \in Nat
  /\ TypeOK' <=> /\ launched' \in Nat /\ db' \in Rows' /\ desire' \in Desires'
                 /\ intention' \in {"none", "active", "deferred"}
                 /\ loop' \in Loops' /\ turns' \in Seq(Turns')
                 /\ answer' \in Answers' /\ bids' \in Nat /\ greets' \in Nat
BY DEF TypeOK, Turns

LEMMA DesiresFixed == Desires' = Desires
BY DEF Desires, Quiet, Springs

\* A frame leaves the turns, the answer and what the loop holds well-typed.
LEMMA FrameTypes ==
  ASSUME TypeOK, launched' \in Nat, launched <= launched',
         db' \in RowsUpTo(launched'), desire' \in Desires,
         intention' \in {"none", "active", "deferred"}
  PROVE  /\ launched' \in Nat /\ db' \in Rows' /\ desire' \in Desires'
         /\ intention' \in {"none", "active", "deferred"}
         /\ Loops \subseteq Loops' /\ Answers \subseteq Answers'
         /\ turns \in Seq(Turns')
BY TypeParts, DesiresFixed, RowsUpToLaunched, TurnsGrow, AnswersGrow, LoopsGrow

\* The rows of the loop, the turns and the answers are well-typed when the
\* launches stay as they are.
LEMMA SameSets ==
  ASSUME launched' = launched
  PROVE  /\ Rows' = Rows /\ Loops' = Loops /\ Turns' = Turns
         /\ Answers' = Answers /\ Desires' = Desires /\ Corrs' = Corrs
BY DesiresFixed DEF Rows, Loops, Turns, Answers, Corrs, Springs

\* The loop's three shapes.
LEMMA LoopShapes ==
  ASSUME loop \in Loops
  PROVE  /\ loop.at = "dispatch" =>
              /\ loop.row \in Rows /\ loop.cost \in Costs
              /\ loop.corr \in Corrs /\ loop.spring \in Springs
              /\ loop.kind \in {"beat", "completion"}
         /\ loop.at = "tail" => loop.row \in Rows
BY DEF Loops, Idle

-----------------------------------------------------------------------------
(* One lemma per action: a step keeps the invariant. *)

LEMMA LoopFrameKeeps ==
  ASSUME LaneInv, NEW kind \in {"beat", "completion"}, LoopFrame(kind)
  PROVE  LaneInv'
<1>1. PICK urge \in BOOLEAN, cost \in Costs, gain \in {0, 1} :
        /\ Frame(FALSE, NoCorr, "none", FALSE, urge, cost, gain)
        /\ loop' = IF Launches(cost)
                     THEN [at |-> "dispatch", kind |-> kind, row |-> db',
                           corr |-> launched', cost |-> cost,
                           spring |-> desire.spring]
                   ELSE IF kind = "completion"
                     THEN [at |-> "tail", row |-> db']
                   ELSE Idle
  BY DEF LoopFrame
<1>2. TypeOK /\ HeldTogether /\ NoCorr \in Corrs
  BY DEF LaneInv, TypeOK, Corrs, NoCorr
<1>3. /\ launched' \in Nat /\ launched <= launched'
      /\ db' \in RowsUpTo(launched')
      /\ desire' \in Desires
      /\ intention' \in {"none", "active", "deferred"}
      /\ HeldTogether'
      /\ Launches(cost) => /\ launched' = launched + 1
                           /\ db'.energy + cost <= Cap
                           /\ db'.pending # NoCorr
  BY <1>1, <1>2, NoVerdict, FrameKeeps, ZenonT(60)
<1>4. /\ db' \in Rows' /\ desire' \in Desires'
      /\ Answers \subseteq Answers' /\ turns \in Seq(Turns')
  BY <1>2, <1>3, FrameTypes
<1>5. UNCHANGED <<turns, answer, bids, greets>>
  BY DEF LoopFrame
<1>6. Launches(cost) =>
        /\ desire' = desire /\ desire.state = "active" /\ intention' = "active"
  BY <1>1 DEF Frame, Launches, Target, Wakes
<1>7. loop' \in Loops'
  <2>1. CASE Launches(cost)
    <3>1. desire.spring \in Springs
      BY <1>2, <1>6, <2>1 DEF TypeOK, Desires, Quiet
    <3>2. launched' \in Corrs'
      BY <1>3 DEF Corrs
    <3> QED BY <1>1, <1>4, <2>1, <3>1, <3>2 DEF Loops, Springs
  <2>2. CASE ~Launches(cost)
    BY <1>1, <1>4, <2>2 DEF Loops
  <2> QED BY <2>1, <2>2
<1>8. TypeOK'
  BY <1>2, <1>3, <1>4, <1>5, <1>7, TypeParts
<1>9. DispatchInv'
  <2>1. CASE Launches(cost)
    BY <1>1, <1>3, <1>6, <2>1 DEF DispatchInv
  <2>2. CASE ~Launches(cost)
    BY <1>1, <2>2 DEF DispatchInv, Idle
  <2> QED BY <2>1, <2>2
<1>10. TailInv'
  <2>1. CASE Launches(cost)
    BY <1>1, <2>1 DEF TailInv
  <2>2. CASE ~Launches(cost)
    BY <1>1, <1>3, <2>2 DEF TailInv, HeldTogether, Idle
  <2> QED BY <2>1, <2>2
<1> QED BY <1>3, <1>8, <1>9, <1>10 DEF LaneInv

LEMMA InboundKeeps == ASSUME LaneInv, Inbound PROVE LaneInv'
<1>1. PICK cost \in Costs, gain \in {0, 1} :
        Frame(TRUE, NoCorr, "none", FALSE, FALSE, cost, gain)
  BY DEF Inbound
<1>2. TypeOK /\ HeldTogether /\ NoCorr \in Corrs /\ loop = Idle
  <2>1. loop = Idle
    BY DEF Inbound, LaneInv, TypeOK, Loops, Idle
  <2> QED BY <2>1 DEF LaneInv, TypeOK, Corrs, NoCorr
<1>3. /\ launched' \in Nat /\ launched <= launched'
      /\ db' \in RowsUpTo(launched')
      /\ desire' \in Desires
      /\ intention' \in {"none", "active", "deferred"}
      /\ HeldTogether'
  BY <1>1, <1>2, NoVerdict, FrameKeeps, ZenonT(60)
<1>4. /\ db' \in Rows' /\ desire' \in Desires'
      /\ Answers \subseteq Answers' /\ Loops \subseteq Loops'
      /\ turns \in Seq(Turns')
  BY <1>2, <1>3, FrameTypes
<1>5. turns' \in Seq(Turns')
  <2>1. /\ Len(turns) \in Nat /\ DOMAIN turns = 1 .. Len(turns)
        /\ \A i \in 1 .. Len(turns) : turns[i] \in Turns'
    BY <1>4, LenProperties, ElementOfSeq
  <2>2. \A i \in 1 .. Len(turns) : [turns[i] EXCEPT !.voided = TRUE] \in Turns'
    BY <2>1 DEF Turns
  <2>3. turns' = [i \in 1 .. Len(turns) |-> [turns[i] EXCEPT !.voided = TRUE]]
    BY <2>1 DEF Inbound
  <2> QED BY <2>1, <2>2, <2>3
<1>6. answer' \in Answers'
  <2>1. answer \in Answers'
    BY <1>2, <1>4, TypeParts
  <2>2. CASE answer = NoAnswer
    BY <2>1, <2>2 DEF Inbound
  <2>3. CASE answer # NoAnswer
    BY <2>1, <2>3 DEF Inbound, Answers
  <2> QED BY <2>2, <2>3
<1>7. loop' = Idle /\ bids' = 0 /\ greets' = greets
  BY <1>2 DEF Inbound
<1>8. TypeOK'
  BY <1>2, <1>3, <1>4, <1>5, <1>6, <1>7, TypeParts DEF Loops
<1>9. DispatchInv' /\ TailInv'
  BY <1>7 DEF DispatchInv, TailInv, Idle
<1> QED BY <1>3, <1>8, <1>9 DEF LaneInv

LEMMA RepeatedInboundKeeps == ASSUME LaneInv, RepeatedInbound PROVE LaneInv'
<1>1. PICK urge \in BOOLEAN, cost \in Costs, gain \in {0, 1} :
        Frame(FALSE, NoCorr, "none", FALSE, urge, cost, gain)
  BY DEF RepeatedInbound
<1>2. TypeOK /\ HeldTogether /\ NoCorr \in Corrs /\ loop = Idle
  <2>1. loop = Idle
    BY DEF RepeatedInbound, LaneInv, TypeOK, Loops, Idle
  <2> QED BY <2>1 DEF LaneInv, TypeOK, Corrs, NoCorr
<1>3. /\ launched' \in Nat /\ launched <= launched'
      /\ db' \in RowsUpTo(launched')
      /\ desire' \in Desires
      /\ intention' \in {"none", "active", "deferred"}
      /\ HeldTogether'
  BY <1>1, <1>2, NoVerdict, FrameKeeps, ZenonT(60)
<1>4. UNCHANGED <<loop, turns, answer, bids, greets>>
  BY DEF RepeatedInbound
<1>5. TypeOK'
  BY <1>2, <1>3, <1>4, FrameTypes, TypeParts
<1>6. DispatchInv' /\ TailInv'
  BY <1>2, <1>4 DEF DispatchInv, TailInv, Idle
<1> QED BY <1>3, <1>5, <1>6 DEF LaneInv

\* The verdict's frame may run while the loop dispatches: it launches nothing
\* then, and resolves the desire together with its intention or leaves both.
LEMMA ReadBackKeeps == ASSUME LaneInv, ReadBack PROVE LaneInv'
<1>1. PICK late \in BOOLEAN, cost \in Costs, gain \in {0, 1} :
        Frame(FALSE, answer.seen, answer.verdict, late, FALSE, cost, gain)
  BY DEF ReadBack
<1>2. /\ TypeOK /\ HeldTogether /\ DispatchInv /\ TailInv
      /\ answer.seen \in Corrs /\ answer.verdict \in {"sent", "silent"}
  <2>1. answer \in Answers /\ answer # NoAnswer
    BY DEF LaneInv, TypeOK, ReadBack
  <2> QED BY <2>1 DEF LaneInv, Answers
<1>3. /\ launched' \in Nat /\ launched <= launched'
      /\ db' \in RowsUpTo(launched')
      /\ desire' \in Desires
      /\ intention' \in {"none", "active", "deferred"}
      /\ HeldTogether'
  <2>1. FALSE \in BOOLEAN /\ answer.verdict \in Verdicts
    BY <1>2 DEF Verdicts
  <2>2. PICK seen \in Corrs, verdict \in Verdicts :
          Frame(FALSE, seen, verdict, late, FALSE, cost, gain)
    BY <1>1, <1>2, <2>1
  <2>3. TypeOK /\ HeldTogether
    BY <1>2
  <2>4. FALSE \in BOOLEAN
    OBVIOUS
  <2> QED BY <2>2, <2>3, <2>4, FrameKeeps, ZenonT(60)
<1>4. answer' = NoAnswer /\ UNCHANGED <<loop, turns, bids, greets>>
  BY DEF ReadBack
<1>5. TypeOK'
  BY <1>2, <1>3, <1>4, FrameTypes, TypeParts DEF Answers
<1> DEFINE target == Target(FALSE, answer.seen, answer.verdict, late)
           row == Aggregate(FALSE, answer.verdict, target)
<1>6. desire' \in {desire, Quiet}
  BY <1>1 DEF Frame, Wakes
<1>7. DispatchInv'
  <2> SUFFICES ASSUME loop.at = "dispatch" PROVE DispatchInv'
    BY <1>4 DEF DispatchInv
  <2>1. CASE desire.state = "none"
    <3>1. target = "stays" /\ ~Launches(cost)
      BY <2>1 DEF Target, Stale, Launches
    <3>2. desire' = desire /\ intention' = intention
      BY <1>1, <3>1 DEF Frame, Wakes
    <3> QED BY <1>2, <1>4, <2>1, <3>2 DEF DispatchInv
  <2>2. CASE desire.state # "none"
    <3>1. desire.state = "active" /\ intention = "active" /\ db.pending # NoCorr
      BY <1>2, <2>2 DEF DispatchInv
    <3>2. ~Launches(cost)
      BY <3>1 DEF Launches
    <3>3. CASE target = "stays"
      <4>1. row = db /\ db \in Rows
        BY <1>2, <3>3 DEF Aggregate, TypeOK
      <4>2. db'.pending = db.pending
        <5>1. db' = [db EXCEPT !.energy = Least(Cap, @ + gain)]
          BY <1>1, <3>2, <4>1 DEF Frame, FrameRow
        <5> QED BY <5>1, <4>1 DEF Rows
      <4>3. desire' = desire /\ intention' = intention
        BY <1>1, <3>2, <3>3 DEF Frame, Wakes
      <4> QED BY <1>2, <1>4, <3>1, <4>2, <4>3 DEF DispatchInv
    <3>4. CASE target # "stays"
      <4>1. desire' = Quiet /\ intention' = "none"
        BY <1>1, <3>2, <3>4 DEF Frame
      <4> QED BY <1>2, <1>4, <4>1 DEF DispatchInv, Quiet
    <3> QED BY <3>3, <3>4
  <2> QED BY <2>1, <2>2
<1>8. TailInv'
  BY <1>2, <1>4, <1>6 DEF TailInv, Quiet
<1> QED BY <1>3, <1>5, <1>7, <1>8 DEF LaneInv

\* Whoever dispatches holds a row whose energy leaves room for the refund.
LEMMA RollbackKeeps ==
  ASSUME LaneInv, NEW defer \in BOOLEAN, loop.at = "dispatch", Rollback(defer)
  PROVE  LaneInv'
<1>1. /\ TypeOK /\ HeldTogether /\ DispatchInv
      /\ loop.row \in Rows /\ loop.cost \in Costs
      /\ loop.row.energy + loop.cost <= Cap
  BY LoopShapes DEF LaneInv, TypeOK, DispatchInv
<1>2. launched' = launched /\ UNCHANGED <<turns, answer, bids, greets>>
  BY DEF Rollback
<1>3. db' = [loop.row EXCEPT !.pending = NoCorr, !.replied = FALSE,
                             !.energy = @ + loop.cost]
  BY DEF Rollback
<1>4. db' \in Rows /\ db'.pending = NoCorr
  <2> DEFINE r == loop.row
             e == loop.row.energy + loop.cost
  <2>1. r \in RowsUpTo(launched) /\ launched \in Nat /\ 0 \in 0 .. launched
    BY <1>1, RowsUpToLaunched DEF TypeOK
  <2>2. e \in 0 .. Cap
    <3>1. loop.row.energy \in 0 .. Cap /\ loop.cost \in Nat /\ Cap \in Nat
      BY <1>1 DEF Rows
    <3> QED BY <1>1, <3>1
  <2>3. db' = [r EXCEPT !.pending = 0, !.replied = FALSE, !.energy = e]
    BY <1>3 DEF NoCorr
  <2>4. r.energy \in 0 .. Cap
    BY <1>1 DEF Rows
  <2> HIDE DEF r, e
  <2>5. [r EXCEPT !.pending = 0, !.replied = FALSE, !.energy = e]
          \in RowsUpTo(launched)
    BY <2>1, <2>2, RowPatched, Zenon
  <2>6. db' \in Rows
    BY <2>3, <2>5, RowsUpToLaunched
  <2>7. db'.pending = 0
    BY <2>1, <2>3 DEF RowsUpTo
  <2> QED BY <2>6, <2>7 DEF NoCorr
<1>5. \/ desire' = desire /\ intention' = intention /\ desire.state # "deferred"
      \/ /\ desire.state = "active" /\ desire' = [desire EXCEPT !.state = "deferred"]
         /\ intention' = "deferred"
  BY <1>1 DEF Rollback, DispatchInv
<1>6. desire' \in Desires /\ intention' \in {"none", "active", "deferred"}
  <2>1. CASE desire' = desire /\ intention' = intention
    BY <1>1, <2>1 DEF TypeOK
  <2>2. CASE /\ desire.state = "active"
             /\ desire' = [desire EXCEPT !.state = "deferred"]
             /\ intention' = "deferred"
    BY <1>1, <2>2 DEF TypeOK, Desires, Quiet
  <2> QED BY <1>5, <2>1, <2>2
<1>7. loop' \in {Idle, [at |-> "tail", row |-> db']}
  BY DEF Rollback, AfterDispatch
<1>8. TypeOK'
  <2>1. loop' \in Loops
    BY <1>4, <1>7 DEF Loops
  <2> QED BY <1>1, <1>2, <1>4, <1>6, <2>1, SameSets, TypeParts
<1>9. HeldTogether'
  <2>1. CASE desire' = desire /\ intention' = intention
             /\ desire.state # "deferred"
    BY <1>1, <2>1 DEF HeldTogether
  <2>2. CASE /\ desire.state = "active"
             /\ desire' = [desire EXCEPT !.state = "deferred"]
             /\ intention' = "deferred"
    <3>1. desire'.state = "deferred"
      BY <1>1, <2>2 DEF TypeOK, Desires, Quiet
    <3> QED BY <1>4, <2>2, <3>1 DEF HeldTogether
  <2> QED BY <1>5, <2>1, <2>2
<1>10. DispatchInv' /\ TailInv'
  BY <1>4, <1>7 DEF DispatchInv, TailInv, Idle
<1> QED BY <1>8, <1>9, <1>10 DEF LaneInv

LEMMA DispatchKeeps == ASSUME LaneInv, Dispatch PROVE LaneInv'
<1>1. CASE BackstopHolds
  BY <1>1, RollbackKeeps DEF BackstopHolds
<1>2. CASE NotDelivered
  BY <1>2, RollbackKeeps DEF NotDelivered
<1>3. CASE Delivered
  <2>1. /\ TypeOK /\ HeldTogether /\ DispatchInv
        /\ loop.row \in Rows /\ loop.corr \in Corrs /\ loop.spring \in Springs
    BY <1>3, LoopShapes DEF LaneInv, TypeOK, Delivered
  <2>2. UNCHANGED <<db, desire, intention, answer, launched, bids, greets>>
    BY <1>3 DEF Delivered
  <2>3. loop' \in {Idle, [at |-> "tail", row |-> loop.row]}
    BY <1>3 DEF Delivered, AfterDispatch
  <2>4. turns' \in Seq(Turns)
    <3>1. [corr |-> loop.corr, spring |-> loop.spring, voided |-> FALSE] \in Turns
      BY <2>1 DEF Turns
    <3>2. turns \in Seq(Turns)
      BY <2>1, TypeParts
    <3> QED BY <1>3, <3>1, <3>2 DEF Delivered
  <2>5. TypeOK'
    <3>1. loop' \in Loops
      BY <2>1, <2>3 DEF Loops
    <3> QED BY <2>1, <2>2, <2>4, <3>1, SameSets, TypeParts
  <2>6. desire.state # "deferred"
    BY <1>3, <2>1 DEF Delivered, DispatchInv
  <2> QED BY <2>1, <2>2, <2>3, <2>5, <2>6
          DEF LaneInv, HeldTogether, DispatchInv, TailInv, Idle
<1> QED BY <1>1, <1>2, <1>3 DEF Dispatch

LEMMA CompletionTailKeeps == ASSUME LaneInv, CompletionTail PROVE LaneInv'
<1>1. /\ TypeOK /\ HeldTogether /\ TailInv
      /\ loop.at = "tail" /\ loop.row \in Rows
  BY LoopShapes DEF LaneInv, TypeOK, CompletionTail
<1>2. /\ db' = loop.row /\ loop' = Idle
      /\ UNCHANGED <<desire, intention, turns, answer, launched, bids, greets>>
  BY DEF CompletionTail
<1>3. TypeOK'
  BY <1>1, <1>2, SameSets, TypeParts DEF Loops
<1>4. HeldTogether' /\ DispatchInv' /\ TailInv'
  BY <1>1, <1>2 DEF HeldTogether, DispatchInv, TailInv, Idle
<1> QED BY <1>3, <1>4 DEF LaneInv

LEMMA TurnEndsKeeps ==
  ASSUME LaneInv, NEW verdict \in {"sent", "silent"}, TurnEnds(verdict)
  PROVE  LaneInv'
<1>1. TypeOK /\ turns \in Seq(Turns) /\ turns # <<>>
  BY TypeParts DEF LaneInv, TurnEnds
<1>2. Head(turns) \in Turns /\ Tail(turns) \in Seq(Turns)
  BY <1>1, HeadTailProperties
<1>3. /\ turns' = Tail(turns)
      /\ UNCHANGED <<db, desire, intention, loop, launched>>
      /\ bids' \in Nat /\ greets' \in Nat
  BY <1>1 DEF TurnEnds, TypeOK
<1>4. answer' \in Answers
  <2>1. db.pending \in Corrs
    BY <1>1 DEF TypeOK, Rows
  <2> QED BY <1>2, <2>1 DEF TurnEnds, Answers, Turns
<1>5. TypeOK'
  BY <1>1, <1>2, <1>3, <1>4, SameSets, TypeParts
<1> QED BY <1>3, <1>5 DEF LaneInv, HeldTogether, DispatchInv, TailInv

LEMMA WriteSoulKeeps == ASSUME LaneInv, WriteSoul PROVE LaneInv'
<1>1. db' = [db EXCEPT !.born = TRUE] /\ db \in Rows
  BY DEF LaneInv, TypeOK, WriteSoul
<1>2. db' \in Rows /\ db'.pending = db.pending
  BY <1>1 DEF Rows
<1>3. UNCHANGED <<desire, intention, loop, turns, answer, launched, bids, greets>>
  BY DEF WriteSoul
<1>4. TypeOK'
  BY <1>2, <1>3, SameSets, TypeParts DEF LaneInv
<1> QED BY <1>2, <1>3, <1>4 DEF LaneInv, HeldTogether, DispatchInv, TailInv

LEMMA TurnLostKeeps == ASSUME LaneInv, TurnLost PROVE LaneInv'
<1>1. turns \in Seq(Turns) /\ turns # <<>> /\ TypeOK
  BY TypeParts DEF LaneInv, TurnLost
<1>2. /\ turns' \in Seq(Turns)
      /\ UNCHANGED <<db, desire, intention, loop, answer, launched, bids, greets>>
  BY <1>1, HeadTailProperties DEF TurnLost
<1>3. TypeOK'
  BY <1>1, <1>2, SameSets, TypeParts
<1> QED BY <1>2, <1>3 DEF LaneInv, HeldTogether, DispatchInv, TailInv

LEMMA CrashKeeps == ASSUME LaneInv, Crash PROVE LaneInv'
<1>1. /\ loop' = Idle /\ turns' = <<>> /\ answer' = NoAnswer
      /\ UNCHANGED <<db, desire, intention, launched, bids, greets>>
  BY DEF Crash
<1>2. TypeOK'
  BY <1>1, SameSets, TypeParts DEF LaneInv, Loops, Answers
<1> QED BY <1>1, <1>2 DEF LaneInv, HeldTogether, DispatchInv, TailInv, Idle

LEMMA StepLane == LaneInv /\ [Next]_vars => LaneInv'
<1> SUFFICES ASSUME LaneInv, [Next]_vars PROVE LaneInv'
  OBVIOUS
<1>1. CASE Heartbeat
  BY <1>1, LoopFrameKeeps DEF Heartbeat
<1>2. CASE Completion
  BY <1>2, LoopFrameKeeps DEF Completion
<1>3. CASE UNCHANGED vars
  <2>1. TypeOK'
    BY <1>3, SameSets, TypeParts DEF vars, LaneInv
  <2> QED BY <1>3, <2>1
          DEF vars, LaneInv, HeldTogether, DispatchInv, TailInv
<1> QED
  BY <1>1, <1>2, <1>3, InboundKeeps, RepeatedInboundKeeps, DispatchKeeps,
     CompletionTailKeeps, TurnEndsKeeps, ReadBackKeeps, WriteSoulKeeps,
     TurnLostKeeps, CrashKeeps
  DEF Next

\* Every variable keeps its type: in particular the energy never leaves
\* 0 .. Cap, whatever a turn costs and however launches, recoveries, rollbacks
\* and a completion's late commit interleave.
THEOREM LaneTypeCorrect == Spec => []TypeOK
<1>1. LaneInv => TypeOK
  BY DEF LaneInv
<1> QED BY InitLane, StepLane, <1>1, PTL DEF Spec

\* The desire and the intention are parked together or not at all, with
\* nothing in flight, whenever a hold interleaves with a verdict, a contact,
\* a lost turn or a restart.
THEOREM LaneHeldTogether == Spec => []HeldTogether
<1>1. LaneInv => HeldTogether
  BY DEF LaneInv
<1> QED BY InitLane, StepLane, <1>1, PTL DEF Spec

-----------------------------------------------------------------------------
(* A newborn greets once. *)

Composing  == turns # <<>> \/ answer # NoAnswer
Genesis(i) == turns[i].spring = "genesis"

\* Nobody forgets that the human was heard, and who was heard is not greeted.
HeardInv ==
  /\ loop.at # "idle" => loop.row.heard = db.heard
  /\ db.heard => /\ desire.spring # "genesis"
                 /\ loop.at = "dispatch" => loop.spring # "genesis"

\* Until then one attempt at a time is under way, and its anchor is set, also
\* in the State that a completion's tail will bring back.
AttemptInv ==
  ~db.heard =>
    /\ Len(turns) <= 1
    /\ turns # <<>> => answer = NoAnswer
    /\ Composing => loop.at # "dispatch" /\ db.pending # NoCorr
    /\ Composing /\ loop.at = "tail" => loop.row.pending # NoCorr
    /\ loop.at = "dispatch" => db.pending # NoCorr /\ loop.row.pending # NoCorr

\* What becomes of a greeting that was said: its verdict is about to be read...
Answered == answer # NoAnswer /\ answer.verdict = "sent"
\* ... or was read, and what a tail would take back leaves the lane anchored...
Spoken ==
  /\ db.spoke /\ desire.spring # "genesis"
  /\ loop.at = "dispatch" => loop.row.spoke /\ loop.spring # "genesis"
  /\ loop.at = "tail" => loop.row.spoke \/ (loop.row.pending # NoCorr /\ ~Composing)
  /\ \A i \in DOMAIN turns : ~Genesis(i)
\* ... or was not, and the lane stays anchored until the human speaks.
Anchored ==
  /\ db.pending # NoCorr /\ ~Composing /\ loop.at # "dispatch"
  /\ loop.at = "tail" => loop.row.pending # NoCorr

SaidInv == ~db.heard /\ greets # 0 => Answered \/ Spoken \/ Anchored

\* At most one greeting is being composed, and none after one was said.
OnceInv ==
  /\ \A i, j \in DOMAIN turns : Genesis(i) /\ Genesis(j) => i = j
  /\ (\E i \in DOMAIN turns : Genesis(i)) => greets = 0

GreetInv == HeardInv /\ AttemptInv /\ SaidInv /\ OnceInv /\ GreetsOnce

LEMMA InitGreets == Init => GreetInv
BY DEF Init, Idle, Quiet, Composing, HeardInv, AttemptInv, SaidInv, OnceInv, GreetsOnce,
       GreetInv

\* What one frame does to the row's memory of a greeting, and to its anchor.
LEMMA FrameGreets ==
  ASSUME TypeOK,
         NEW contact \in BOOLEAN, NEW seen \in Corrs, NEW verdict \in Verdicts,
         NEW late \in BOOLEAN, NEW urge \in BOOLEAN, NEW cost \in Costs,
         NEW gain \in {0, 1},
         Frame(contact, seen, verdict, late, urge, cost, gain)
  PROVE  /\ contact => db'.heard
         /\ ~contact => db'.heard = db.heard
         /\ db.spoke => db'.spoke
         /\ desire'.spring = "genesis" =>
              ~contact /\ (desire.spring = "genesis" \/ (urge /\ ~db.heard /\ ~db.spoke))
         /\ Launches(cost) => db.pending = NoCorr /\ db'.pending # NoCorr
         /\ db.pending # NoCorr /\ db'.pending = NoCorr =>
              \/ contact
              \/ /\ verdict # "none" /\ desire' = Quiet
                 /\ verdict = "sent" => db'.spoke
<1> DEFINE target == Target(contact, seen, verdict, late)
           row == Aggregate(contact, verdict, target)
<1>1. db \in Rows /\ desire \in Desires /\ launched \in Nat
  BY DEF TypeOK
<1>2. /\ contact => row.heard
      /\ ~contact => row.heard = db.heard
      /\ db.spoke => row.spoke
      /\ contact => row.pending = NoCorr
      /\ ~contact /\ target = "stays" => row = db
      /\ ~contact /\ verdict = "sent" /\ target # "stays" => row.spoke
  BY <1>1 DEF Rows, Aggregate
<1>3. /\ db'.heard = row.heard /\ db'.spoke = row.spoke
      /\ ~Launches(cost) => db'.pending = row.pending
      /\ Launches(cost) => db'.pending = launched + 1
  <2>1. db' = FrameRow(row, cost, gain)
    BY DEF Frame
  <2>2. row \in Rows
    BY Aggregated
  <2> HIDE DEF row
  <2> QED BY <2>1, <2>2 DEF FrameRow, Rows
<1>4. target = "stays" \/ desire' = Quiet
  BY DEF Frame
<1>5. target # "stays" => contact \/ verdict # "none"
  BY DEF Target
<1>6. contact => desire'.spring # "genesis"
  <2>1. CASE desire = Quiet
    BY <2>1 DEF Frame, Wakes, Quiet
  <2>2. CASE desire # Quiet
    <3>1. desire.state # "none"
      BY <1>1, <2>2 DEF Desires
    <3> QED BY <3>1 DEF Frame, Target, Quiet
  <2> QED BY <2>1, <2>2
<1>7. desire'.spring = "genesis" =>
        desire.spring = "genesis" \/ (urge /\ ~row.heard /\ ~row.spoke)
  <2>1. desire' = IF target # "stays" THEN Quiet
                  ELSE IF Wakes(row, target, urge)
                    THEN [state |-> "active",
                          spring |-> IF FirstWaking(row) THEN "genesis" ELSE "drive"]
                  ELSE desire
    BY DEF Frame
  <2> HIDE DEF row, target
  <2>2. CASE target # "stays"
    BY <2>1, <2>2 DEF Quiet
  <2>3. CASE target = "stays" /\ Wakes(row, target, urge)
    BY <2>1, <2>3 DEF Wakes, FirstWaking
  <2>4. CASE target = "stays" /\ ~Wakes(row, target, urge)
    BY <2>1, <2>4
  <2> QED BY <2>2, <2>3, <2>4
<1>8. Launches(cost) => db.pending = NoCorr /\ db'.pending # NoCorr
  BY <1>1, <1>3 DEF Launches, NoCorr
<1> HIDE DEF row, target
<1>9. db.pending # NoCorr /\ db'.pending = NoCorr =>
        \/ contact
        \/ /\ verdict # "none" /\ desire' = Quiet
           /\ verdict = "sent" => db'.spoke
  BY <1>2, <1>3, <1>4, <1>5, <1>8
<1> QED BY <1>2, <1>3, <1>6, <1>7, <1>8, <1>9

LEMMA LoopFrameGreets ==
  ASSUME TypeOK, GreetInv, NEW kind \in {"beat", "completion"}, LoopFrame(kind)
  PROVE  GreetInv'
<1>0. NoCorr \in Corrs
  BY DEF TypeOK, Corrs, NoCorr
<1>1. PICK urge \in BOOLEAN, cost \in Costs, gain \in {0, 1} :
        /\ Frame(FALSE, NoCorr, "none", FALSE, urge, cost, gain)
        /\ loop' = IF Launches(cost)
                     THEN [at |-> "dispatch", kind |-> kind, row |-> db',
                           corr |-> launched', cost |-> cost,
                           spring |-> desire.spring]
                   ELSE IF kind = "completion"
                     THEN [at |-> "tail", row |-> db']
                   ELSE Idle
  BY DEF LoopFrame
<1>2. /\ db'.heard = db.heard
      /\ db.spoke => db'.spoke
      /\ desire'.spring = "genesis" =>
           desire.spring = "genesis" \/ (~db.heard /\ ~db.spoke)
      /\ Launches(cost) => db.pending = NoCorr /\ db'.pending # NoCorr
      /\ db.pending # NoCorr => db'.pending # NoCorr
  BY <1>1, <1>0, NoVerdict, FrameGreets, ZenonT(60)
<1>3. loop.at = "idle" /\ UNCHANGED <<turns, answer, bids, greets>>
  BY DEF LoopFrame
<1>4. HeardInv'
  BY <1>1, <1>2, <1>3 DEF GreetInv, HeardInv, Idle
<1>5. AttemptInv'
  BY <1>1, <1>2, <1>3 DEF GreetInv, AttemptInv, Composing, Idle
<1>6. SaidInv'
  BY <1>1, <1>2, <1>3 DEF GreetInv, SaidInv, Answered, Spoken, Anchored, Composing, Genesis,
                          AttemptInv, Idle
<1>7. OnceInv' /\ GreetsOnce'
  BY <1>3 DEF GreetInv, OnceInv, GreetsOnce, Genesis
<1> QED BY <1>4, <1>5, <1>6, <1>7 DEF GreetInv

LEMMA InboundGreets == ASSUME TypeOK, GreetInv, Inbound PROVE GreetInv'
<1>0. NoCorr \in Corrs
  BY DEF TypeOK, Corrs, NoCorr
<1>1. PICK cost \in Costs, gain \in {0, 1} :
        Frame(TRUE, NoCorr, "none", FALSE, FALSE, cost, gain)
  BY DEF Inbound
<1>2. db'.heard /\ desire'.spring # "genesis"
  BY <1>1, <1>0, NoVerdict, FrameGreets, ZenonT(60)
<1>3. /\ loop.at = "idle" /\ UNCHANGED <<loop, greets>>
      /\ turns' = [i \in DOMAIN turns |-> [turns[i] EXCEPT !.voided = TRUE]]
  BY DEF Inbound
<1>4. \A i \in DOMAIN turns : turns[i] \in Turns
  <2>1. turns \in Seq(Turns)
    BY TypeParts
  <2> QED BY <2>1
<1>5. /\ DOMAIN turns' = DOMAIN turns
      /\ \A i \in DOMAIN turns : (Genesis(i))' <=> Genesis(i)
  BY <1>3, <1>4 DEF Turns, Genesis
<1>6. OnceInv'
  BY <1>3, <1>5 DEF GreetInv, OnceInv
<1> QED BY <1>2, <1>3, <1>6 DEF GreetInv, HeardInv, AttemptInv, SaidInv, GreetsOnce

LEMMA RepeatedInboundGreets ==
  ASSUME TypeOK, GreetInv, RepeatedInbound PROVE GreetInv'
<1>0. NoCorr \in Corrs
  BY DEF TypeOK, Corrs, NoCorr
<1>1. PICK urge \in BOOLEAN, cost \in Costs, gain \in {0, 1} :
        Frame(FALSE, NoCorr, "none", FALSE, urge, cost, gain)
  BY DEF RepeatedInbound
<1>2. db'.heard /\ desire'.spring # "genesis"
  <2>1. db.heard /\ desire.spring # "genesis"
    BY DEF RepeatedInbound, GreetInv, HeardInv
  <2>2. db'.heard = db.heard /\ (desire'.spring = "genesis" =>
          desire.spring = "genesis" \/ (~db.heard /\ ~db.spoke))
    BY <1>1, <1>0, NoVerdict, FrameGreets, ZenonT(60)
  <2> QED BY <2>1, <2>2
<1>3. db.heard /\ loop.at = "idle" /\ UNCHANGED <<loop, turns, answer, greets>>
  BY DEF RepeatedInbound
<1> QED BY <1>2, <1>3 DEF GreetInv, HeardInv, AttemptInv, SaidInv, OnceInv, Genesis,
                          GreetsOnce

LEMMA ReadBackGreets == ASSUME TypeOK, GreetInv, ReadBack PROVE GreetInv'
<1>0. answer.seen \in Corrs
  BY DEF ReadBack, TypeOK, Answers
<1>1. PICK late \in BOOLEAN, cost \in Costs, gain \in {0, 1} :
        Frame(FALSE, answer.seen, answer.verdict, late, FALSE, cost, gain)
  BY DEF ReadBack
<1>2. answer # NoAnswer /\ answer' = NoAnswer /\ UNCHANGED <<loop, turns, greets>>
  BY DEF ReadBack
<1>3. answer.verdict \in {"sent", "silent"}
  BY <1>2 DEF TypeOK, Answers
<1>4. /\ db'.heard = db.heard
      /\ db.spoke => db'.spoke
      /\ desire'.spring = "genesis" => desire.spring = "genesis"
      /\ db.pending # NoCorr /\ db'.pending = NoCorr =>
           desire' = Quiet /\ (answer.verdict = "sent" => db'.spoke)
  <2>1. PICK seen \in Corrs, verdict \in Verdicts :
          /\ verdict = answer.verdict
          /\ Frame(FALSE, seen, verdict, late, FALSE, cost, gain)
    BY <1>0, <1>1, <1>3 DEF Verdicts
  <2>2. /\ db'.heard = db.heard
        /\ db.spoke => db'.spoke
        /\ desire'.spring = "genesis" => desire.spring = "genesis"
        /\ db.pending # NoCorr /\ db'.pending = NoCorr =>
             desire' = Quiet /\ (verdict = "sent" => db'.spoke)
    <3>1. FALSE \in BOOLEAN
      OBVIOUS
    <3> QED BY <2>1, <3>1, FrameGreets, ZenonT(60)
  <2> QED BY <2>1, <2>2
<1>5. HeardInv'
  BY <1>2, <1>4 DEF GreetInv, HeardInv
<1>6. ~db.heard => turns = <<>> /\ loop.at # "dispatch" /\ db.pending # NoCorr
                   /\ (loop.at = "tail" => loop.row.pending # NoCorr)
  BY <1>2 DEF GreetInv, AttemptInv, Composing
<1>7. AttemptInv'
  BY <1>2, <1>4, <1>6 DEF AttemptInv, Composing
<1>8. SaidInv'
  <2> SUFFICES ASSUME ~db.heard, greets # 0 PROVE Spoken' \/ Anchored'
    BY <1>2, <1>4 DEF SaidInv
  <2>1. CASE db'.pending # NoCorr
    BY <1>2, <1>6, <2>1 DEF Anchored, Composing
  <2>2. CASE db'.pending = NoCorr
    <3>1. desire'.spring # "genesis"
      BY <1>4, <1>6, <2>2 DEF Quiet
    <3>2. db'.spoke
      BY <1>2, <1>4, <1>6, <2>2 DEF GreetInv, SaidInv, Answered, Spoken, Anchored, Composing
    <3> QED BY <1>2, <1>6, <3>1, <3>2 DEF Spoken, Composing, Genesis
  <2> QED BY <2>1, <2>2
<1>9. OnceInv' /\ GreetsOnce'
  BY <1>2 DEF GreetInv, OnceInv, GreetsOnce, Genesis
<1> QED BY <1>5, <1>7, <1>8, <1>9 DEF GreetInv

\* A rollback writes back what its frame saw: nothing said is forgotten.
LEMMA RollbackGreets ==
  ASSUME TypeOK, GreetInv, loop.at = "dispatch", NEW defer \in BOOLEAN, Rollback(defer)
  PROVE  GreetInv'
<1>1. loop.row \in Rows
  BY LoopShapes DEF TypeOK
<1>2. db'.heard = loop.row.heard /\ db'.spoke = loop.row.spoke
  BY <1>1 DEF Rollback, Rows
<1>3. UNCHANGED <<turns, answer, greets>> /\ desire'.spring = desire.spring
  <2>1. desire \in Desires
    BY DEF TypeOK
  <2> QED BY <2>1 DEF Rollback, Desires, Quiet
<1>4. loop' = Idle \/ loop' = [at |-> "tail", row |-> db']
  BY DEF Rollback, AfterDispatch
<1>5. HeardInv'
  BY <1>2, <1>3, <1>4 DEF GreetInv, HeardInv, Idle
<1>6. ~db.heard => ~Composing
  BY DEF GreetInv, AttemptInv
<1>7. AttemptInv'
  BY <1>2, <1>3, <1>4, <1>6 DEF GreetInv, HeardInv, AttemptInv, Composing, Idle
<1>8. SaidInv'
  BY <1>2, <1>3, <1>4, <1>6 DEF GreetInv, HeardInv, SaidInv, Answered, Spoken, Anchored,
                                Composing, Genesis, Idle
<1>9. OnceInv' /\ GreetsOnce'
  BY <1>3 DEF GreetInv, OnceInv, GreetsOnce, Genesis
<1> QED BY <1>5, <1>7, <1>8, <1>9 DEF GreetInv

LEMMA DeliveredGreets == ASSUME TypeOK, GreetInv, Delivered PROVE GreetInv'
<1> DEFINE turn == [corr |-> loop.corr, spring |-> loop.spring, voided |-> FALSE]
<1>1. /\ loop.at = "dispatch" /\ turns' = Append(turns, turn)
      /\ loop' = Idle \/ loop' = [at |-> "tail", row |-> loop.row]
      /\ UNCHANGED <<db, desire, answer, greets>>
  BY DEF Delivered, AfterDispatch
<1>2. turns \in Seq(Turns) /\ turn \in Turns
  BY <1>1, TypeParts, LoopShapes DEF Turns
<1>3. /\ Len(turns') = Len(turns) + 1 /\ turns' # <<>>
      /\ DOMAIN turns' = 1 .. Len(turns) + 1 /\ DOMAIN turns = 1 .. Len(turns)
      /\ turns'[Len(turns) + 1] = turn
      /\ \A i \in DOMAIN turns : turns'[i] = turns[i]
  BY <1>1, <1>2
<1> HIDE DEF turn
<1>4. turn.spring = loop.spring
  BY DEF turn
<1>5. ~db.heard => /\ turns = <<>> /\ answer = NoAnswer /\ Len(turns) = 0
                   /\ db.pending # NoCorr /\ loop.row.pending # NoCorr
  BY <1>1, <1>2 DEF GreetInv, AttemptInv, Composing
<1>6. loop.spring = "genesis" => ~db.heard /\ greets = 0
  BY <1>1, <1>5 DEF GreetInv, HeardInv, SaidInv, Answered, Spoken, Anchored, Composing
<1>7. HeardInv'
  BY <1>1 DEF GreetInv, HeardInv, Idle
<1>8. AttemptInv'
  BY <1>1, <1>3, <1>5 DEF AttemptInv, Composing, Idle
<1>9. SaidInv'
  <2> SUFFICES ASSUME ~db.heard, greets # 0 PROVE Spoken'
    BY <1>1 DEF SaidInv
  <2>1. Spoken /\ loop.spring # "genesis" /\ loop.row.spoke
    BY <1>1, <1>5 DEF GreetInv, SaidInv, Answered, Spoken, Anchored
  <2>2. \A i \in DOMAIN turns' : turns'[i].spring # "genesis"
    BY <1>3, <1>4, <1>5, <2>1
  <2> QED BY <1>1, <2>1, <2>2 DEF Spoken, Genesis, Idle
<1>10. OnceInv'
  BY <1>1, <1>3, <1>4, <1>5, <1>6 DEF GreetInv, OnceInv, Genesis
<1> QED BY <1>1, <1>7, <1>8, <1>9, <1>10 DEF GreetInv, GreetsOnce

LEMMA CompletionTailGreets == ASSUME TypeOK, GreetInv, CompletionTail PROVE GreetInv'
<1>1. /\ loop.at = "tail" /\ db' = loop.row /\ loop' = Idle
      /\ UNCHANGED <<desire, turns, answer, greets>>
  BY DEF CompletionTail
<1>2. HeardInv' /\ AttemptInv'
  BY <1>1 DEF GreetInv, HeardInv, AttemptInv, Composing, Idle
<1>3. SaidInv'
  BY <1>1 DEF GreetInv, HeardInv, SaidInv, Answered, Spoken, Anchored, Composing, Genesis, Idle
<1>4. OnceInv' /\ GreetsOnce'
  BY <1>1 DEF GreetInv, OnceInv, GreetsOnce, Genesis
<1> QED BY <1>2, <1>3, <1>4 DEF GreetInv

\* The turns after the first one was taken.
LEMMA TurnTaken ==
  ASSUME TypeOK, turns # <<>>, turns' = Tail(turns)
  PROVE  /\ Len(turns') = Len(turns) - 1 /\ Len(turns) \in Nat \ {0}
         /\ DOMAIN turns' = 1 .. Len(turns) - 1 /\ DOMAIN turns = 1 .. Len(turns)
         /\ \A i \in DOMAIN turns' : i + 1 \in DOMAIN turns /\ turns'[i] = turns[i + 1]
         /\ Len(turns) <= 1 => turns' = <<>>
<1>1. turns \in Seq(Turns)
  BY TypeParts
<1>2. Len(turns) # 0
  BY <1>1, EmptySeq
<1> QED BY <1>1, <1>2, HeadTailProperties, EmptySeq

\* ... hold no greeting that was not there before.
LEMMA TakenOnce ==
  ASSUME TypeOK, OnceInv, turns # <<>>, turns' = Tail(turns)
  PROVE  /\ \A i, j \in DOMAIN turns' : Genesis(i)' /\ Genesis(j)' => i = j
         /\ \A i \in DOMAIN turns' : Genesis(i)' => greets = 0 /\ ~Genesis(1)
<1>1. /\ DOMAIN turns' = 1 .. Len(turns) - 1 /\ DOMAIN turns = 1 .. Len(turns)
      /\ \A i \in DOMAIN turns' : i + 1 \in DOMAIN turns /\ turns'[i] = turns[i + 1]
      /\ Len(turns) \in Nat \ {0}
  BY TurnTaken
<1>2. \A i \in DOMAIN turns' : (Genesis(i))' <=> Genesis(i + 1)
  BY <1>1 DEF Genesis
<1>3. \A i \in DOMAIN turns' : i \in Nat /\ i + 1 # 1 /\ 1 \in DOMAIN turns
  BY <1>1
<1>4. \A i, j \in DOMAIN turns' : i + 1 = j + 1 => i = j
  BY <1>1
<1> QED BY <1>1, <1>2, <1>3, <1>4 DEF OnceInv

LEMMA TurnEndsGreets ==
  ASSUME TypeOK, GreetInv, NEW verdict \in {"sent", "silent"}, TurnEnds(verdict)
  PROVE  GreetInv'
<1>1. /\ turns # <<>> /\ answer = NoAnswer /\ turns' = Tail(turns)
      /\ UNCHANGED <<db, desire, loop>>
      /\ answer' # NoAnswer => answer'.verdict = verdict
      /\ answer' = NoAnswer \/ answer'.verdict = verdict
      /\ greets' = IF verdict = "sent" /\ Head(turns).spring = "genesis" THEN greets + 1
                                                                      ELSE greets
  BY DEF TurnEnds
<1>2. /\ Len(turns') = Len(turns) - 1 /\ Len(turns) \in Nat \ {0}
      /\ DOMAIN turns = 1 .. Len(turns)
      /\ \A i \in DOMAIN turns' : i + 1 \in DOMAIN turns /\ turns'[i] = turns[i + 1]
      /\ Len(turns) <= 1 => turns' = <<>>
  BY <1>1, TurnTaken
<1>3. Head(turns) = turns[1] /\ 1 \in DOMAIN turns
  BY <1>2
<1>4. greets' = greets \/ (verdict = "sent" /\ Genesis(1) /\ greets = 0 /\ greets' = 1)
  BY <1>1, <1>3 DEF Genesis, GreetInv, OnceInv
<1>5. HeardInv'
  BY <1>1 DEF GreetInv, HeardInv
<1>6. ~db.heard => /\ turns' = <<>> /\ loop.at # "dispatch" /\ db.pending # NoCorr
                   /\ (loop.at = "tail" => loop.row.pending # NoCorr)
  BY <1>1, <1>2 DEF GreetInv, AttemptInv, Composing
<1>7. AttemptInv'
  <2> SUFFICES ASSUME ~db.heard PROVE AttemptInv'
    BY <1>1 DEF AttemptInv
  <2>1. turns' = <<>> /\ Len(turns') <= 1
    BY <1>6
  <2> QED BY <1>1, <1>6, <2>1, Zenon DEF AttemptInv, Composing
<1>8. SaidInv'
  <2> SUFFICES ASSUME ~db.heard, greets' # 0 PROVE Answered' \/ Spoken' \/ Anchored'
    BY <1>1 DEF SaidInv
  <2>1. CASE answer' = NoAnswer
    BY <1>1, <1>6, <2>1 DEF Anchored, Composing
  <2>2. CASE answer' # NoAnswer /\ greets' # greets
    BY <1>1, <1>4, <2>2 DEF Answered
  <2>3. CASE answer' # NoAnswer /\ greets' = greets
    <3>1. Spoken
      BY <1>1, <2>3 DEF GreetInv, SaidInv, Answered, Anchored, Composing
    <3> QED BY <1>1, <1>6, <3>1 DEF Spoken, Composing, Genesis
  <2> QED BY <2>1, <2>2, <2>3
<1>9. OnceInv'
  <2>1. /\ \A i, j \in DOMAIN turns' : Genesis(i)' /\ Genesis(j)' => i = j
        /\ \A i \in DOMAIN turns' : Genesis(i)' => greets = 0 /\ ~Genesis(1)
    BY <1>1, TakenOnce DEF GreetInv
  <2> QED BY <1>4, <2>1 DEF OnceInv
<1>10. GreetsOnce'
  BY <1>4 DEF GreetInv, GreetsOnce
<1> QED BY <1>5, <1>7, <1>8, <1>9, <1>10 DEF GreetInv

LEMMA WriteSoulGreets == ASSUME TypeOK, GreetInv, WriteSoul PROVE GreetInv'
<1>1. /\ db' = [db EXCEPT !.born = TRUE] /\ db \in Rows
      /\ UNCHANGED <<desire, loop, turns, answer, greets>>
  BY DEF WriteSoul, TypeOK
<1>2. db'.heard = db.heard /\ db'.spoke = db.spoke /\ db'.pending = db.pending
  BY <1>1 DEF Rows
<1> QED BY <1>1, <1>2 DEF GreetInv, HeardInv, AttemptInv, SaidInv, OnceInv, GreetsOnce,
                          Answered, Spoken, Anchored, Composing, Genesis

LEMMA TurnLostGreets == ASSUME TypeOK, GreetInv, TurnLost PROVE GreetInv'
<1>1. /\ turns # <<>> /\ turns' = Tail(turns)
      /\ UNCHANGED <<db, desire, loop, answer, greets>>
  BY DEF TurnLost
<1>2. Len(turns) <= 1 => turns' = <<>>
  BY <1>1, TurnTaken
<1>3. ~db.heard => /\ turns' = <<>> /\ answer = NoAnswer
                   /\ loop.at # "dispatch" /\ db.pending # NoCorr
                   /\ (loop.at = "tail" => loop.row.pending # NoCorr)
  BY <1>1, <1>2 DEF GreetInv, AttemptInv, Composing
<1>4. HeardInv' /\ GreetsOnce'
  BY <1>1 DEF GreetInv, HeardInv, GreetsOnce
<1>5. AttemptInv'
  <2> SUFFICES ASSUME ~db.heard PROVE AttemptInv'
    BY <1>1 DEF AttemptInv
  <2>1. turns' = <<>> /\ answer' = NoAnswer
    BY <1>1, <1>3
  <2>2. Len(turns') <= 1
    BY <2>1
  <2> QED BY <1>1, <1>3, <2>1, <2>2 DEF AttemptInv, Composing
<1>6. SaidInv'
  BY <1>1, <1>3 DEF SaidInv, Anchored, Composing
<1>7. OnceInv'
  <2>1. /\ \A i, j \in DOMAIN turns' : Genesis(i)' /\ Genesis(j)' => i = j
        /\ \A i \in DOMAIN turns' : Genesis(i)' => greets = 0 /\ ~Genesis(1)
    BY <1>1, TakenOnce DEF GreetInv
  <2> QED BY <1>1, <2>1 DEF OnceInv
<1> QED BY <1>4, <1>5, <1>6, <1>7 DEF GreetInv

\* What a crash takes from a lane that waits leaves it waiting.
LEMMA CrashGreets == ASSUME TypeOK, GreetInv, Crash PROVE GreetInv'
<1>1. /\ loop' = Idle /\ turns' = <<>> /\ answer' = NoAnswer
      /\ UNCHANGED <<db, desire, greets>>
  BY DEF Crash
<1>2. HeardInv' /\ AttemptInv' /\ OnceInv' /\ GreetsOnce'
  BY <1>1 DEF GreetInv, HeardInv, AttemptInv, OnceInv, GreetsOnce, Composing, Idle
<1>3. SaidInv'
  BY <1>1 DEF GreetInv, SaidInv, AttemptInv, Answered, Spoken, Anchored, Composing, Genesis,
              Idle
<1> QED BY <1>2, <1>3 DEF GreetInv

LEMMA StepGreets == TypeOK /\ GreetInv /\ [Next]_vars => GreetInv'
<1> SUFFICES ASSUME TypeOK, GreetInv, [Next]_vars PROVE GreetInv'
  OBVIOUS
<1>1. CASE Heartbeat \/ Completion
  BY <1>1, LoopFrameGreets DEF Heartbeat, Completion
<1>2. CASE Dispatch
  <2>1. CASE BackstopHolds \/ NotDelivered
    BY <2>1, RollbackGreets DEF BackstopHolds, NotDelivered
  <2> QED BY <1>2, <2>1, DeliveredGreets DEF Dispatch
<1>3. CASE UNCHANGED vars
  BY <1>3 DEF vars, GreetInv, HeardInv, AttemptInv, SaidInv, OnceInv, GreetsOnce,
              Answered, Spoken, Anchored, Composing, Genesis
<1> QED
  BY <1>1, <1>2, <1>3, InboundGreets, RepeatedInboundGreets, CompletionTailGreets,
     TurnEndsGreets, ReadBackGreets, WriteSoulGreets, TurnLostGreets, CrashGreets
  DEF Next

\* A newborn greets at most once, however its turn is lost, its verdict comes
\* late, a completion's tail takes the read-back back, or the process restarts.
THEOREM NeverGreetsTwice == Spec => []GreetsOnce
<1>1. TypeOK /\ GreetInv /\ [Next]_vars => GreetInv'
  BY StepGreets
<1>2. GreetInv => GreetsOnce
  BY DEF GreetInv
<1> QED BY InitGreets, LaneTypeCorrect, <1>1, <1>2, PTL DEF Spec

-----------------------------------------------------------------------------
(* No longing after an unanswered one, and each verdict to its own attempt, *)
(* where an own turn does not outlive a contact by the silence window.      *)

\* A turn, or an answer, from before the human's last word; and one that is not.
Voided == \/ \E i \in DOMAIN turns : turns[i].voided
          \/ answer # NoAnswer /\ answer.voided
Live   == \/ \E i \in DOMAIN turns : ~turns[i].voided
          \/ answer # NoAnswer /\ ~answer.voided

\* While a voided turn composes the lane is at rest.
VoidInv ==
  Voided =>
    /\ ~Live /\ desire.state = "none" /\ db.pending = NoCorr /\ loop.at # "dispatch"
    /\ loop.at = "tail" => loop.row.pending = NoCorr

\* A live turn is the only one, it is the desire's, and the anchor names it.
LiveInv ==
  Live =>
    /\ Len(turns) <= 1 /\ (turns # <<>> => answer = NoAnswer)
    /\ desire.state = "active" /\ db.pending # NoCorr /\ loop.at # "dispatch"
    /\ loop.at = "tail" => loop.row.pending = db.pending
    /\ \A i \in DOMAIN turns : turns[i].spring = desire.spring /\ turns[i].corr = db.pending
    /\ answer # NoAnswer => answer.corr = db.pending

\* A launch is dispatched while nothing composes.
SoleInv ==
  loop.at = "dispatch" =>
    /\ ~Composing /\ desire.state = "active" /\ desire.spring = loop.spring
    /\ db.pending = loop.corr /\ loop.row.pending = loop.corr /\ loop.corr # NoCorr

\* A longing that was said: its verdict is about to be read, or it counts as
\* unanswered, or the lane stays anchored until the human speaks.
Bidding ==
  /\ answer # NoAnswer /\ ~answer.voided /\ answer.verdict = "sent"
  /\ desire.spring = "drive"
Counted ==
  /\ db.unanswered # 0 /\ desire.spring # "drive"
  /\ loop.at = "dispatch" => loop.row.unanswered # 0
  /\ loop.at = "tail" => loop.row.unanswered # 0 \/ (loop.row.pending # NoCorr /\ ~Composing)
BidInv == bids # 0 => Bidding \/ Counted \/ Anchored

ReachInv == VoidInv /\ LiveInv /\ SoleInv /\ BidInv

LEMMA InitReach == Init => ReachInv
BY DEF Init, Idle, Quiet, Composing, Voided, Live, VoidInv, LiveInv, SoleInv, BidInv, ReachInv

\* What one frame does to the anchor, the desire and the unanswered count.
LEMMA FrameReach ==
  ASSUME TypeOK,
         NEW contact \in BOOLEAN, NEW seen \in Corrs, NEW verdict \in Verdicts,
         NEW late \in BOOLEAN, NEW urge \in BOOLEAN, NEW cost \in Costs,
         NEW gain \in {0, 1},
         Frame(contact, seen, verdict, late, urge, cost, gain)
  PROVE  /\ Launches(cost) =>
              /\ desire.state = "active" /\ db.pending = NoCorr
              /\ db'.pending = launched' /\ launched' # NoCorr
         /\ ~Launches(cost) =>
              /\ launched' = launched
              /\ db'.pending = db.pending \/ db'.pending = NoCorr
              /\ contact => db'.pending = NoCorr
         /\ contact => desire'.state = "none"
         /\ ~contact /\ db.unanswered # 0 =>
              /\ db'.unanswered # 0
              /\ desire'.spring = "drive" => desire.spring = "drive"
         /\ desire.state = "none" => desire'.state = "none" \/ urge
         /\ ~contact /\ desire.state # "none" =>
              \/ desire' = desire /\ (Launches(cost) \/ db'.pending = db.pending)
              \/ /\ verdict # "none" /\ desire' = Quiet
                 /\ Launches(cost) \/ db'.pending = NoCorr
                 /\ verdict = "sent" /\ desire.spring = "drive" => db'.unanswered # 0
<1> DEFINE target == Target(contact, seen, verdict, late)
           row == Aggregate(contact, verdict, target)
<1>1. db \in Rows /\ desire \in Desires /\ launched \in Nat
  BY DEF TypeOK
<1>2. row \in Rows
  BY Aggregated
<1>3. /\ target = "stays" \/ target = "satisfied" \/ target = "dropped"
      /\ ~contact /\ target # "stays" => verdict # "none" /\ desire.state = "active"
      /\ contact => (target = "stays" /\ desire.state = "none") \/ target = "satisfied"
  BY DEF Target, Stale
<1>4. /\ contact => row.pending = NoCorr
      /\ ~contact /\ target = "stays" => row = db
      /\ ~contact /\ target # "stays" => row.pending = NoCorr
      /\ ~contact /\ db.unanswered # 0 => row.unanswered # 0
      /\ ~contact /\ target # "stays" /\ verdict = "sent" /\ desire.spring = "drive" =>
           row.unanswered # 0
  BY <1>1 DEF Rows, Aggregate
<1>5. /\ Launches(cost) => db'.pending = launched + 1 /\ launched' = launched + 1
      /\ ~Launches(cost) => db'.pending = row.pending /\ launched' = launched
      /\ db'.unanswered = row.unanswered
  <2>1. /\ db' = FrameRow(row, cost, gain)
        /\ launched' = IF Launches(cost) THEN launched + 1 ELSE launched
    BY DEF Frame
  <2> HIDE DEF row
  <2> QED BY <1>2, <2>1 DEF FrameRow, Rows
<1>6. desire' = IF target # "stays" THEN Quiet
                ELSE IF Wakes(row, target, urge)
                  THEN [state |-> "active",
                        spring |-> IF FirstWaking(row) THEN "genesis" ELSE "drive"]
                ELSE desire
  BY DEF Frame
<1>7. Wakes(row, target, urge) =>
        /\ urge /\ desire.state = "none" /\ target = "stays"
        /\ FirstWaking(row) \/ row.unanswered = 0
  BY DEF Wakes
<1>8. urge => ~contact
  BY DEF Frame
<1>9. Launches(cost) => desire.state = "active" /\ db.pending = NoCorr
  BY DEF Launches
<1> HIDE DEF row, target
<1>10. launched + 1 # NoCorr
  BY <1>1 DEF NoCorr
<1>11. contact => desire'.state = "none"
  BY <1>3, <1>6, <1>7, <1>8 DEF Quiet
<1>12. ASSUME ~contact, db.unanswered # 0
       PROVE  db'.unanswered # 0 /\ (desire'.spring = "drive" => desire.spring = "drive")
  <2>1. db'.unanswered # 0 /\ row.unanswered # 0
    BY <1>4, <1>5, <1>12
  <2>2. CASE target # "stays"
    BY <1>6, <2>1, <2>2 DEF Quiet
  <2>3. CASE target = "stays" /\ Wakes(row, target, urge)
    BY <1>6, <1>7, <2>1, <2>3
  <2>4. CASE target = "stays" /\ ~Wakes(row, target, urge)
    BY <1>6, <2>1, <2>4
  <2> QED BY <2>2, <2>3, <2>4
<1>13. desire.state = "none" => desire'.state = "none" \/ urge
  BY <1>6, <1>7 DEF Quiet
<1>14. ASSUME ~contact, desire.state # "none"
       PROVE  \/ desire' = desire /\ (Launches(cost) \/ db'.pending = db.pending)
              \/ /\ verdict # "none" /\ desire' = Quiet
                 /\ Launches(cost) \/ db'.pending = NoCorr
                 /\ verdict = "sent" /\ desire.spring = "drive" => db'.unanswered # 0
  <2>1. CASE target = "stays"
    BY <1>4, <1>5, <1>6, <1>7, <1>14, <2>1
  <2>2. CASE target # "stays"
    BY <1>3, <1>4, <1>5, <1>6, <1>14, <2>2
  <2> QED BY <2>1, <2>2
<1>15. ~Launches(cost) =>
         /\ launched' = launched
         /\ db'.pending = db.pending \/ db'.pending = NoCorr
         /\ contact => db'.pending = NoCorr
  BY <1>4, <1>5
<1> QED BY <1>5, <1>9, <1>10, <1>11, <1>12, <1>13, <1>14, <1>15

\* A frame that nobody's message or verdict starts: the desire stays, or wakes
\* while nothing composes.
LEMMA BareFrame ==
  ASSUME TypeOK, ReachInv, ~SlowTurns,
         NEW urge \in BOOLEAN, NEW cost \in Costs, NEW gain \in {0, 1},
         Frame(FALSE, NoCorr, "none", FALSE, urge, cost, gain)
  PROVE  /\ Launches(cost) =>
              /\ ~Composing /\ desire' = desire /\ desire.state = "active"
              /\ db.pending = NoCorr /\ db'.pending = launched' /\ launched' # NoCorr
         /\ ~Launches(cost) => db'.pending = db.pending \/ db'.pending = NoCorr
         /\ Composing => (desire.state = "none" => desire'.state = "none")
         /\ desire.state # "none" => desire' = desire
         /\ desire.state # "none" /\ ~Launches(cost) => db'.pending = db.pending
         /\ db.pending # NoCorr => db'.pending = db.pending
         /\ db.unanswered # 0 =>
              db'.unanswered # 0 /\ (desire'.spring = "drive" => desire.spring = "drive")
<1>0. NoCorr \in Corrs /\ db \in Rows
  BY DEF TypeOK, Corrs, NoCorr
<1>1. /\ Launches(cost) =>
           /\ desire.state = "active" /\ db.pending = NoCorr
           /\ db'.pending = launched' /\ launched' # NoCorr
      /\ ~Launches(cost) => db'.pending = db.pending \/ db'.pending = NoCorr
      /\ desire.state = "none" => desire'.state = "none" \/ urge
      /\ desire.state # "none" =>
           desire' = desire /\ (Launches(cost) \/ db'.pending = db.pending)
      /\ db.unanswered # 0 =>
           db'.unanswered # 0 /\ (desire'.spring = "drive" => desire.spring = "drive")
  BY <1>0, NoVerdict, FrameReach, ZenonT(60)
<1>2. urge => ~Composing
  BY DEF Frame, Composing
<1>3. db.pending # NoCorr => db'.pending = db.pending
  <2>1. Target(FALSE, NoCorr, "none", FALSE) = "stays"
    BY DEF Target
  <2>2. Aggregate(FALSE, "none", "stays") = db
    BY DEF Aggregate
  <2>3. db' = FrameRow(db, cost, gain)
    BY <2>1, <2>2 DEF Frame
  <2> QED BY <1>0, <2>3 DEF FrameRow, Launches, Rows
<1>4. Composing => Voided \/ Live
  <2>1. turns \in Seq(Turns)
    BY TypeParts
  <2>2. turns # <<>> => 1 \in DOMAIN turns
    BY <2>1, EmptySeq
  <2> QED BY <2>2 DEF Composing, Voided, Live
<1>5. Launches(cost) => ~Composing
  BY <1>1, <1>4 DEF ReachInv, VoidInv, LiveInv
<1> QED BY <1>1, <1>2, <1>3, <1>5

LEMMA LoopFrameReach ==
  ASSUME TypeOK, ReachInv, ~SlowTurns,
         NEW kind \in {"beat", "completion"}, LoopFrame(kind)
  PROVE  ReachInv' /\ (launched' > launched /\ desire.spring = "drive" => bids = 0)
<1>1. PICK urge \in BOOLEAN, cost \in Costs, gain \in {0, 1} :
        /\ Frame(FALSE, NoCorr, "none", FALSE, urge, cost, gain)
        /\ loop' = IF Launches(cost)
                     THEN [at |-> "dispatch", kind |-> kind, row |-> db',
                           corr |-> launched', cost |-> cost,
                           spring |-> desire.spring]
                   ELSE IF kind = "completion"
                     THEN [at |-> "tail", row |-> db']
                   ELSE Idle
  BY DEF LoopFrame
<1>2. /\ Launches(cost) =>
           /\ ~Composing /\ desire' = desire /\ desire.state = "active"
           /\ db.pending = NoCorr /\ db'.pending = launched' /\ launched' # NoCorr
      /\ ~Launches(cost) => db'.pending = db.pending \/ db'.pending = NoCorr
      /\ Composing => (desire.state = "none" => desire'.state = "none")
      /\ desire.state # "none" => desire' = desire
      /\ desire.state # "none" /\ ~Launches(cost) => db'.pending = db.pending
      /\ db.pending # NoCorr => db'.pending = db.pending
      /\ db.unanswered # 0 =>
           db'.unanswered # 0 /\ (desire'.spring = "drive" => desire.spring = "drive")
  BY <1>1, BareFrame
<1>3. loop.at = "idle" /\ UNCHANGED <<turns, answer, bids, greets>>
  BY DEF LoopFrame
<1>4. /\ loop'.at = "dispatch" => Launches(cost) /\ loop'.row = db'
                                  /\ loop'.corr = launched' /\ loop'.spring = desire.spring
      /\ loop'.at = "tail" => ~Launches(cost) /\ loop'.row = db'
  BY <1>1 DEF Idle
<1>5. /\ Composing' = Composing /\ Voided' = Voided /\ Live' = Live
      /\ Voided \/ Live => Composing
  <2>1. turns \in Seq(Turns)
    BY TypeParts
  <2>2. turns = <<>> => DOMAIN turns = {}
    BY <2>1
  <2> QED BY <1>3, <2>2 DEF Composing, Voided, Live
<1>6. VoidInv'
  BY <1>2, <1>3, <1>4, <1>5 DEF ReachInv, VoidInv
<1>7. LiveInv'
  BY <1>2, <1>3, <1>4, <1>5 DEF ReachInv, LiveInv
<1>8. SoleInv'
  BY <1>2, <1>3, <1>4, <1>5 DEF SoleInv
<1>9. Bidding => Live /\ Composing /\ db.pending # NoCorr /\ desire.state = "active"
  BY DEF Bidding, Live, Composing, ReachInv, LiveInv
<1>10. BidInv'
  BY <1>2, <1>3, <1>4, <1>5, <1>9 DEF ReachInv, BidInv, Bidding, Counted, Anchored
<1>11. launched' > launched /\ desire.spring = "drive" => bids = 0
  <2>1. launched' > launched => Launches(cost)
    BY <1>1 DEF Frame, TypeOK
  <2> QED BY <1>2, <1>9, <2>1 DEF ReachInv, BidInv, Counted, Anchored
<1> QED BY <1>6, <1>7, <1>8, <1>10, <1>11 DEF ReachInv

\* Whoever composes is voided or live, and nothing launches meanwhile.
LEMMA ComposingHolds ==
  ASSUME TypeOK, ReachInv
  PROVE  /\ Composing <=> Voided \/ Live
         /\ Composing => desire.state # "active" \/ db.pending # NoCorr
<1>1. turns \in Seq(Turns)
  BY TypeParts
<1>2. /\ turns # <<>> => 1 \in DOMAIN turns
      /\ turns = <<>> => DOMAIN turns = {}
  BY <1>1, EmptySeq
<1>3. Composing <=> Voided \/ Live
  BY <1>2 DEF Composing, Voided, Live
<1> QED BY <1>3 DEF ReachInv, VoidInv, LiveInv

\* The human's word voids what composes and puts the lane to rest.
LEMMA InboundReach ==
  ASSUME TypeOK, ReachInv, Inbound
  PROVE  ReachInv' /\ (answer # NoAnswer => answer' # NoAnswer)
         /\ (launched' > launched => bids = 0 \/ desire.spring # "drive")
<1>1. PICK cost \in Costs, gain \in {0, 1} :
        Frame(TRUE, NoCorr, "none", FALSE, FALSE, cost, gain)
  BY DEF Inbound
<1>2. /\ Launches(cost) => desire.state = "active" /\ db.pending = NoCorr
      /\ ~Launches(cost) => db'.pending = NoCorr /\ launched' = launched
      /\ desire'.state = "none"
  <2>1. NoCorr \in Corrs
    BY DEF TypeOK, Corrs, NoCorr
  <2> QED BY <1>1, <2>1, NoVerdict, FrameReach, ZenonT(60)
<1>3. /\ loop.at = "idle" /\ loop' = loop /\ bids' = 0
      /\ turns' = [i \in DOMAIN turns |-> [turns[i] EXCEPT !.voided = TRUE]]
      /\ answer' = IF answer = NoAnswer THEN answer
                                        ELSE [answer EXCEPT !.voided = TRUE]
  BY DEF Inbound
<1>4. /\ DOMAIN turns' = DOMAIN turns
      /\ \A i \in DOMAIN turns' : turns'[i].voided = TRUE
      /\ turns = <<>> => turns' = <<>>
  <2>1. turns \in Seq(Turns)
    BY TypeParts
  <2>2. \A i \in DOMAIN turns : turns[i] \in Turns
    BY <2>1
  <2>3. DOMAIN turns' = DOMAIN turns /\ \A i \in DOMAIN turns' : turns'[i].voided = TRUE
    BY <1>3, <2>2 DEF Turns
  <2>4. turns = <<>> => turns' = <<>>
    BY <1>3
  <2> QED BY <2>3, <2>4
<1>5. answer # NoAnswer => answer' # NoAnswer /\ answer'.voided = TRUE
  <2> SUFFICES ASSUME answer # NoAnswer PROVE answer' # NoAnswer /\ answer'.voided = TRUE
    OBVIOUS
  <2>1. "voided" \in DOMAIN answer /\ answer' = [answer EXCEPT !.voided = TRUE]
    BY <1>3 DEF TypeOK, Answers
  <2>2. "voided" \in DOMAIN answer' /\ answer'.voided = TRUE
    BY <2>1
  <2>3. "voided" \notin DOMAIN NoAnswer
    BY DEF NoAnswer
  <2> QED BY <2>2, <2>3
<1>6. ~Live'
  BY <1>3, <1>4, <1>5 DEF Live
<1>7. Voided' => Composing
  <2>1. turns = <<>> => DOMAIN turns = {}
    OBVIOUS
  <2> QED BY <1>3, <1>4, <2>1 DEF Voided, Composing
<1>8. VoidInv'
  BY <1>2, <1>3, <1>6, <1>7, ComposingHolds DEF VoidInv
<1>9. LiveInv' /\ SoleInv' /\ BidInv'
  BY <1>3, <1>6 DEF LiveInv, SoleInv, BidInv
<1>10. Launches(cost) => bids = 0 \/ desire.spring # "drive"
  BY <1>2, ComposingHolds DEF ReachInv, BidInv, Bidding, Counted, Anchored, Composing
<1>11. launched' > launched => Launches(cost)
  BY <1>2 DEF TypeOK
<1> QED BY <1>5, <1>8, <1>9, <1>10, <1>11 DEF ReachInv

LEMMA RepeatedInboundReach ==
  ASSUME TypeOK, ReachInv, ~SlowTurns, RepeatedInbound
  PROVE  ReachInv' /\ (launched' > launched => bids = 0 \/ desire.spring # "drive")
<1>1. PICK urge \in BOOLEAN, cost \in Costs, gain \in {0, 1} :
        Frame(FALSE, NoCorr, "none", FALSE, urge, cost, gain)
  BY DEF RepeatedInbound
<1>2. /\ Launches(cost) =>
           /\ ~Composing /\ desire' = desire /\ desire.state = "active"
           /\ db.pending = NoCorr /\ db'.pending = launched' /\ launched' # NoCorr
      /\ ~Launches(cost) => db'.pending = db.pending \/ db'.pending = NoCorr
      /\ Composing => (desire.state = "none" => desire'.state = "none")
      /\ desire.state # "none" => desire' = desire
      /\ desire.state # "none" /\ ~Launches(cost) => db'.pending = db.pending
      /\ db.pending # NoCorr => db'.pending = db.pending
      /\ db.unanswered # 0 =>
           db'.unanswered # 0 /\ (desire'.spring = "drive" => desire.spring = "drive")
  BY <1>1, BareFrame
<1>3. loop.at = "idle" /\ UNCHANGED <<loop, turns, answer, bids, greets>>
  BY DEF RepeatedInbound
<1>4. /\ Composing' = Composing /\ Voided' = Voided /\ Live' = Live
      /\ Voided \/ Live => Composing
  BY <1>3, ComposingHolds DEF Composing, Voided, Live
<1>5. VoidInv' /\ LiveInv' /\ SoleInv'
  BY <1>2, <1>3, <1>4 DEF ReachInv, VoidInv, LiveInv, SoleInv
<1>6. Bidding => Live /\ Composing /\ db.pending # NoCorr /\ desire.state = "active"
  BY DEF Bidding, Live, Composing, ReachInv, LiveInv
<1>7. BidInv'
  BY <1>2, <1>3, <1>4, <1>6 DEF ReachInv, BidInv, Bidding, Counted, Anchored
<1>8. launched' > launched => bids = 0 \/ desire.spring # "drive"
  <2>1. launched' > launched => Launches(cost)
    BY <1>1 DEF Frame, TypeOK
  <2> QED BY <1>2, <1>6, <2>1 DEF ReachInv, BidInv, Counted, Anchored
<1> QED BY <1>5, <1>7, <1>8 DEF ReachInv

\* A verdict finds the lane at rest, or the attempt it belongs to.
LEMMA ReadBackReach ==
  ASSUME TypeOK, ReachInv, ReadBack
  PROVE  /\ ReachInv' /\ launched' = launched
         /\ desire.state = "active" /\ db.pending # NoCorr => answer.corr = db.pending
<1>1. PICK late \in BOOLEAN, cost \in Costs, gain \in {0, 1} :
        Frame(FALSE, answer.seen, answer.verdict, late, FALSE, cost, gain)
  BY DEF ReadBack
<1>2. answer # NoAnswer /\ answer' = NoAnswer /\ UNCHANGED <<loop, turns, bids>>
  BY DEF ReadBack
<1>3. answer.seen \in Corrs /\ answer.verdict \in {"sent", "silent"}
  BY <1>2 DEF TypeOK, Answers
<1>4. Composing /\ ~Launches(cost)
  BY <1>2, ComposingHolds DEF Composing, Launches
<1>5. /\ launched' = launched
      /\ db'.pending = db.pending \/ db'.pending = NoCorr
      /\ desire.state = "none" => desire'.state = "none"
      /\ db.unanswered # 0 =>
           db'.unanswered # 0 /\ (desire'.spring = "drive" => desire.spring = "drive")
      /\ desire.state # "none" =>
           \/ desire' = desire /\ db'.pending = db.pending
           \/ /\ desire' = Quiet
              /\ answer.verdict = "sent" /\ desire.spring = "drive" => db'.unanswered # 0
  <2>1. PICK seen \in Corrs, verdict \in Verdicts :
          /\ verdict = answer.verdict
          /\ Frame(FALSE, seen, verdict, late, FALSE, cost, gain)
    BY <1>1, <1>3 DEF Verdicts
  <2>2. /\ ~Launches(cost) =>
             /\ launched' = launched
             /\ db'.pending = db.pending \/ db'.pending = NoCorr
        /\ desire.state = "none" => desire'.state = "none"
        /\ db.unanswered # 0 =>
             db'.unanswered # 0 /\ (desire'.spring = "drive" => desire.spring = "drive")
        /\ desire.state # "none" =>
             \/ desire' = desire /\ (Launches(cost) \/ db'.pending = db.pending)
             \/ /\ desire' = Quiet
                /\ verdict = "sent" /\ desire.spring = "drive" => db'.unanswered # 0
    <3>1. FALSE \in BOOLEAN
      OBVIOUS
    <3> QED BY <2>1, <3>1, FrameReach, ZenonT(120)
  <2> QED BY <1>4, <2>1, <2>2
<1>6. /\ Voided' => Voided
      /\ Live' => Live /\ turns # <<>>
      /\ Live => turns = <<>> /\ ~Composing'
  <2>1. turns = <<>> => DOMAIN turns = {}
    OBVIOUS
  <2> QED BY <1>2, <2>1 DEF Voided, Live, Composing, ReachInv, LiveInv
<1>7. VoidInv' /\ LiveInv'
  BY <1>2, <1>5, <1>6 DEF ReachInv, VoidInv, LiveInv
<1>8. loop.at # "dispatch"
  BY <1>4 DEF ReachInv, SoleInv
<1>9. BidInv'
  <2> SUFFICES ASSUME bids # 0 PROVE Counted' \/ Anchored'
    BY <1>2 DEF BidInv
  <2>1. CASE Bidding
    <3>1. /\ Live /\ desire.state = "active" /\ db.pending # NoCorr /\ ~Composing'
          /\ loop.at = "tail" => loop.row.pending # NoCorr
      BY <1>6, <2>1 DEF Bidding, Live, ReachInv, LiveInv
    <3>2. CASE desire' = desire /\ db'.pending = db.pending
      BY <1>2, <1>8, <3>1, <3>2 DEF Anchored
    <3>3. CASE desire' = Quiet
               /\ (answer.verdict = "sent" /\ desire.spring = "drive" => db'.unanswered # 0)
      BY <1>2, <1>8, <2>1, <3>1, <3>3 DEF Bidding, Counted, Quiet
    <3> QED BY <1>5, <3>1, <3>2, <3>3
  <2>2. CASE Counted
    BY <1>2, <1>4, <1>5, <1>8, <2>2 DEF Counted
  <2> QED BY <1>2, <1>4, <2>1, <2>2 DEF ReachInv, BidInv, Anchored
<1>10. desire.state = "active" /\ db.pending # NoCorr => answer.corr = db.pending
  BY <1>2, <1>4, ComposingHolds DEF ReachInv, VoidInv, LiveInv
<1> QED BY <1>2, <1>5, <1>7, <1>8, <1>9, <1>10 DEF ReachInv, SoleInv

\* A rollback happens while nothing composes and keeps the unanswered count.
LEMMA RollbackReach ==
  ASSUME TypeOK, ReachInv, loop.at = "dispatch", NEW defer \in BOOLEAN, Rollback(defer)
  PROVE  ReachInv'
<1>1. loop.row \in Rows
  BY LoopShapes DEF TypeOK
<1>2. db'.unanswered = loop.row.unanswered
  BY <1>1 DEF Rollback, Rows
<1>3. UNCHANGED <<turns, answer, bids>> /\ desire'.spring = desire.spring
  <2>1. desire \in Desires
    BY DEF TypeOK
  <2> QED BY <2>1 DEF Rollback, Desires, Quiet
<1>4. loop' = Idle \/ loop' = [at |-> "tail", row |-> db']
  BY DEF Rollback, AfterDispatch
<1>5. ~Composing /\ ~Composing'
  BY <1>3 DEF ReachInv, SoleInv, Composing
<1>6. ~Voided' /\ ~Live'
  <2>1. turns = <<>> /\ answer = NoAnswer /\ DOMAIN turns = {}
    BY <1>5 DEF Composing
  <2> QED BY <1>3, <2>1 DEF Voided, Live
<1>7. VoidInv' /\ LiveInv' /\ SoleInv'
  BY <1>4, <1>6 DEF VoidInv, LiveInv, SoleInv, Idle
<1>8. BidInv'
  BY <1>2, <1>3, <1>4, <1>5 DEF ReachInv, BidInv, Bidding, Counted, Anchored, Composing, Idle
<1> QED BY <1>7, <1>8 DEF ReachInv

\* The turn handed over is the only one, and the anchor names it.
LEMMA DeliveredReach == ASSUME TypeOK, ReachInv, Delivered PROVE ReachInv'
<1> DEFINE turn == [corr |-> loop.corr, spring |-> loop.spring, voided |-> FALSE]
<1>1. /\ loop.at = "dispatch" /\ turns' = Append(turns, turn)
      /\ loop' = Idle \/ loop' = [at |-> "tail", row |-> loop.row]
      /\ UNCHANGED <<db, desire, answer, bids>>
  BY DEF Delivered, AfterDispatch
<1>2. /\ turns = <<>> /\ answer = NoAnswer /\ desire.state = "active"
      /\ desire.spring = loop.spring /\ db.pending = loop.corr
      /\ loop.row.pending = loop.corr /\ loop.corr # NoCorr
  BY <1>1 DEF ReachInv, SoleInv, Composing
<1>3. /\ Len(turns') = 1 /\ DOMAIN turns' = {1}
      /\ turns'[1].corr = loop.corr /\ turns'[1].spring = loop.spring
      /\ turns'[1].voided = FALSE
  <2>1. turns' = <<turn>>
    BY <1>1, <1>2
  <2> QED BY <2>1
<1>4. ~Voided'
  BY <1>1, <1>2, <1>3 DEF Voided
<1>5. VoidInv' /\ LiveInv' /\ SoleInv'
  BY <1>1, <1>2, <1>3, <1>4 DEF VoidInv, LiveInv, SoleInv, Idle
<1>6. BidInv'
  BY <1>1, <1>2 DEF ReachInv, BidInv, Bidding, Counted, Anchored, Idle
<1> QED BY <1>5, <1>6 DEF ReachInv

\* The State a completion's tail brings back keeps the anchor or the count.
LEMMA CompletionTailReach == ASSUME TypeOK, ReachInv, CompletionTail PROVE ReachInv'
<1>1. /\ loop.at = "tail" /\ db' = loop.row /\ loop' = Idle
      /\ UNCHANGED <<desire, turns, answer, bids>>
  BY DEF CompletionTail
<1>2. Composing' = Composing /\ Voided' = Voided /\ Live' = Live
  BY <1>1 DEF Composing, Voided, Live
<1>3. VoidInv' /\ LiveInv' /\ SoleInv'
  BY <1>1, <1>2 DEF ReachInv, VoidInv, LiveInv, SoleInv, Idle
<1>4. BidInv'
  BY <1>1, <1>2 DEF ReachInv, BidInv, Bidding, Counted, Anchored, Idle
<1> QED BY <1>3, <1>4 DEF ReachInv

\* A turn that ends in a text of longing leaves its verdict to be read.
LEMMA TurnEndsReach ==
  ASSUME TypeOK, ReachInv, NEW verdict \in {"sent", "silent"}, TurnEnds(verdict)
  PROVE  ReachInv'
<1> DEFINE turn == turns[1]
<1>1. /\ turns # <<>> /\ answer = NoAnswer /\ turns' = Tail(turns)
      /\ UNCHANGED <<db, desire, loop, launched>>
  BY DEF TurnEnds
<1>2. /\ Len(turns) \in Nat \ {0} /\ DOMAIN turns = 1 .. Len(turns)
      /\ \A i \in DOMAIN turns' : i + 1 \in DOMAIN turns /\ turns'[i] = turns[i + 1]
      /\ Len(turns) <= 1 => turns' = <<>>
  BY <1>1, TurnTaken
<1>3. Head(turns) = turn /\ 1 \in DOMAIN turns
  BY <1>2
<1>4. /\ answer' = IF db.pending # NoCorr /\ desire.state = "active"
                     THEN [corr |-> turn.corr, seen |-> db.pending,
                           verdict |-> verdict, voided |-> turn.voided]
                     ELSE NoAnswer
      /\ bids' = IF verdict = "sent" /\ turn.spring = "drive" /\ ~turn.voided
                   THEN bids + 1 ELSE bids
  BY <1>3 DEF TurnEnds
<1>5. turns' = <<>> => DOMAIN turns' = {}
  OBVIOUS
<1> HIDE DEF turn
<1>6. CASE turn.voided
  <2>1. Voided /\ bids' = bids /\ answer' = NoAnswer
    BY <1>3, <1>4, <1>6 DEF Voided, ReachInv, VoidInv, turn
  <2>2. ~Live'
    BY <1>2, <2>1 DEF Live, ReachInv, VoidInv
  <2>3. VoidInv' /\ LiveInv' /\ SoleInv'
    BY <1>1, <2>1, <2>2 DEF ReachInv, VoidInv, LiveInv, SoleInv
  <2>4. BidInv'
    BY <1>1, <2>1 DEF ReachInv, BidInv, Bidding, Counted, Anchored, Composing
  <2> QED BY <2>3, <2>4 DEF ReachInv
<1>7. CASE ~turn.voided
  <2>1. /\ Live /\ turns' = <<>> /\ desire.state = "active" /\ db.pending # NoCorr
        /\ loop.at # "dispatch" /\ turn.spring = desire.spring
        /\ turn.corr = db.pending
        /\ loop.at = "tail" => loop.row.pending = db.pending
    BY <1>2, <1>3, <1>7 DEF Live, ReachInv, LiveInv, turn
  <2>2. answer' = [corr |-> turn.corr, seen |-> db.pending,
                   verdict |-> verdict, voided |-> turn.voided]
    BY <1>4, <2>1
  <2>3. /\ answer'.corr = db.pending /\ ~answer'.voided /\ answer'.verdict = verdict
        /\ answer' # NoAnswer
    <3>1. "seen" \in DOMAIN answer' /\ "seen" \notin DOMAIN NoAnswer
      BY <2>2 DEF NoAnswer
    <3> QED BY <1>7, <2>1, <2>2, <3>1
  <2>4. ~Voided'
    BY <1>5, <2>1, <2>3 DEF Voided
  <2>5. Len(turns') = 0
    BY <2>1
  <2>6. VoidInv' /\ LiveInv' /\ SoleInv'
    <3>1. VoidInv' /\ SoleInv'
      BY <1>1, <2>1, <2>4 DEF VoidInv, SoleInv
    <3>2. Len(turns') <= 1
      BY <2>5
    <3>3. LiveInv'
      BY <1>1, <1>5, <2>1, <2>3, <3>2, Zenon DEF LiveInv
    <3> QED BY <3>1, <3>3
  <2>7. BidInv'
    BY <1>1, <1>4, <2>1, <2>3 DEF ReachInv, BidInv, Bidding, Counted, Anchored, Composing
  <2> QED BY <2>6, <2>7 DEF ReachInv
<1> QED BY <1>6, <1>7

LEMMA TurnLostReach == ASSUME TypeOK, ReachInv, TurnLost PROVE ReachInv'
<1>1. /\ turns # <<>> /\ turns' = Tail(turns)
      /\ UNCHANGED <<db, desire, loop, answer, bids>>
  BY DEF TurnLost
<1>2. /\ \A i \in DOMAIN turns' : i + 1 \in DOMAIN turns /\ turns'[i] = turns[i + 1]
      /\ Len(turns) <= 1 => turns' = <<>>
  BY <1>1, TurnTaken
<1>3. turns' = <<>> => DOMAIN turns' = {}
  OBVIOUS
<1>4. Composing /\ (Voided' => Voided)
  BY <1>1, <1>2 DEF Composing, Voided
<1>5. Live => ~Live'
  BY <1>1, <1>2, <1>3 DEF Live, ReachInv, LiveInv
<1>6. Live' => Live
  BY <1>1, <1>2 DEF Live
<1>7. VoidInv' /\ LiveInv' /\ SoleInv'
  BY <1>1, <1>4, <1>5, <1>6 DEF ReachInv, VoidInv, LiveInv, SoleInv
<1>8. BidInv'
  BY <1>1, <1>4 DEF ReachInv, BidInv, Bidding, Counted, Anchored
<1> QED BY <1>7, <1>8 DEF ReachInv

\* A birth and a crash leave the anchor and the count as they are.
LEMMA WriteSoulReach == ASSUME TypeOK, ReachInv, WriteSoul PROVE ReachInv'
<1>1. /\ db' = [db EXCEPT !.born = TRUE] /\ db \in Rows
      /\ UNCHANGED <<desire, loop, turns, answer, bids>>
  BY DEF WriteSoul, TypeOK
<1>2. db'.unanswered = db.unanswered /\ db'.pending = db.pending
  BY <1>1 DEF Rows
<1> QED BY <1>1, <1>2 DEF ReachInv, VoidInv, LiveInv, SoleInv, BidInv, Voided, Live,
                          Bidding, Counted, Anchored, Composing

LEMMA CrashReach == ASSUME TypeOK, ReachInv, Crash PROVE ReachInv'
<1>1. /\ loop' = Idle /\ turns' = <<>> /\ answer' = NoAnswer
      /\ UNCHANGED <<db, desire, bids>>
  BY DEF Crash
<1>2. ~Composing' /\ ~Voided' /\ ~Live'
  <2>1. DOMAIN turns' = {}
    BY <1>1
  <2> QED BY <1>1, <2>1 DEF Composing, Voided, Live
<1>3. VoidInv' /\ LiveInv' /\ SoleInv'
  BY <1>1, <1>2 DEF VoidInv, LiveInv, SoleInv, Idle
<1>4. Bidding => db.pending # NoCorr
  BY DEF Bidding, Live, ReachInv, LiveInv
<1>5. BidInv'
  BY <1>1, <1>2, <1>4 DEF ReachInv, BidInv, Counted, Anchored, Idle
<1> QED BY <1>3, <1>5 DEF ReachInv

\* One step keeps the invariant, launches no second longing and gives its
\* verdict to no other attempt.
OwnVerdictStep ==
  answer # NoAnswer /\ answer' = NoAnswer /\ desire.state = "active"
    /\ desire'.state = "none" /\ db.pending # NoCorr
    => answer.corr = db.pending
NoSecondBidStep == launched' > launched /\ desire.spring = "drive" => bids = 0

LEMMA StepReach ==
  ~SlowTurns => (TypeOK /\ ReachInv /\ [Next]_vars => ReachInv' /\ NoSecondBidStep /\ OwnVerdictStep)
<1> SUFFICES ASSUME ~SlowTurns, TypeOK, ReachInv, [Next]_vars
             PROVE  ReachInv' /\ NoSecondBidStep /\ OwnVerdictStep
  OBVIOUS
<1> USE DEF NoSecondBidStep, OwnVerdictStep
<1>0. launched \in Nat /\ ~(launched > launched)
  BY DEF TypeOK
<1>1. CASE Heartbeat \/ Completion
  <2>1. answer' = answer
    BY <1>1 DEF Heartbeat, Completion, LoopFrame
  <2> QED BY <1>1, <2>1, LoopFrameReach DEF Heartbeat, Completion
<1>2. CASE Dispatch
  <2>1. ReachInv'
    <3>1. CASE BackstopHolds \/ NotDelivered
      BY <3>1, RollbackReach DEF BackstopHolds, NotDelivered
    <3> QED BY <1>2, <3>1, DeliveredReach DEF Dispatch
  <2>2. UNCHANGED <<launched, answer>>
    BY <1>2 DEF Dispatch, BackstopHolds, NotDelivered, Delivered, Rollback
  <2> QED BY <1>0, <2>1, <2>2
<1>3. CASE UNCHANGED vars
  <2>1. ReachInv'
    BY <1>3 DEF vars, ReachInv, VoidInv, LiveInv, SoleInv, BidInv, Voided, Live, Bidding,
                Counted, Anchored, Composing
  <2> QED BY <1>0, <1>3, <2>1 DEF vars
<1>4. CASE Inbound
  BY <1>4, InboundReach
<1>5. CASE RepeatedInbound
  <2>1. answer' = answer
    BY <1>5 DEF RepeatedInbound
  <2> QED BY <1>5, <2>1, RepeatedInboundReach
<1>6. CASE ReadBack
  BY <1>0, <1>6, ReadBackReach
<1>7. CASE \E verdict \in {"sent", "silent"} : TurnEnds(verdict)
  <2>1. answer = NoAnswer /\ launched' = launched
    BY <1>7 DEF TurnEnds
  <2> QED BY <1>0, <1>7, <2>1, TurnEndsReach
<1>8. CASE CompletionTail \/ WriteSoul \/ TurnLost \/ Crash
  <2>1. launched' = launched /\ (answer' = answer \/ desire' = desire)
    BY <1>8 DEF CompletionTail, WriteSoul, TurnLost, Crash
  <2>2. ReachInv'
    BY <1>8, CompletionTailReach, WriteSoulReach, TurnLostReach, CrashReach
  <2> QED BY <1>0, <2>1, <2>2
<1> QED BY <1>1, <1>2, <1>3, <1>4, <1>5, <1>6, <1>7, <1>8 DEF Next

\* No longing is launched after one the human has not answered, across holds,
\* retries, late verdicts, lost turns, a completion's stale commit and
\* restarts, provided that an own turn does not outlive the contact that voids
\* it by the silence window.
THEOREM NeverBidsTwice == ~SlowTurns => (Spec => NoSecondBid)
<1> SUFFICES ASSUME ~SlowTurns PROVE Spec => NoSecondBid
  OBVIOUS
<1>1. TypeOK /\ ReachInv /\ [Next]_vars => ReachInv'
  BY StepReach
<1>2. TypeOK /\ ReachInv /\ [Next]_vars
        => [launched' > launched /\ desire.spring = "drive" => bids = 0]_vars
  BY StepReach DEF NoSecondBidStep
<1> QED BY InitReach, LaneTypeCorrect, <1>1, <1>2, PTL DEF Spec, NoSecondBid

\* A verdict resolves only the attempt whose turn it came from, under the same
\* proviso: post_llm hands over the pending id that it read, not its turn's.
THEOREM OwnVerdict == ~SlowTurns => (Spec => VerdictMatches)
<1> SUFFICES ASSUME ~SlowTurns PROVE Spec => VerdictMatches
  OBVIOUS
<1>1. TypeOK /\ ReachInv /\ [Next]_vars => ReachInv'
  BY StepReach
<1>2. TypeOK /\ ReachInv /\ [Next]_vars
        => [answer # NoAnswer /\ answer' = NoAnswer /\ desire.state = "active"
            /\ desire'.state = "none" /\ db.pending # NoCorr
            => answer.corr = db.pending]_vars
  BY StepReach DEF OwnVerdictStep
<1> QED BY InitReach, LaneTypeCorrect, <1>1, <1>2, PTL DEF Spec, VerdictMatches
=============================================================================
