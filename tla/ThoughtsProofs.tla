--------------------------- MODULE ThoughtsProofs ---------------------------
(***************************************************************************)
(* Thoughts for any number of thoughts, any bounds on parking and on       *)
(* unusable answers, and any snapshot limit: the types, the bound on the   *)
(* answers a thought gets, that passes are about active thoughts, that a   *)
(* retired thought stays retired and that a commitment lands whole.        *)
(***************************************************************************)
EXTENDS Thoughts, TLAPS

-----------------------------------------------------------------------------
(* Types. *)

LEMMA InitTypes == Init => TypeOK
<1> SUFFICES ASSUME Init PROVE TypeOK
  OBVIOUS
<1> USE ThoughtsAssumption
<1>1. row \in [All -> Rows] /\ judged \in [All -> Nat] /\ wasted \in [All -> Nat]
  BY DEF Init, Rows
<1>2. NoVerdict \in Verdicts /\ None \in Passes
  BY DEF Verdicts, None, Passes
<1>3. frame \in [kind : {"none", "event", "heartbeat", "completion"},
                rearm : SUBSET All, seeds : SUBSET All, verdict : Verdicts,
                launch : Passes]
  BY <1>2 DEF Init, NoFrame
<1>4. trouble \in 0 .. MaxTrouble
  BY DEF Init
<1>7. dead \in BOOLEAN
  BY Zenon DEF Init
<1>5. pending \in Passes /\ queued \in Passes
  BY <1>2 DEF Init
<1>6. due \subseteq In("parked") /\ newer \subseteq All \X All /\ owed \subseteq All
  BY DEF Init
<1> QED BY <1>1, <1>3, <1>4, <1>5, <1>6, <1>7 DEF TypeOK

\* What an answer makes of an active record.
LEMMA DecidedTypes ==
  ASSUME NEW r \in Rows, r.state = "active",
         NEW outcome \in Outcomes \ {"transient"}
  PROVE  Decided(r, outcome) \in Rows
<1> USE ThoughtsAssumption
<1>1. r.park \in 0 .. MaxParkCycles /\ r.np \in Nat
  BY DEF Rows, Absent, Over, Retired
<1>2. \A s \in Retired : Over(s) \in Rows
  BY DEF Rows
<1>3. \A bad \in BOOLEAN : ParkOrTerminate(r, bad) \in Rows
  <2> TAKE bad \in BOOLEAN
  <2> DEFINE np == r.np + IF bad THEN 1 ELSE 0
  <2>1. np \in Nat
    BY <1>1
  <2>2. ~(r.park + 1 > MaxParkCycles) =>
          [state |-> "parked", park |-> r.park + 1, np |-> np] \in Rows
    BY <1>1, <2>1 DEF Rows
  <2> QED BY <1>2, <2>2 DEF ParkOrTerminate, Retired
<1>4. outcome \in {"resolve", "crystallize", "drop", "park", "malformed"}
  BY DEF Outcomes
<1>5. CASE outcome \in {"resolve", "crystallize"}
  BY <1>2, <1>5 DEF Decided, Retired
<1>6. CASE outcome = "drop"
  BY <1>2, <1>6 DEF Decided, Retired
<1>7. CASE outcome = "park"
  BY <1>3, <1>7 DEF Decided
<1>8. CASE outcome = "malformed"
  BY <1>3, <1>8 DEF Decided
<1> QED BY <1>4, <1>5, <1>6, <1>7, <1>8

LEMMA VerdictTypes ==
  ASSUME TypeOK, NEW outcome \in Outcomes, pending \in All
  PROVE  Verdict(outcome) \in Verdicts
<1>1. CASE outcome = "transient" \/ pending \notin Actives
  BY <1>1 DEF Verdict, Verdicts
<1>2. CASE ~(outcome = "transient" \/ pending \notin Actives)
  <2>1. row[pending] \in Rows /\ row[pending].state = "active"
    BY <1>2 DEF TypeOK, Actives, Seen, In
  <2>2. Decided(row[pending], outcome) \in Rows
    BY <1>2, <2>1, DecidedTypes
  <2> QED BY <1>2, <2>2 DEF Verdict, Verdicts
<1> QED BY <1>1, <1>2

\* A new life and an empty one.
LEMMA FreshTypes == Born \in Rows /\ Absent \in Rows
  BY ThoughtsAssumption DEF Born, Absent, Rows

LEMMA BeginTypes ==
  ASSUME TypeOK, NEW t \in All, Begins(t)
  PROVE  /\ row' \in [All -> Rows] /\ due' \subseteq In("parked")'
         /\ newer' \subseteq All \X All
         /\ judged' \in [All -> Nat] /\ wasted' \in [All -> Nat]
  BY FreshTypes DEF TypeOK, Begins, Touch, In, All

\* A commit that applies leaves well-typed records.
LEMMA CommitTypes ==
  ASSUME TypeOK, FrameCommits
  PROVE  /\ row' \in [All -> Rows] /\ due' \subseteq In("parked")'
         /\ newer' \subseteq All \X All /\ owed' \subseteq All
         /\ judged' \in [All -> Nat] /\ wasted' \in [All -> Nat]
<1> USE ThoughtsAssumption
<1>1. Subject \subseteq All /\ \A t \in Subject : frame.verdict.row \in Rows
  BY DEF TypeOK, Subject, Verdicts, NoVerdict
<1>2. \A t \in frame.rearm : row[t].state = "parked"
  BY DEF FrameCommits, Applies
<1>3. \A t \in All : row[t].state = "parked" => Rearmed(row[t]) \in Rows
  <2> SUFFICES ASSUME NEW t \in All, row[t].state = "parked"
               PROVE  Rearmed(row[t]) \in Rows
    OBVIOUS
  <2>1. row[t] \in [state : {"active", "parked"}, park : 0 .. MaxParkCycles, np : Nat]
    BY DEF TypeOK, Rows, Absent, Over, Retired
  <2> QED BY <2>1 DEF Rearmed, Rows
<1>4. row' \in [All -> Rows]
  BY <1>1, <1>2, <1>3, FreshTypes DEF FrameCommits, TypeOK
<1>5. due' \subseteq In("parked")'
  BY <1>1 DEF FrameCommits, TypeOK, In
<1>6. newer' \subseteq All \X All
  BY DEF FrameCommits, Touch
<1>7. owed' \subseteq All
  BY <1>1 DEF FrameCommits, TypeOK, Owes
<1>8. Wasted \in Nat
  BY DEF Wasted
<1> QED BY <1>4, <1>5, <1>6, <1>7, <1>8 DEF FrameCommits, TypeOK

LEMMA StepTypes == TypeOK /\ [Next]_vars => TypeOK'
<1> SUFFICES ASSUME TypeOK, [Next]_vars PROVE TypeOK'
  OBVIOUS
<1> USE ThoughtsAssumption
<1> DEFINE Frames == [kind : {"none", "event", "heartbeat", "completion"},
                      rearm : SUBSET All, seeds : SUBSET All,
                      verdict : Verdicts, launch : Passes]
<1>r. Rearm \in SUBSET All /\ NoVerdict \in Verdicts /\ None \in Passes
  BY DEF Rearm, Seen, In, Verdicts, None, Passes
<1>n. NoFrame \in Frames
  BY <1>r DEF NoFrame
<1>1. CASE UNCHANGED vars
  BY <1>1 DEF vars, TypeOK, In
<1>2. CASE EventFrame
  <2>1. frame' \in Frames
    BY <1>2, <1>r DEF EventFrame, Frame
  <2> QED BY <1>2, <2>1 DEF EventFrame, TypeOK, In
<1>3. ASSUME NEW open \in BOOLEAN, NEW notice \in BOOLEAN, Heartbeat(open, notice)
      PROVE  TypeOK'
  <2>1. Picks(open, notice) \subseteq Passes
    BY DEF Picks, MostSalient, Actives, Seen, In, None, Notice, Passes, All
  <2>2. frame' \in Frames
    BY <1>3, <1>r, <2>1 DEF Heartbeat, Frame
  <2> QED BY <1>3, <2>2 DEF Heartbeat, TypeOK, In
<1>4. ASSUME NEW outcome \in Outcomes, Completes(outcome) PROVE TypeOK'
  <2>1. Verdict(outcome) \in Verdicts
    BY <1>4, VerdictTypes DEF Completes
  <2>2. frame' \in Frames
    BY <1>4, <1>r, <2>1 DEF Completes, Frame
  <2>3. trouble' \in 0 .. MaxTrouble
    BY <1>4 DEF Completes, Trouble, TypeOK
  <2> QED BY <1>4, <2>2, <2>3 DEF Completes, TypeOK, In
<1>5. ASSUME NEW S \in SUBSET All, Notices(S) PROVE TypeOK'
  <2>1. frame' \in Frames
    BY <1>5, <1>r DEF Notices, Frame, NewSeeds
  <2> QED BY <1>5, <2>1 DEF Notices, TypeOK, In
<1>6. CASE FrameCommits
  <2>1. pending' \in Passes /\ queued' \in Passes
    BY <1>6, <1>r DEF FrameCommits, Pending, TypeOK
  <2> QED BY <1>6, <1>n, <2>1, CommitTypes DEF FrameCommits, TypeOK
<1>7. CASE FrameRaises
  <2>1. pending' \in Passes /\ dead' \in BOOLEAN
    BY <1>7, <1>r DEF FrameRaises, Pending, TypeOK
  <2>2. trouble' \in 0 .. MaxTrouble
    BY <1>7 DEF FrameRaises, Trouble, TypeOK
  <2> QED BY <1>7, <1>n, <2>1, <2>2 DEF FrameRaises, TypeOK, In
<1>8. CASE Launch
  BY <1>8, <1>r DEF Launch, TypeOK, In
<1>9. ASSUME NEW t \in All, Capture(t) PROVE TypeOK'
  BY <1>9, BeginTypes DEF Capture, TypeOK
<1>10. ASSUME NEW t \in All, Think(t) PROVE TypeOK'
  <2>1. trouble' \in 0 .. MaxTrouble
    BY <1>10 DEF Think, Trouble, TypeOK
  <2> QED BY <1>10, <2>1, BeginTypes DEF Think, TypeOK
<1>11. ASSUME NEW t \in All, BecomesDue(t) PROVE TypeOK'
  BY <1>11 DEF BecomesDue, TypeOK, In
<1>12. CASE Reset
  <2>1. trouble' \in 0 .. MaxTrouble
    BY <1>12 DEF Reset, Trouble, TypeOK
  <2> QED BY <1>12, <1>r, <2>1, FreshTypes DEF Reset, TypeOK, In
<1>13. CASE Crash
  <2>1. trouble' \in 0 .. MaxTrouble
    BY <1>13 DEF Crash, Trouble, TypeOK
  <2> QED BY <1>13, <1>r, <1>n, <2>1 DEF Crash, TypeOK, In
<1> QED BY <1>1, <1>2, <1>3, <1>4, <1>5, <1>6, <1>7, <1>8, <1>9, <1>10, <1>11,
           <1>12, <1>13 DEF Next

\* Every reachable state of the thoughts, the frame and the pass is well typed;
\* in it a live record is within the bound on parking.
THEOREM ThoughtsTypeCorrect == Spec => []TypeOK
  BY InitTypes, StepTypes, PTL DEF Spec

-----------------------------------------------------------------------------
(* Invariants. *)

\* The counters of a live thought cover the answers of this life.
CountInv ==
  \A t \in All : Live(t) => /\ judged[t] <= row[t].park /\ wasted[t] <= row[t].np
                            /\ row[t].np < MaxNoProgress

\* A verdict that waits for its commit: room for it is left, whatever the
\* owner's commands do meanwhile, and it takes its thought out of the active.
VerdictInv ==
  frame.verdict # NoVerdict =>
    LET v == frame.verdict
    IN /\ frame.kind = "completion" /\ queued = None
       /\ judged[v.id] <= MaxParkCycles /\ wasted[v.id] < MaxNoProgress
       /\ v.row.state \in Retired \cup {"parked"}
       /\ v.row.state = "parked" =>
            /\ judged[v.id] + 1 <= v.row.park /\ wasted[v.id] + Wasted <= v.row.np
            /\ v.row.np < MaxNoProgress
       /\ v.answer = "crystallize" => v.row.state = "resolved"

\* What a frame will launch or seed is still what it saw, or has been wiped or
\* thought anew.
FrameInv ==
  /\ frame.kind = "heartbeat" /\ frame.launch \in All =>
       row[frame.launch].state \in {"active", "absent"}
  /\ \A t \in frame.seeds : row[t].state \in {"active", "absent"}

ThoughtsInv == TypeOK /\ CountInv /\ VerdictInv /\ FrameInv /\ Chewed /\ SubjectAwake

LEMMA InitInv == Init => ThoughtsInv
<1> SUFFICES ASSUME Init PROVE ThoughtsInv
  OBVIOUS
<1> USE ThoughtsAssumption
<1>1. TypeOK
  BY InitTypes
<1>2. \A t \in All : judged[t] = 0 /\ wasted[t] = 0 /\ row[t].state = "absent"
  BY DEF Init, Absent
<1>3. CountInv /\ Chewed /\ SubjectAwake
  BY <1>2 DEF CountInv, Chewed, SubjectAwake, Live
<1>4. frame.verdict = NoVerdict /\ frame.kind = "none" /\ frame.seeds = {}
  BY DEF Init, NoFrame
<1>5. VerdictInv /\ FrameInv
  BY <1>4 DEF VerdictInv, FrameInv
<1> QED BY <1>1, <1>3, <1>5 DEF ThoughtsInv

\* An answer to an active thought counts, and its bounds leave room for it.
LEMMA DecidedCounts ==
  ASSUME TypeOK, CountInv, NEW t \in All, row[t].state = "active",
         NEW outcome \in Outcomes \ {"transient"}
  PROVE  LET r == Decided(row[t], outcome)
         IN /\ judged[t] <= MaxParkCycles /\ wasted[t] < MaxNoProgress
            /\ r.state \in Retired \cup {"parked"}
            /\ r.state = "parked" =>
                 /\ judged[t] + 1 <= r.park /\ r.np < MaxNoProgress
                 /\ wasted[t] + (IF outcome = "malformed" THEN 1 ELSE 0) <= r.np
            /\ outcome = "crystallize" => r.state = "resolved"
<1> USE ThoughtsAssumption
<1>1. /\ row[t].park \in 0 .. MaxParkCycles /\ row[t].np \in Nat
      /\ judged[t] \in Nat /\ wasted[t] \in Nat
  BY DEF TypeOK, Rows, Absent, Over, Retired
<1>2. judged[t] <= row[t].park /\ wasted[t] <= row[t].np /\ row[t].np < MaxNoProgress
  BY DEF CountInv, Live
<1>3. \A s \in Retired : Over(s).state = s
  BY DEF Over
<1>4. ASSUME NEW bad \in BOOLEAN
      PROVE  LET r == ParkOrTerminate(row[t], bad)
             IN /\ r.state \in Retired \cup {"parked"}
                /\ r.state = "parked" =>
                     /\ judged[t] + 1 <= r.park /\ r.np < MaxNoProgress
                     /\ wasted[t] + (IF bad THEN 1 ELSE 0) <= r.np
  <2> DEFINE np == row[t].np + IF bad THEN 1 ELSE 0
             r  == ParkOrTerminate(row[t], bad)
  <2>1. CASE bad /\ np >= MaxNoProgress
    <3>1. r = Over("dropped")
      BY <2>1 DEF ParkOrTerminate
    <3> QED BY <1>3, <3>1 DEF Retired
  <2>2. CASE ~(bad /\ np >= MaxNoProgress) /\ row[t].park + 1 > MaxParkCycles
    <3>1. r = Over("expired")
      BY <2>2 DEF ParkOrTerminate
    <3> QED BY <1>3, <3>1 DEF Retired
  <2>3. CASE ~(bad /\ np >= MaxNoProgress) /\ ~(row[t].park + 1 > MaxParkCycles)
    <3>1. r = [state |-> "parked", park |-> row[t].park + 1, np |-> np]
      BY <2>3 DEF ParkOrTerminate
    <3> QED BY <1>1, <1>2, <2>3, <3>1
  <2> QED BY <2>1, <2>2, <2>3
<1>5. outcome \in {"resolve", "crystallize", "drop", "park", "malformed"}
  BY DEF Outcomes
<1>6. judged[t] <= MaxParkCycles /\ wasted[t] < MaxNoProgress
  BY <1>1, <1>2
<1>7. CASE outcome \in {"resolve", "crystallize"}
  BY <1>3, <1>6, <1>7 DEF Decided, Retired
<1>8. CASE outcome = "drop"
  BY <1>3, <1>6, <1>8 DEF Decided, Retired
<1>9. CASE outcome = "park"
  BY <1>4, <1>6, <1>9 DEF Decided
<1>10. CASE outcome = "malformed"
  BY <1>4, <1>6, <1>10 DEF Decided
<1> QED BY <1>5, <1>7, <1>8, <1>9, <1>10

\* A new life of a thought outside a commit disturbs nothing.
LEMMA BeginInv ==
  ASSUME ThoughtsInv, TypeOK', NEW t \in All, Begins(t),
         UNCHANGED <<pending, queued, frame>>
  PROVE  ThoughtsInv'
<1> USE ThoughtsAssumption
<1>1. /\ row'[t] = Born /\ judged'[t] = 0 /\ wasted'[t] = 0
      /\ \A u \in All \ {t} : /\ row'[u] = row[u] /\ judged'[u] = judged[u]
                              /\ wasted'[u] = wasted[u]
  BY DEF Begins, ThoughtsInv, TypeOK
<1>2. Born.state = "active" /\ Born.park = 0 /\ Born.np = 0
  BY DEF Born
<1>3. CountInv' /\ Chewed'
  BY <1>1, <1>2 DEF ThoughtsInv, CountInv, Chewed, Live
<1>4. SubjectAwake' /\ FrameInv'
  BY <1>1, <1>2 DEF ThoughtsInv, SubjectAwake, FrameInv, TypeOK
<1>5. VerdictInv'
  <2> SUFFICES ASSUME frame.verdict # NoVerdict PROVE VerdictInv'
    BY DEF VerdictInv
  <2>1. frame.verdict.id \in All /\ frame.verdict.row \in Rows
    BY DEF ThoughtsInv, TypeOK, Verdicts
  <2>2. /\ judged'[frame.verdict.id] \in Nat /\ wasted'[frame.verdict.id] \in Nat
        /\ judged[frame.verdict.id] \in Nat /\ wasted[frame.verdict.id] \in Nat
    BY <2>1 DEF ThoughtsInv, TypeOK
  <2>3. /\ judged'[frame.verdict.id] <= judged[frame.verdict.id]
        /\ wasted'[frame.verdict.id] <= wasted[frame.verdict.id]
    BY <1>1, <2>1, <2>2
  <2>4. Wasted' = Wasted /\ Wasted \in Nat
    BY DEF Wasted
  <2>5. frame.verdict.row.park \in Nat /\ frame.verdict.row.np \in Nat
    BY <2>1 DEF Rows, Absent, Over
  <2> QED BY <2>2, <2>3, <2>4, <2>5 DEF ThoughtsInv, VerdictInv
<1> QED BY <1>3, <1>4, <1>5 DEF ThoughtsInv

\* A commit that applies.
LEMMA CommitInv == ASSUME ThoughtsInv, TypeOK', FrameCommits PROVE ThoughtsInv'
<1> USE ThoughtsAssumption
<1> DEFINE v == frame.verdict
<1>1. /\ row \in [All -> Rows] /\ row' \in [All -> Rows]
      /\ judged \in [All -> Nat] /\ wasted \in [All -> Nat]
  BY DEF ThoughtsInv, TypeOK
<1>2. ASSUME NEW t \in All
      PROVE  \/ /\ t \in Subject /\ row[t].state = "active" /\ row'[t] = v.row
                /\ judged'[t] = judged[t] + 1 /\ wasted'[t] = wasted[t] + Wasted
             \/ /\ row[t].state = "parked" /\ row'[t] = Rearmed(row[t])
                /\ judged'[t] = judged[t] /\ wasted'[t] = wasted[t]
             \/ /\ t \in frame.seeds /\ row'[t] = Born
                /\ judged'[t] = 0 /\ wasted'[t] = 0
             \/ /\ row'[t] = row[t] /\ judged'[t] = judged[t] /\ wasted'[t] = wasted[t]
             \/ /\ row[t].state = "parked" /\ row'[t] = Rearmed(row[t])
                /\ t \in frame.seeds
  BY DEF FrameCommits, Applies
<1>3. ASSUME NEW t \in Subject
      PROVE  /\ frame.verdict # NoVerdict /\ t = v.id
             /\ frame.kind = "completion" /\ queued = None
             /\ judged[t] <= MaxParkCycles /\ wasted[t] < MaxNoProgress
             /\ v.row.state \in Retired \cup {"parked"}
             /\ v.row.state = "parked" =>
                  /\ judged[t] + 1 <= v.row.park /\ wasted[t] + Wasted <= v.row.np
                  /\ v.row.np < MaxNoProgress
  BY DEF Subject, ThoughtsInv, VerdictInv
<1>4. \A t \in frame.seeds : row[t].state \in {"active", "absent"}
  BY DEF ThoughtsInv, FrameInv
<1>5. ASSUME NEW t \in All
      PROVE  row[t].state = "parked" =>
               /\ Rearmed(row[t]).state = "active"
               /\ Rearmed(row[t]).park = row[t].park /\ Rearmed(row[t]).np = row[t].np
  <2> SUFFICES ASSUME row[t].state = "parked"
               PROVE  /\ Rearmed(row[t]).state = "active"
                      /\ Rearmed(row[t]).park = row[t].park
                      /\ Rearmed(row[t]).np = row[t].np
    OBVIOUS
  <2>1. row[t] \in [state : {"active", "parked"}, park : 0 .. MaxParkCycles, np : Nat]
    BY <1>1 DEF Rows, Absent, Over, Retired
  <2> QED BY <2>1 DEF Rearmed
<1>6. Wasted \in {0, 1}
  BY DEF Wasted
<1>7. CountInv' /\ Chewed'
  <2> SUFFICES ASSUME NEW t \in All
               PROVE  /\ judged'[t] <= MaxParkCycles + 1 /\ wasted'[t] <= MaxNoProgress
                      /\ row'[t].state \in {"active", "parked"} =>
                           /\ judged'[t] <= row'[t].park /\ wasted'[t] <= row'[t].np
                           /\ row'[t].np < MaxNoProgress
    BY DEF CountInv, Chewed, Live
  <2>1. CASE t \in Subject
    <3>1. /\ row'[t] = v.row /\ judged'[t] = judged[t] + 1
          /\ wasted'[t] = wasted[t] + Wasted
      BY <2>1 DEF FrameCommits
    <3> QED BY <1>1, <1>3, <1>6, <2>1, <3>1 DEF Retired
  <2>2. CASE t \notin Subject /\ t \in frame.seeds
    <3>1. row'[t] = Born /\ judged'[t] = 0 /\ wasted'[t] = 0
      BY <1>2, <1>4, <2>2 DEF FrameCommits, Applies
    <3> QED BY <3>1 DEF Born
  <2>3. CASE t \notin Subject /\ t \notin frame.seeds
    <3>1. judged'[t] = judged[t] /\ wasted'[t] = wasted[t]
      BY <2>3 DEF FrameCommits
    <3>2. /\ judged[t] <= MaxParkCycles + 1 /\ wasted[t] <= MaxNoProgress
          /\ row[t].state \in {"active", "parked"} =>
               /\ judged[t] <= row[t].park /\ wasted[t] <= row[t].np
               /\ row[t].np < MaxNoProgress
      BY DEF ThoughtsInv, CountInv, Chewed, Live
    <3>3. CASE row'[t] = row[t]
      BY <3>1, <3>2, <3>3
    <3>4. CASE row[t].state = "parked" /\ row'[t] = Rearmed(row[t])
      BY <1>5, <3>1, <3>2, <3>4
    <3> QED BY <1>2, <2>3, <3>3, <3>4
  <2> QED BY <2>1, <2>2, <2>3
<1>8. SubjectAwake'
  <2> SUFFICES ASSUME NEW t \in All, t \in {pending', queued'}
               PROVE  row'[t].state \in {"active", "absent"}
    BY DEF SubjectAwake
  <2>0. t # None
    BY DEF All, None
  <2>1. CASE Subject # {}
    <3>1. pending' = None /\ queued' = None
      BY <1>3, <2>1 DEF FrameCommits, Pending
    <3> QED BY <2>0, <3>1
  <2>2. CASE Subject = {}
    <3>1. row[t].state \in {"active", "absent"}
      BY <2>0 DEF FrameCommits, Pending, ThoughtsInv, SubjectAwake, FrameInv
    <3>2. row'[t] \in {row[t], Born}
      BY <1>2, <2>2, <3>1
    <3> QED BY <3>1, <3>2 DEF Born
  <2> QED BY <2>1, <2>2
<1>9. VerdictInv' /\ FrameInv'
  BY DEF FrameCommits, NoFrame, VerdictInv, FrameInv
<1> QED BY <1>7, <1>8, <1>9 DEF ThoughtsInv

LEMMA StepInv == ThoughtsInv /\ [Next]_vars => ThoughtsInv'
<1> SUFFICES ASSUME ThoughtsInv, [Next]_vars PROVE ThoughtsInv'
  OBVIOUS
<1> USE ThoughtsAssumption
<1>t. TypeOK'
  BY StepTypes DEF ThoughtsInv
<1>r. /\ NoFrame.verdict = NoVerdict /\ NoFrame.kind = "none" /\ NoFrame.seeds = {}
      /\ \A kind : Frame(kind) = [kind |-> kind, rearm |-> Rearm, seeds |-> {},
                                  verdict |-> NoVerdict, launch |-> None]
  BY DEF NoFrame, Frame
<1>n. \A t \in All : t # None /\ t # Notice
  BY DEF All, None, Notice
\* A step that leaves the records and the passes alone and begins a frame.
<1>f. ASSUME UNCHANGED <<row, pending, queued, judged, wasted>>
      PROVE  CountInv' /\ Chewed' /\ SubjectAwake'
  BY <1>f DEF ThoughtsInv, CountInv, Chewed, SubjectAwake, Live
<1>1. CASE UNCHANGED vars
  BY <1>1, <1>f, <1>t
  DEF vars, ThoughtsInv, VerdictInv, FrameInv, Wasted
<1>2. CASE EventFrame
  <2>1. VerdictInv' /\ FrameInv'
    BY <1>2, <1>r DEF EventFrame, VerdictInv, FrameInv
  <2> QED BY <1>2, <1>f, <1>t, <2>1 DEF EventFrame, ThoughtsInv
<1>3. ASSUME NEW open \in BOOLEAN, NEW notice \in BOOLEAN, Heartbeat(open, notice)
      PROVE  ThoughtsInv'
  <2>1. PICK pick \in Picks(open, notice) :
          frame' = [Frame("heartbeat") EXCEPT !.launch = pick]
    BY <1>3 DEF Heartbeat
  <2>2. pick \in All => row[pick].state = "active"
    BY <1>n DEF Picks, MostSalient, Actives, Seen, In
  <2>3. VerdictInv' /\ FrameInv'
    BY <1>3, <1>r, <2>1, <2>2 DEF Heartbeat, VerdictInv, FrameInv
  <2> QED BY <1>3, <1>f, <1>t, <2>3 DEF Heartbeat, ThoughtsInv
<1>4. ASSUME NEW outcome \in Outcomes, Completes(outcome) PROVE ThoughtsInv'
  <2>1. /\ frame'.verdict = Verdict(outcome) /\ frame'.kind = "completion"
        /\ frame'.seeds = {}
    BY <1>4, <1>r DEF Completes
  <2>2. FrameInv'
    BY <2>1 DEF FrameInv
  <2>3. CASE Verdict(outcome) = NoVerdict
    BY <1>4, <1>f, <1>t, <2>1, <2>2, <2>3 DEF Completes, VerdictInv, ThoughtsInv
  <2>4. CASE Verdict(outcome) # NoVerdict
    <3>1. /\ outcome # "transient" /\ pending \in All /\ row[pending].state = "active"
          /\ Verdict(outcome) =
               [id |-> pending, row |-> Decided(row[pending], outcome), answer |-> outcome]
      BY <1>4, <2>4 DEF Completes, Verdict, Actives, Seen, In
    <3>2. Wasted' = IF outcome = "malformed" THEN 1 ELSE 0
      BY <2>1, <3>1 DEF Wasted
    <3>3. VerdictInv'
      BY <1>4, <2>1, <3>1, <3>2, DecidedCounts DEF Completes, VerdictInv, ThoughtsInv
    <3> QED BY <1>4, <1>f, <1>t, <2>2, <3>3 DEF Completes, ThoughtsInv
  <2> QED BY <2>3, <2>4
<1>5. ASSUME NEW S \in SUBSET All, Notices(S) PROVE ThoughtsInv'
  <2>1. /\ frame'.verdict = NoVerdict /\ frame'.kind = "completion"
        /\ \A t \in frame'.seeds : row[t].state = "absent"
    BY <1>5, <1>r DEF Notices, NewSeeds, In
  <2>2. VerdictInv' /\ FrameInv'
    BY <1>5, <2>1 DEF Notices, VerdictInv, FrameInv
  <2> QED BY <1>5, <1>f, <1>t, <2>2 DEF Notices, ThoughtsInv
<1>6. CASE FrameCommits
  BY <1>6, <1>t, CommitInv
<1>7. CASE FrameRaises
  <2>1. VerdictInv' /\ FrameInv'
    BY <1>7, <1>r DEF FrameRaises, VerdictInv, FrameInv
  <2>2. SubjectAwake'
    BY <1>7, <1>n DEF FrameRaises, Pending, SubjectAwake, ThoughtsInv
  <2> QED BY <1>7, <1>t, <2>1, <2>2
          DEF FrameRaises, ThoughtsInv, CountInv, Chewed, Live
<1>8. CASE Launch
  <2>1. VerdictInv' /\ FrameInv'
    BY <1>8, <1>r DEF Launch, VerdictInv, FrameInv
  <2>2. SubjectAwake'
    BY <1>8, <1>n DEF Launch, SubjectAwake, ThoughtsInv
  <2> QED BY <1>8, <1>t, <2>1, <2>2 DEF Launch, ThoughtsInv, CountInv, Chewed, Live
<1>9. ASSUME NEW t \in All, Capture(t) PROVE ThoughtsInv'
  BY <1>9, <1>t, BeginInv DEF Capture
<1>10. ASSUME NEW t \in All, Think(t) PROVE ThoughtsInv'
  BY <1>10, <1>t, BeginInv DEF Think
<1>11. ASSUME NEW t \in All, BecomesDue(t) PROVE ThoughtsInv'
  BY <1>11, <1>f, <1>t DEF BecomesDue, ThoughtsInv, VerdictInv, FrameInv, Wasted
<1>12. CASE Reset
  <2>1. \A t \in All : /\ row'[t].state = "absent"
                       /\ judged'[t] = 0 /\ wasted'[t] = 0
    BY <1>12 DEF Reset, Absent
  <2>2. CountInv' /\ Chewed' /\ SubjectAwake'
    BY <2>1 DEF CountInv, Chewed, SubjectAwake, Live
  <2>3. FrameInv'
    BY <1>12, <2>1 DEF Reset, FrameInv, ThoughtsInv, TypeOK
  <2>4. VerdictInv'
    <3> SUFFICES ASSUME frame.verdict # NoVerdict PROVE VerdictInv'
      BY <1>12 DEF VerdictInv, Reset
    <3>1. frame.verdict.id \in All /\ frame.verdict.row \in Rows
      BY DEF ThoughtsInv, TypeOK, Verdicts
    <3>2. judged[frame.verdict.id] \in Nat /\ wasted[frame.verdict.id] \in Nat
      BY <3>1 DEF ThoughtsInv, TypeOK
    <3>3. Wasted' = Wasted /\ Wasted \in Nat
      BY <1>12 DEF Wasted, Reset
    <3>4. frame.verdict.row.park \in Nat /\ frame.verdict.row.np \in Nat
      BY <3>1 DEF Rows, Absent, Over
    <3> QED BY <1>12, <2>1, <3>1, <3>2, <3>3, <3>4 DEF Reset, ThoughtsInv, VerdictInv
  <2> QED BY <1>t, <2>2, <2>3, <2>4 DEF ThoughtsInv
<1>13. CASE Crash
  <2>1. VerdictInv' /\ FrameInv'
    BY <1>13, <1>r DEF Crash, VerdictInv, FrameInv
  <2>2. SubjectAwake'
    BY <1>13, <1>n DEF Crash, SubjectAwake
  <2> QED BY <1>13, <1>t, <2>1, <2>2 DEF Crash, ThoughtsInv, CountInv, Chewed, Live
<1> QED BY <1>1, <1>2, <1>3, <1>4, <1>5, <1>6, <1>7, <1>8, <1>9, <1>10, <1>11,
           <1>12, <1>13 DEF Next

LEMMA Invariance == Spec => []ThoughtsInv
  BY InitInv, StepInv, PTL DEF Spec

-----------------------------------------------------------------------------
(* Theorems. *)

\* A thought gets at most MaxParkCycles + 1 answers in a life and at most
\* MaxNoProgress unusable ones, for any bounds and any commands of the owner.
THEOREM ChewedBounded == Spec => []Chewed
<1>1. ThoughtsInv => Chewed
  BY DEF ThoughtsInv
<1> QED BY <1>1, Invariance, PTL

\* No pass is launched about, or runs for, a thought that rests or is retired.
THEOREM PassesAwake == Spec => []SubjectAwake
<1>1. ThoughtsInv => SubjectAwake
  BY DEF ThoughtsInv
<1> QED BY <1>1, Invariance, PTL

\* A retired thought comes back only by the owner's think or in a new being.
THEOREM RetiredStays == Spec => StaysRetired
<1>1. ASSUME ThoughtsInv, [Next]_vars, NEW t \in All, row[t].state \in Retired
      PROVE  row'[t] = row[t] \/ Think(t) \/ Reset
  <2>1. CASE FrameCommits
    <3>1. t \notin Subject /\ t \notin frame.rearm
      BY <1>1, <2>1 DEF FrameCommits, Applies, Retired
    <3>2. t \notin frame.seeds
      BY <1>1 DEF ThoughtsInv, FrameInv, Retired
    <3> QED BY <2>1, <3>1, <3>2 DEF FrameCommits
  <2>2. ASSUME NEW u \in All, Capture(u) PROVE row'[t] = row[t]
    <3>1. u # t
      BY <1>1, <2>2 DEF Capture, Retired
    <3> QED BY <2>2, <3>1 DEF Capture, Begins, ThoughtsInv, TypeOK
  <2>3. ASSUME NEW u \in All, Think(u) PROVE row'[t] = row[t] \/ Think(t)
    BY <1>1, <2>3 DEF Think, Begins, ThoughtsInv, TypeOK
  <2> QED BY <1>1, <2>1, <2>2, <2>3
          DEF Next, vars, EventFrame, Heartbeat, Completes, Notices, FrameRaises,
              Launch, BecomesDue, Crash
<1>2. ThoughtsInv /\ [Next]_vars =>
        [\A t \in All : row[t].state \in Retired =>
           row'[t] = row[t] \/ Think(t) \/ Reset]_vars
  BY <1>1
<1> QED BY <1>2, Invariance, PTL DEF Spec, StaysRetired

\* A commitment lands only with the verdict that retires its thought.
THEOREM CommitmentWhole == Spec => OwedWhole
<1>1. ASSUME ThoughtsInv, [Next]_vars, NEW t \in All, t \in owed' \ owed
      PROVE  row[t].state = "active" /\ row'[t].state = "resolved"
  <2>1. CASE FrameCommits
    <3>1. t \in Subject /\ frame.verdict.answer = "crystallize"
      BY <1>1, <2>1 DEF FrameCommits, Owes
    <3>2. frame.verdict # NoVerdict /\ frame.verdict.row.state = "resolved"
      BY <1>1, <3>1 DEF Subject, ThoughtsInv, VerdictInv
    <3> QED BY <2>1, <3>1, <3>2 DEF FrameCommits, Applies
  <2>2. CASE ~FrameCommits
    <3>1. owed' = owed \/ owed' = {}
      BY <1>1, <2>2
      DEF Next, vars, EventFrame, Heartbeat, Completes, Notices, FrameRaises,
          Launch, Capture, Think, BecomesDue, Reset, Crash
    <3> QED BY <1>1, <3>1
  <2> QED BY <2>1, <2>2
<1>2. ThoughtsInv /\ [Next]_vars =>
        [\A t \in All : t \in owed' \ owed =>
           row[t].state = "active" /\ row'[t].state = "resolved"]_vars
  BY <1>1
<1> QED BY <1>2, Invariance, PTL DEF Spec, OwedWhole

=============================================================================
