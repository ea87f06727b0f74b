---------------------------- MODULE ContactProofs ----------------------------
(***************************************************************************)
(* What passes between the being and its human, proved for any bounds:     *)
(* what it carries into its live turns (Ambient), what it takes in of what *)
(* the human says (Intake, as I), and when it may reach out (Pacing, as    *)
(* P).  The three share no variable.                                       *)
(***************************************************************************)
EXTENDS Ambient, FiniteSetTheorems, SequenceTheorems, WellFoundedInduction, TLAPS

CONSTANTS Ids, Ttl, IdCap, UMax, Beta, Threshold, MaxNow, MaxFaults,   \* of Intake
          Window, Backoff1, Growth, BackoffMax, Grace, Deadline, Day, MaxPerDay, Gap, Keep,
          LastNow, MaxLaunches                                        \* of Pacing

VARIABLES
  now, arrived, u, tickedAt, heardAt, born, failures, feltAt, since, numb, again, faults,
  clock, anchor, declinedAt, declines, actedAt, unanswered, log, pending, desire, composing,
  answer, launches, said

I == INSTANCE Intake WITH ring <- arrived
P == INSTANCE Pacing WITH now <- clock, MaxNow <- LastNow

\* A set has one size, whichever module counts it.
LEMMA OneSize ==
  /\ \A S : I!Cardinality(S) = Cardinality(S)
  /\ \A S : P!Cardinality(S) = Cardinality(S)
BY DEF I!Cardinality, P!Cardinality, Cardinality

-----------------------------------------------------------------------------
(* What is carried into a turn.                                            *)

\* The bounds are numbers.
AmbientSane ==
  /\ TopN \in Nat /\ RingCap \in Nat /\ Factor \in Nat /\ Floor \in Nat /\ MaxSurfaced \in Nat
  /\ MaxBeliefs \in Nat /\ MaxCommitments \in Nat /\ MaxTurns \in Nat

\* Two turns that create the same row are known, and so is one that creates a
\* row which is there.
Watched ==
  /\ \A s, z \in Sessions, c \in Commitments :
       turn[s] = Creating(c) /\ turn[z] = Creating(c) /\ s # z => c \in doubled
  /\ \A s \in Sessions, c \in Commitments :
       turn[s] = Creating(c) /\ owed[c] # "absent" => c \in doubled

\* A commitment that a thought makes is in no turn's hands, and it is there
\* with the thought retired, unless it is known to have been seeded anew.
Sown ==
  /\ \A s \in Sessions, c \in Seeded : turn[s] # Creating(c)
  /\ \A c \in Seeded : owed[c] # "absent" /\ c \notin doubled => thought[c] = "retired"

AmbientInv ==
  /\ TypeOK /\ Watched /\ Sown
  /\ frame # NoFrame => IsInjective(frame)

-----------------------------------------------------------------------------
(* Counting. *)

LEMMA Counted == ASSUME NEW n \in Nat PROVE Cardinality(1 .. n) = n /\ IsFiniteSet(1 .. n)
<1>1. 1 \in Int /\ n \in Int /\ IsFiniteSet(1 .. n)
      /\ Cardinality(1 .. n) = IF 1 > n THEN 0 ELSE n - 1 + 1
  BY FS_Interval
<1> QED BY <1>1

\* A part of a finite set is no larger than the set.
LEMMA Fewer ==
  ASSUME NEW S, IsFiniteSet(S), NEW T \in SUBSET S
  PROVE  /\ IsFiniteSet(T) /\ Cardinality(T) \in Nat /\ Cardinality(S) \in Nat
         /\ Cardinality(T) <= Cardinality(S)
BY FS_Subset, FS_CardinalityType

\* Two sets together are no larger than their sizes added.
LEMMA Together ==
  ASSUME NEW S, IsFiniteSet(S), NEW T, IsFiniteSet(T)
  PROVE  /\ IsFiniteSet(S \cup T) /\ Cardinality(S \cup T) \in Nat
         /\ Cardinality(S) \in Nat /\ Cardinality(T) \in Nat
         /\ Cardinality(S \cup T) <= Cardinality(S) + Cardinality(T)
<1>1. /\ IsFiniteSet(S \cup T)
      /\ Cardinality(S \cup T) = Cardinality(S) + Cardinality(T) - Cardinality(S \cap T)
  BY FS_Union
<1>2. IsFiniteSet(S \cap T)
  BY FS_Intersection
<1> QED BY <1>1, <1>2, FS_CardinalityType

\* The newest of the newest are the newest: what a turn picks from the rows it
\* reads is what it would pick from all that are fit.
LEMMA Picking ==
  \A m \in Nat : \A good, cool \in SUBSET (1 .. m) : \A n, f, l \in Nat :
    l = n + Cardinality(cool) /\ Cardinality((1 .. m) \ good) <= f - l
      => Newest(Newest(Newest(1 .. m, f) \cap good, l) \ cool, n) = Newest(good \ cool, n)
<1> TAKE m \in Nat
<1> TAKE good, cool \in SUBSET (1 .. m)
<1> TAKE n, f, l \in Nat
<1> HAVE l = n + Cardinality(cool) /\ Cardinality((1 .. m) \ good) <= f - l
<1> DEFINE all == 1 .. m
           A == Newest(all, f) \cap good
           R == Newest(A, l)
           Above(S, x) == {y \in S : y > x}
<1>1. IsFiniteSet(all)
  BY Counted
<1>2. Cardinality(cool) \in Nat /\ IsFiniteSet(cool) /\ l \in Nat
      /\ Cardinality(all \ good) \in Nat /\ IsFiniteSet(all \ good)
  <2>1. cool \in SUBSET all /\ all \ good \in SUBSET all
    OBVIOUS
  <2>2. Cardinality(cool) \in Nat /\ IsFiniteSet(cool)
    BY <1>1, <2>1, Fewer, Zenon
  <2>3. Cardinality(all \ good) \in Nat /\ IsFiniteSet(all \ good)
    BY <1>1, <2>1, Fewer, Zenon
  <2> QED BY <2>2, <2>3
<1>3. \A S \in SUBSET all : \A x : IsFiniteSet(Above(S, x)) /\ Cardinality(Above(S, x)) \in Nat
  <2> TAKE S \in SUBSET all
  <2> TAKE x
  <2>1. Above(S, x) \in SUBSET all
    OBVIOUS
  <2> QED BY <1>1, <2>1, Fewer
<1>4. \A S \in SUBSET all : \A x, k : x \in Newest(S, k) <=> x \in S /\ Cardinality(Above(S, x)) < k
  BY DEF Newest
<1>5. Cardinality(all \ good) <= f - l
  OBVIOUS
<1>6. A \in SUBSET all /\ A \subseteq good /\ R \subseteq A /\ R \ cool \in SUBSET all
      /\ good \ cool \in SUBSET all /\ good \in SUBSET all /\ all \in SUBSET all
  BY DEF Newest
<1> HIDE DEF Above, all, R
<1>7. \A S \in SUBSET all : \A T \in SUBSET S : \A x : Above(T, x) \in SUBSET Above(S, x)
  BY DEF Above
<1>8. \A S \in SUBSET all : \A T \in SUBSET S : \A x :
        Cardinality(Above(T, x)) <= Cardinality(Above(S, x))
  <2> TAKE S \in SUBSET all
  <2> TAKE T \in SUBSET S
  <2> TAKE x
  <2> QED BY <1>3, <1>7, Fewer
<1>9. \A S \in SUBSET all : \A x, y \in all : y > x => Above(S, y) \in SUBSET Above(S, x)
  <2> TAKE S \in SUBSET all
  <2> TAKE x, y \in all
  <2>1. \A z \in S : z \in Int /\ x \in Int /\ y \in Int
    BY DEF all
  <2>2. ASSUME y > x, NEW z \in Above(S, y) PROVE z \in Above(S, x)
    <3>1. z \in S /\ z > y
      BY <2>2 DEF Above
    <3> QED BY <2>1, <2>2, <3>1 DEF Above
  <2> QED BY <2>2
<1>10. ASSUME NEW x \in good \ cool, Cardinality(Above(good \ cool, x)) < n
       PROVE  x \in Newest(R \ cool, n)
  <2>1. Above(good, x) \subseteq Above(good \ cool, x) \cup cool
    BY DEF Above
  <2>2. Cardinality(Above(good, x)) <= Cardinality(Above(good \ cool, x)) + Cardinality(cool)
    <3>1. /\ IsFiniteSet(Above(good \ cool, x) \cup cool)
          /\ Cardinality(Above(good \ cool, x) \cup cool)
               <= Cardinality(Above(good \ cool, x)) + Cardinality(cool)
          /\ Cardinality(Above(good \ cool, x) \cup cool) \in Nat
          /\ Cardinality(Above(good \ cool, x)) \in Nat
      BY <1>2, <1>3, <1>6, Together
    <3>2. Cardinality(Above(good, x)) <= Cardinality(Above(good \ cool, x) \cup cool)
          /\ Cardinality(Above(good, x)) \in Nat
      BY <2>1, <3>1, Fewer
    <3> QED BY <1>2, <3>1, <3>2
  <2>3. Cardinality(Above(good, x)) < l
    BY <1>2, <1>3, <1>6, <1>10, <2>2
  <2>4. Above(all, x) \subseteq Above(good, x) \cup (all \ good)
    BY DEF Above
  <2>5. Cardinality(Above(all, x)) <= Cardinality(Above(good, x)) + Cardinality(all \ good)
    <3>1. /\ IsFiniteSet(Above(good, x) \cup (all \ good))
          /\ Cardinality(Above(good, x) \cup (all \ good))
               <= Cardinality(Above(good, x)) + Cardinality(all \ good)
          /\ Cardinality(Above(good, x) \cup (all \ good)) \in Nat
      BY <1>2, <1>3, <1>6, Together
    <3>2. Cardinality(Above(all, x)) <= Cardinality(Above(good, x) \cup (all \ good))
          /\ Cardinality(Above(all, x)) \in Nat
      BY <2>4, <3>1, Fewer
    <3> QED BY <1>2, <1>3, <1>6, <3>1, <3>2
  <2>6. Cardinality(Above(all, x)) < f
    BY <1>2, <1>3, <1>5, <1>6, <2>3, <2>5
  <2>7. x \in A
    BY <1>4, <1>6, <2>6
  <2>8. x \in R
    <3>1. Cardinality(Above(A, x)) <= Cardinality(Above(good, x))
      BY <1>6, <1>8
    <3>2. Cardinality(Above(A, x)) < l
      BY <1>2, <1>3, <1>6, <2>3, <3>1
    <3> QED BY <1>4, <1>6, <2>7, <3>2 DEF R
  <2>9. Cardinality(Above(R \ cool, x)) <= Cardinality(Above(good \ cool, x))
    BY <1>6, <1>8
  <2>10. Cardinality(Above(R \ cool, x)) < n
    BY <1>3, <1>6, <1>10, <2>9
  <2> QED BY <1>4, <1>6, <2>8, <2>10
<1>11. ASSUME NEW x \in R \ cool, Cardinality(Above(R \ cool, x)) < n
       PROVE  x \in Newest(good \ cool, n)
  <2>1. x \in all /\ x \in A /\ x \in good
    BY <1>6
  <2>2. Cardinality(Above(all, x)) < f /\ Cardinality(Above(A, x)) < l
    BY <1>4, <1>6, <2>1 DEF R
  <2>3. ASSUME NEW y \in Above(good \ cool, x) PROVE y \in Above(R \ cool, x)
    <3>1. y \in all /\ y > x /\ y \in good /\ y \notin cool
      BY <1>6 DEF Above
    <3>2. Cardinality(Above(all, y)) <= Cardinality(Above(all, x))
      BY <1>3, <1>6, <1>9, <2>1, <3>1, Fewer
    <3>3. Cardinality(Above(A, y)) <= Cardinality(Above(A, x))
      BY <1>3, <1>6, <1>9, <2>1, <3>1, Fewer
    <3>4. Cardinality(Above(all, y)) < f /\ Cardinality(Above(A, y)) < l
      BY <1>2, <1>3, <1>6, <2>2, <3>2, <3>3
    <3>5. y \in A
      BY <1>4, <1>6, <3>1, <3>4
    <3>6. y \in R
      BY <1>4, <1>6, <3>4, <3>5 DEF R
    <3> QED BY <3>1, <3>6 DEF Above
  <2>4. Above(R \ cool, x) \subseteq Above(good \ cool, x)
    BY <1>6 DEF Above
  <2>5. Above(R \ cool, x) = Above(good \ cool, x)
    BY <2>3, <2>4
  <2> QED BY <1>4, <1>6, <1>11, <2>1, <2>5
<1>12. Newest(R \ cool, n) = Newest(good \ cool, n)
  <2>1. \A x : x \in Newest(R \ cool, n) => x \in R \ cool /\ Cardinality(Above(R \ cool, x)) < n
    BY <1>4, <1>6
  <2>2. \A x : x \in Newest(good \ cool, n) =>
          x \in good \ cool /\ Cardinality(Above(good \ cool, x)) < n
    BY <1>4, <1>6
  <2> QED BY <1>10, <1>11, <2>1, <2>2
<1> QED BY <1>12 DEF R, A, all

-----------------------------------------------------------------------------
(* The ring. *)

\* Of some numbers one is the least.
LEMMA LeastOf ==
  ASSUME NEW S \in SUBSET Nat, S # {}
  PROVE  \E x \in S : \A y \in S : x <= y
<1>1. PICK x \in S : \A y \in S : ~(<<y, x>> \in OpToRel(<, Nat))
  BY NatLessThanWellFounded, WFMin
<1>2. \A y \in S : ~(y < x)
  BY <1>1 DEF OpToRel
<1> QED BY <1>2

\* Some numbers can be put in descending order.
LEMMA Ordering ==
  ASSUME NEW m \in Nat, NEW ids \in SUBSET (1 .. m)
  PROVE  /\ Cardinality(ids) \in Nat
         /\ NewestFirst(ids) \in [1 .. Cardinality(ids) -> ids]
         /\ Descending(NewestFirst(ids))
<1> DEFINE Can(S) == \E q \in [1 .. Cardinality(S) -> S] : Descending(q)
           Bad == {S \in SUBSET (1 .. m) : ~Can(S)}
<1>1. \A S \in SUBSET (1 .. m) : IsFiniteSet(S) /\ Cardinality(S) \in Nat
  BY Counted, Fewer
<1>2. ASSUME NEW S \in SUBSET (1 .. m), S = {} PROVE Can(S)
  <2>1. Cardinality(S) = 0
    BY <1>2, FS_EmptySet
  <2> DEFINE q == [i \in 1 .. 0 |-> 0]
  <2>2. q \in [1 .. 0 -> S] /\ Descending(q)
    BY DEF Descending
  <2> QED BY <2>1, <2>2
<1>3. ASSUME NEW S \in SUBSET (1 .. m), S # {},
             \A Z \in SUBSET (1 .. m) : Cardinality(Z) < Cardinality(S) => Can(Z)
      PROVE  Can(S)
  <2>1. PICK e \in S : \A y \in S : e <= y
    BY <1>3, LeastOf
  <2> DEFINE Z == S \ {e}
             n == Cardinality(S)
  <2>2. IsFiniteSet(S) /\ n \in Nat /\ IsFiniteSet(Z) /\ Cardinality(Z) \in Nat
    BY <1>1
  <2>3. Cardinality(Z) = n - 1
    BY <2>2, FS_RemoveElement
  <2>4. n \in Nat \ {0} /\ n - 1 \in Nat
    BY <2>2, <2>3
  <2>5. PICK q \in [1 .. (n - 1) -> Z] : Descending(q)
    BY <1>3, <2>2, <2>3
  <2> DEFINE r == [i \in 1 .. n |-> IF i = n THEN e ELSE q[i]]
  <2>6. \A i \in 1 .. n : i # n => i \in 1 .. (n - 1)
    BY <2>4
  <2> HIDE DEF n
  <2>7. \A i \in 1 .. (n - 1) : q[i] \in S /\ q[i] # e /\ q[i] \in Nat
    <3> TAKE i \in 1 .. (n - 1)
    <3>1. q[i] \in Z
      BY <2>5 DEF n
    <3>2. q[i] \in S /\ q[i] # e
      BY <3>1
    <3>3. q[i] \in 1 .. m
      BY <3>2
    <3> HIDE DEF Z
    <3> QED BY <3>2, <3>3
  <2>8. r \in [1 .. n -> S]
    BY <2>6, <2>7
  <2>9. ASSUME NEW i \in 1 .. n, NEW j \in 1 .. n, i < j PROVE r[i] > r[j]
    <3>1. i # n /\ i \in 1 .. (n - 1) /\ r[i] = q[i]
      BY <2>4, <2>6, <2>9
    <3>2. CASE j = n
      <4>1. r[j] = e /\ q[i] \in S /\ q[i] # e /\ e <= q[i]
        BY <2>1, <2>7, <3>1, <3>2
      <4> QED BY <2>7, <3>1, <4>1
    <3>3. CASE j # n
      <4>1. j \in 1 .. (n - 1) /\ r[j] = q[j]
        BY <2>6, <3>3
      <4> QED BY <2>5, <2>9, <3>1, <4>1 DEF Descending
    <3> QED BY <3>2, <3>3
  <2>10. Descending(r)
    BY <2>8, <2>9 DEF Descending
  <2> QED BY <2>8, <2>10 DEF n
<1> HIDE DEF Can
<1>4. Bad = {}
  <2> SUFFICES ASSUME Bad # {} PROVE FALSE
    OBVIOUS
  <2> DEFINE Sizes == {Cardinality(S) : S \in Bad}
  <2>1. Sizes \in SUBSET Nat /\ Sizes # {}
    BY <1>1
  <2>2. PICK k \in Sizes : \A y \in Sizes : k <= y
    BY <2>1, LeastOf
  <2>3. PICK S \in Bad : Cardinality(S) = k
    BY <2>2
  <2>4. S # {} /\ ~Can(S)
    BY <1>2, <2>3
  <2>5. ASSUME NEW Z \in SUBSET (1 .. m), Cardinality(Z) < Cardinality(S) PROVE Can(Z)
    <3> SUFFICES ASSUME ~Can(Z) PROVE FALSE
      OBVIOUS
    <3>1. Cardinality(Z) \in Sizes /\ k <= Cardinality(Z)
      BY <2>2
    <3> QED BY <1>1, <2>3, <2>5, <3>1
  <2> QED BY <1>3, <2>4, <2>5
<1>5. Can(ids)
  BY <1>4
<1> QED BY <1>1, <1>5 DEF Can, NewestFirst

\* A longer list of things, and a list of more things.
LEMMA Widens == ASSUME NEW S, NEW T, S \subseteq T PROVE Seq(S) \subseteq Seq(T)
BY SeqDef

\* What a stamp leaves in the ring: no more than the cap, none twice.
LEMMA Stamping ==
  ASSUME NEW m \in Nat, NEW ids \in SUBSET (1 .. m), RingCap \in Nat,
         ring \in Seq(1 .. m), IsInjective(ring)
  PROVE  RingWith(ids) \in Seq(1 .. m) /\ Len(RingWith(ids)) <= RingCap
         /\ IsInjective(RingWith(ids))
<1> DEFINE new == ids \ Range(ring)
           q == NewestFirst(new)
           k == Cardinality(new)
           n == Len(ring)
           whole == ring \o q
<1>1. k \in Nat /\ q \in [1 .. k -> new] /\ Descending(q)
  BY Ordering
<1>2. new \subseteq 1 .. m
  OBVIOUS
<1> HIDE DEF q, k
<1>3. q \in [1 .. k -> 1 .. m]
  BY <1>1, <1>2
<1>4. q \in Seq(1 .. m) /\ Len(q) = k /\ DOMAIN q = 1 .. k
  BY <1>1, <1>3
<1>5. n \in Nat /\ DOMAIN ring = 1 .. n /\ \A i \in 1 .. n : ring[i] \in Range(ring)
  BY DEF Range
<1>6. whole \in Seq(1 .. m) /\ Len(whole) = n + k /\ DOMAIN whole = 1 .. (n + k)
  BY <1>4, <1>5
<1>7. /\ \A i \in 1 .. n : whole[i] = ring[i]
      /\ \A i \in 1 .. (n + k) : i > n => i - n \in 1 .. k /\ whole[i] = q[i - n]
  BY <1>1, <1>4, <1>5
<1>8. \A i, j \in 1 .. k : q[i] = q[j] => i = j
  <2> TAKE i, j \in 1 .. k
  <2>1. i < j => q[i] > q[j]
    BY <1>1, <1>4 DEF Descending
  <2>2. j < i => q[j] > q[i]
    BY <1>1, <1>4 DEF Descending
  <2>3. q[i] \in 1 .. m /\ q[j] \in 1 .. m
    BY <1>3
  <2> QED BY <2>1, <2>2, <2>3
<1>9. \A i \in 1 .. k : q[i] \notin Range(ring)
  BY <1>1
<1> HIDE DEF n, whole
<1>10. \A i, j \in 1 .. (n + k) : whole[i] = whole[j] => i = j
  <2> TAKE i, j \in 1 .. (n + k)
  <2>1. CASE i <= n /\ j <= n
    <3>1. i \in 1 .. n /\ j \in 1 .. n
      BY <1>5, <2>1
    <3> QED BY <1>5, <1>7, <3>1 DEF IsInjective
  <2>2. CASE i > n /\ j > n
    <3>1. i - n \in 1 .. k /\ j - n \in 1 .. k /\ whole[i] = q[i - n] /\ whole[j] = q[j - n]
      BY <1>7, <2>2
    <3>2. whole[i] = whole[j] => i - n = j - n
      BY <1>8, <3>1
    <3> QED BY <1>5, <3>2
  <2>3. CASE i <= n /\ j > n
    <3>1. i \in 1 .. n /\ j - n \in 1 .. k /\ whole[j] = q[j - n]
      BY <1>5, <1>7, <2>3
    <3> QED BY <1>5, <1>7, <1>9, <3>1
  <2>4. CASE i > n /\ j <= n
    <3>1. j \in 1 .. n /\ i - n \in 1 .. k /\ whole[i] = q[i - n]
      BY <1>5, <1>7, <2>4
    <3> QED BY <1>5, <1>7, <1>9, <3>1
  <2> QED BY <1>1, <1>5, <2>1, <2>2, <2>3, <2>4
<1> DEFINE d == IF Len(whole) > RingCap THEN Len(whole) - RingCap ELSE 0
           kept == SubSeq(whole, 1 + d, Len(whole))
<1>11. Len(whole) \in Nat /\ d \in Nat /\ d <= Len(whole) /\ Len(whole) - d <= RingCap
       /\ Len(whole) = n + k
  BY <1>1, <1>5, <1>6
<1> HIDE DEF d
<1>12. /\ kept \in Seq(1 .. m) /\ Len(kept) = Len(whole) - d
       /\ \A i \in 1 .. (Len(whole) - d) : kept[i] = whole[i + d]
  <2>1. \A i \in (1 + d) .. Len(whole) : whole[i] \in 1 .. m
    BY <1>6, <1>11
  <2>2. CASE d = Len(whole)
    <3>1. kept = <<>> /\ Len(kept) = 0
      BY <1>6, <1>11, <2>2, SubSeqProperties
    <3>2. <<>> \in Seq(1 .. m)
      OBVIOUS
    <3> QED BY <1>11, <2>2, <3>1, <3>2
  <2>3. CASE d < Len(whole)
    BY <1>6, <1>11, <2>1, <2>3, SubSeqProperties
  <2> QED BY <1>11, <2>2, <2>3
<1> HIDE DEF kept
<1>13. DOMAIN kept = 1 .. (Len(whole) - d)
  BY <1>12
<1>14. \A i, j \in 1 .. (Len(whole) - d) : kept[i] = kept[j] => i = j
  <2> TAKE i, j \in 1 .. (Len(whole) - d)
  <2>1. i + d \in 1 .. (n + k) /\ j + d \in 1 .. (n + k)
    BY <1>11
  <2>2. kept[i] = kept[j] => i + d = j + d
    BY <1>10, <1>12, <2>1
  <2> QED BY <1>11, <2>2
<1>15. RingWith(ids) = kept
  BY DEF RingWith, Capped, kept, d, whole, q
<1> QED BY <1>11, <1>12, <1>13, <1>14, <1>15 DEF IsInjective

-----------------------------------------------------------------------------
(* One step. *)

\* What a state is made of.
LEMMA AmbientFacts ==
  ASSUME AmbientSane, TypeOK
  PROVE  /\ learned \in Nat /\ fit \in SUBSET (1 .. learned) /\ Beliefs = 1 .. learned
         /\ \A s \in Sessions : turn[s] \in Activities
         /\ \A s \in Sessions : turn[s].at = "looked" =>
              turn[s] = Looked(turn[s].cool) /\ turn[s].cool \in SUBSET Beliefs
         /\ \A s \in Sessions : turn[s].at = "picked" =>
              turn[s] = Picked(turn[s].ids) /\ turn[s].ids \in SUBSET Beliefs
         /\ \A s \in Sessions : turn[s].at = "talking" =>
              turn[s] = Talks(turn[s].shown) /\ turn[s].shown \in SUBSET Commitments
         /\ \A s \in Sessions : turn[s].at = "creating" =>
              turn[s] = Creating(turn[s].what) /\ turn[s].what \in Commitments
<1>1. learned \in Nat /\ fit \in SUBSET (1 .. learned) /\ Beliefs = 1 .. learned
  BY DEF TypeOK, AmbientSane, Beliefs
<1>2. \A s \in Sessions : turn[s] \in Activities
  BY DEF TypeOK
<1>3. ASSUME NEW s \in Sessions
      PROVE  /\ turn[s].at = "looked" =>
                   turn[s] = Looked(turn[s].cool) /\ turn[s].cool \in SUBSET Beliefs
             /\ turn[s].at = "picked" =>
                   turn[s] = Picked(turn[s].ids) /\ turn[s].ids \in SUBSET Beliefs
             /\ turn[s].at = "talking" =>
                   turn[s] = Talks(turn[s].shown) /\ turn[s].shown \in SUBSET Commitments
             /\ turn[s].at = "creating" =>
                   turn[s] = Creating(turn[s].what) /\ turn[s].what \in Commitments
  BY <1>2 DEF Activities, Idle, Looked, Picked, Talks, Creating
<1> QED BY <1>1, <1>2, <1>3

\* A turn that moves on is where it has moved to, the others where they were.
LEMMA Moving ==
  ASSUME AmbientSane, TypeOK, NEW s \in Sessions, NEW to, Does(s, to)
  PROVE  /\ \A z \in Sessions : turn'[z] = IF z = s THEN to ELSE turn[z]
         /\ to \in Activities => turn' \in [Sessions -> Activities]
BY DEF TypeOK, Does

\* What a turn can be about only grows.
LEMMA Knowing ==
  ASSUME AmbientSane, TypeOK, learned' \in Nat, learned <= learned'
  PROVE  Activities \subseteq Activities' /\ Beliefs \subseteq Beliefs'
<1>1. Beliefs \subseteq Beliefs'
  BY AmbientFacts DEF Beliefs
<1> HIDE DEF Beliefs
<1> QED BY <1>1 DEF Activities

LEMMA AmbientInitInv == ASSUME AmbientSane, Init PROVE AmbientInv
<1>1. Beliefs = {} /\ learned = 0
  BY DEF Init, Beliefs
<1>2. ring \in Seq(Beliefs) /\ Len(ring) = 0 /\ DOMAIN ring = {}
  <2>1. ring = <<>> /\ <<>> \in Seq(Beliefs)
    BY DEF Init
  <2> QED BY <2>1
<1>3. IsInjective(ring)
  BY <1>2 DEF IsInjective
<1>4. Idle \in Activities
  BY DEF Activities
<1>5. TypeOK
  <2>1. \E S \in SUBSET Commitments : thought \in [S -> {"none", "live", "retired"}]
    BY DEF Init
  <2> QED BY <1>1, <1>2, <1>3, <1>4, <2>1 DEF Init, TypeOK, AmbientSane, CommitmentStates
<1>6. Watched
  BY DEF Watched, Init, Idle, Creating
<1>7. Sown
  <2>1. Seeded \subseteq Commitments
    BY <1>5 DEF TypeOK, Seeded
  <2> QED BY <2>1 DEF Sown, Init, Idle, Creating
<1> QED BY <1>5, <1>6, <1>7 DEF AmbientInv, Init

\* A new belief.
LEMMA StepLearns ==
  ASSUME AmbientSane, AmbientInv, NEW isFit \in BOOLEAN, Learns(isFit)
  PROVE  AmbientInv' /\ NotSilenced /\ StaysClosed
<1>1. learned' \in Nat /\ learned <= learned' /\ learned' \in 0 .. MaxBeliefs /\ learned' \in Beliefs'
      /\ TypeOK
  BY DEF AmbientSane, AmbientInv, TypeOK, Learns, Beliefs
<1>2. Activities \subseteq Activities' /\ Beliefs \subseteq Beliefs'
  BY <1>1, Knowing
<1>3. Seq(Beliefs) \subseteq Seq(Beliefs')
  BY <1>2, Widens, Zenon
<1>4. /\ ring' = ring /\ frame' = frame /\ owed' = owed /\ turn' = turn /\ turns' = turns
      /\ doubled' = doubled /\ thought' = thought
  BY DEF Learns
<1>5. fit' \subseteq Beliefs'
  BY <1>1, <1>2 DEF Learns, TypeOK
<1>6. ring' \in Seq(Beliefs') /\ Len(ring') <= RingCap /\ IsInjective(ring')
  BY <1>1, <1>3, <1>4 DEF TypeOK
<1>7. frame' = NoFrame \/ (frame' \in Seq(Beliefs') /\ Len(frame') <= RingCap)
  BY <1>1, <1>3, <1>4 DEF TypeOK
<1>8. turn' \in [Sessions -> Activities']
  BY <1>1, <1>2, <1>4 DEF TypeOK
<1>9. TypeOK'
  BY <1>1, <1>4, <1>5, <1>6, <1>7, <1>8 DEF TypeOK
<1>10. Watched' /\ Sown' /\ (frame' # NoFrame => IsInjective(frame'))
  BY <1>4 DEF AmbientInv, Watched, Sown, Seeded
<1>11. NotSilenced /\ StaysClosed
  BY <1>4 DEF NotSilenced, StaysClosed, Closed
<1> QED BY <1>9, <1>10, <1>11 DEF AmbientInv

\* A step of the ring or of a turn, which leaves the beliefs alone.
LEMMA Types ==
  ASSUME AmbientSane, TypeOK, learned' = learned, fit' = fit,
         ring' \in Seq(Beliefs), Len(ring') <= RingCap, IsInjective(ring'),
         frame' = NoFrame \/ (frame' \in Seq(Beliefs) /\ Len(frame') <= RingCap),
         owed' \in [Commitments -> CommitmentStates], turn' \in [Sessions -> Activities],
         \E S \in SUBSET Commitments : thought' \in [S -> {"none", "live", "retired"}],
         turns' \in 0 .. MaxTurns, doubled' \subseteq Commitments
  PROVE  TypeOK'
<1>1. Beliefs' = Beliefs /\ Activities' = Activities
  BY DEF Beliefs, Activities
<1> QED BY <1>1 DEF TypeOK

\* A step that seeds nothing.
LEMMA Sowing ==
  ASSUME TypeOK, Sown, thought' = thought, doubled \subseteq doubled',
         \A z \in Sessions : \A c : turn'[z] = Creating(c) => turn[z] = Creating(c) \/ c \notin Seeded,
         \A c \in Commitments : owed[c] = "absent" /\ c \in Seeded => owed'[c] = "absent"
  PROVE  Sown'
<1>1. Seeded' = Seeded /\ Seeded \subseteq Commitments
  BY DEF Seeded, TypeOK
<1> QED BY <1>1 DEF Sown

\* The heartbeat's frame.
LEMMA StepFrame ==
  ASSUME AmbientSane, AmbientInv, FrameLoads \/ FrameCommits \/ FrameRaises
  PROVE  AmbientInv' /\ NotSilenced /\ StaysClosed
<1>1. /\ learned' = learned /\ fit' = fit /\ owed' = owed /\ turn' = turn /\ turns' = turns
      /\ doubled' = doubled /\ thought' = thought
  BY DEF FrameLoads, FrameCommits, FrameRaises, Commits
<1>2. TypeOK /\ Watched /\ Sown /\ (frame # NoFrame => IsInjective(frame))
  BY DEF AmbientInv
<1>3. /\ ring' \in Seq(Beliefs) /\ Len(ring') <= RingCap /\ IsInjective(ring')
      /\ frame' = NoFrame \/ (frame' \in Seq(Beliefs) /\ Len(frame') <= RingCap)
      /\ frame' # NoFrame => IsInjective(frame')
  BY <1>2 DEF FrameLoads, FrameCommits, FrameRaises, Commits, TypeOK
<1>4. TypeOK'
  BY <1>1, <1>2, <1>3, Types DEF TypeOK
<1>5. Watched'
  BY <1>1, <1>2 DEF Watched
<1>6. NotSilenced /\ StaysClosed
  BY <1>1 DEF NotSilenced, StaysClosed, Closed
<1>7. Sown'
  BY <1>1, <1>2, Sowing
<1> QED BY <1>3, <1>4, <1>5, <1>6, <1>7 DEF AmbientInv

\* A step of a turn that creates nothing, and reads no beliefs.
LEMMA StepTurn ==
  ASSUME AmbientSane, AmbientInv, NEW s \in Sessions, NEW to \in Activities, Does(s, to),
         to.at \notin {"creating", "picked"},
         learned' = learned, fit' = fit, frame' = frame, owed' = owed, doubled' = doubled,
         thought' = thought,
         ring' \in Seq(Beliefs), Len(ring') <= RingCap, IsInjective(ring'),
         turns' \in 0 .. MaxTurns
  PROVE  AmbientInv' /\ NotSilenced /\ StaysClosed
<1>1. TypeOK /\ Watched /\ Sown /\ (frame # NoFrame => IsInjective(frame))
  BY DEF AmbientInv
<1>2. /\ \A z \in Sessions : turn'[z] = IF z = s THEN to ELSE turn[z]
      /\ turn' \in [Sessions -> Activities]
  BY <1>1, Moving
<1>3. TypeOK'
  BY <1>1, <1>2, Types DEF TypeOK
<1>4. \A z \in Sessions : \A c : turn'[z] = Creating(c) => turn[z] = Creating(c)
  BY <1>2 DEF Creating
<1>5. Watched'
  BY <1>1, <1>4 DEF Watched
<1>6. NotSilenced
  BY <1>2 DEF NotSilenced
<1>7. StaysClosed
  BY DEF StaysClosed, Closed
<1>8. Sown'
  BY <1>1, <1>4, Sowing
<1> QED BY <1>1, <1>3, <1>5, <1>6, <1>7, <1>8 DEF AmbientInv

LEMMA StepLooksAtRing ==
  ASSUME AmbientSane, AmbientInv, NEW s \in Sessions, LooksAtRing(s)
  PROVE  AmbientInv' /\ NotSilenced /\ StaysClosed
<1>1. TypeOK
  BY DEF AmbientInv
<1>2. Range(ring) \in SUBSET Beliefs
  BY <1>1 DEF TypeOK, Range
<1>3. Looked(Range(ring)) \in Activities /\ Looked(Range(ring)).at \notin {"creating", "picked"}
  BY <1>2 DEF Activities, Looked
<1>4. turns' \in 0 .. MaxTurns
  BY <1>1 DEF LooksAtRing, TypeOK, AmbientSane
<1> QED BY <1>1, <1>3, <1>4, StepTurn DEF LooksAtRing, TypeOK

\* What the tables give a turn is what it should surface.
LEMMA StepPicksBeliefs ==
  ASSUME AmbientSane, AmbientInv, NEW s \in Sessions, PicksBeliefs(s)
  PROVE  AmbientInv' /\ NotSilenced /\ StaysClosed
<1> DEFINE cool == turn[s].cool
           ids == Picks(cool)
<1>1. TypeOK /\ Watched /\ Sown /\ (frame # NoFrame => IsInjective(frame))
  BY DEF AmbientInv
<1>2. /\ learned' = learned /\ fit' = fit /\ ring' = ring /\ frame' = frame /\ owed' = owed
      /\ turns' = turns /\ doubled' = doubled /\ thought' = thought /\ turn[s].at = "looked" /\ Does(s, Picked(ids))
  BY DEF PicksBeliefs
<1>3. ids \in SUBSET Beliefs
  BY DEF Picks, ReadActiveBeliefs, Newest
<1>4. Picked(ids) \in Activities /\ Picked(ids).at = "picked" /\ Picked(ids).ids = ids
  BY <1>3 DEF Activities, Picked
<1>5. /\ \A z \in Sessions : turn'[z] = IF z = s THEN Picked(ids) ELSE turn[z]
      /\ turn' \in [Sessions -> Activities]
  BY <1>1, <1>2, <1>4, Moving
<1>6. TypeOK'
  BY <1>1, <1>2, <1>5, Types DEF TypeOK
<1>7. \A z \in Sessions : \A c : turn'[z] = Creating(c) => turn[z] = Creating(c)
  BY <1>5 DEF Creating, Picked
<1>8. Watched'
  BY <1>1, <1>2, <1>7 DEF Watched
<1>9. cool \in SUBSET Beliefs /\ fit \in SUBSET (1 .. learned) /\ Beliefs = 1 .. learned
      /\ learned \in Nat
  BY <1>1, <1>2, AmbientFacts
<1>10. ASSUME Uncrowded(cool) PROVE ids = Newest(fit \ cool, TopN)
  <2>1. Cardinality(cool) \in Nat /\ TopN \in Nat /\ Factor \in Nat /\ Floor \in Nat
    BY <1>9, Counted, Fewer DEF AmbientSane
  <2> DEFINE l == TopN + Cardinality(cool)
  <2>2. l \in Nat
    BY <2>1
  <2> HIDE DEF l
  <2>3. l * Factor \in Nat
    BY <2>1, <2>2
  <2>4. FetchSize(l) \in Nat
    BY <2>1, <2>3 DEF FetchSize
  <2>5. Cardinality((1 .. learned) \ fit) <= FetchSize(l) - (TopN + Cardinality(cool))
    BY <1>9, <1>10 DEF Uncrowded, Limit, l
  <2>6. Newest(Newest(Newest(1 .. learned, FetchSize(l)) \cap fit, l) \ cool, TopN)
          = Newest(fit \ cool, TopN)
    <3>1. /\ fit \in SUBSET (1 .. learned) /\ cool \in SUBSET (1 .. learned) /\ learned \in Nat
          /\ TopN \in Nat /\ FetchSize(l) \in Nat /\ l \in Nat /\ l = TopN + Cardinality(cool)
          /\ Cardinality((1 .. learned) \ fit) <= FetchSize(l) - l
      BY <1>9, <2>1, <2>2, <2>4, <2>5 DEF l
    <3> HIDE DEF cool
    <3>2. \A good, set \in SUBSET (1 .. learned) : \A n, f, k \in Nat :
            k = n + Cardinality(set) /\ Cardinality((1 .. learned) \ good) <= f - k
              => Newest(Newest(Newest(1 .. learned, f) \cap good, k) \ set, n)
                   = Newest(good \ set, n)
      BY <3>1, Picking
    <3>3. \A n, f, k \in Nat :
            k = n + Cardinality(cool) /\ Cardinality((1 .. learned) \ fit) <= f - k
              => Newest(Newest(Newest(1 .. learned, f) \cap fit, k) \ cool, n)
                   = Newest(fit \ cool, n)
      BY <3>1, <3>2
    <3> QED BY <3>1, <3>3
  <2> QED BY <1>9, <2>6 DEF Picks, ReadActiveBeliefs, Limit, l
<1>11. NotSilenced
  BY <1>2, <1>4, <1>5, <1>10 DEF NotSilenced
<1>12. StaysClosed
  BY <1>2 DEF StaysClosed, Closed
<1>13. Sown'
  BY <1>1, <1>2, <1>7, Sowing
<1> QED BY <1>1, <1>2, <1>6, <1>8, <1>11, <1>12, <1>13 DEF AmbientInv

LEMMA StepStampsAndShows ==
  ASSUME AmbientSane, AmbientInv, NEW s \in Sessions, StampsAndShows(s)
  PROVE  AmbientInv' /\ NotSilenced /\ StaysClosed
<1> DEFINE shown == Salient(ReadActiveCommitments, MaxSurfaced)
<1>1. TypeOK
  BY DEF AmbientInv
<1>2. turn[s].ids \in SUBSET Beliefs /\ Beliefs = 1 .. learned /\ learned \in Nat
  BY <1>1, AmbientFacts DEF StampsAndShows
<1>3. ring' \in Seq(Beliefs) /\ Len(ring') <= RingCap /\ IsInjective(ring')
  BY <1>1, <1>2, Stamping DEF StampsAndShows, TypeOK, AmbientSane
<1>4. Talks(shown) \in Activities /\ Talks(shown).at \notin {"creating", "picked"}
  BY DEF Activities, Talks, Salient, ReadActiveCommitments
<1> QED BY <1>1, <1>3, <1>4, StepTurn DEF StampsAndShows, TypeOK

LEMMA StepTurnEnds ==
  ASSUME AmbientSane, AmbientInv, NEW s \in Sessions, TurnEnds(s)
  PROVE  AmbientInv' /\ NotSilenced /\ StaysClosed
<1>1. Idle \in Activities /\ Idle.at \notin {"creating", "picked"}
  BY DEF Activities, Idle
<1> QED BY <1>1, StepTurn DEF TurnEnds, TypeOK, AmbientInv

\* A turn that looked for a row and found none.
LEMMA StepLooksFor ==
  ASSUME AmbientSane, AmbientInv, NEW s \in Sessions, NEW c \in Commitments, LooksFor(s, c)
  PROVE  AmbientInv' /\ NotSilenced /\ StaysClosed
<1>1. TypeOK /\ Watched /\ Sown /\ (frame # NoFrame => IsInjective(frame))
  BY DEF AmbientInv
<1>2. /\ learned' = learned /\ fit' = fit /\ ring' = ring /\ frame' = frame /\ owed' = owed
      /\ turns' = turns /\ turn[s].at = "talking" /\ owed[c] = "absent" /\ Does(s, Creating(c))
      /\ thought' = thought /\ c \notin Seeded
      /\ doubled' = IF \E z \in Sessions : turn[z] = Creating(c) THEN doubled \cup {c} ELSE doubled
  BY DEF LooksFor, MayCreate
<1>3. Creating(c) \in Activities /\ Creating(c).at = "creating"
  BY DEF Activities, Creating
<1>4. /\ \A z \in Sessions : turn'[z] = IF z = s THEN Creating(c) ELSE turn[z]
      /\ turn' \in [Sessions -> Activities]
  BY <1>1, <1>2, <1>3, Moving
<1>5. doubled \subseteq doubled' /\ doubled' \subseteq Commitments
  BY <1>1, <1>2 DEF TypeOK
<1>6. TypeOK'
  BY <1>1, <1>2, <1>4, <1>5, Types DEF TypeOK
<1>7. \A d \in Commitments : Creating(c) = Creating(d) => c = d
  BY DEF Creating
<1>8. ASSUME NEW x \in Sessions, NEW z \in Sessions, NEW d \in Commitments,
             turn'[x] = Creating(d), turn'[z] = Creating(d), x # z
      PROVE  d \in doubled'
  <2>1. CASE x # s /\ z # s
    BY <1>1, <1>4, <1>5, <1>8, <2>1 DEF Watched
  <2>2. CASE x = s
    BY <1>2, <1>4, <1>7, <1>8, <2>2
  <2>3. CASE z = s
    BY <1>2, <1>4, <1>7, <1>8, <2>3
  <2> QED BY <2>1, <2>2, <2>3
<1>9. ASSUME NEW x \in Sessions, NEW d \in Commitments, turn'[x] = Creating(d), owed'[d] # "absent"
      PROVE  d \in doubled'
  <2>1. x # s
    BY <1>2, <1>4, <1>7, <1>9
  <2> QED BY <1>1, <1>2, <1>4, <1>5, <1>9, <2>1 DEF Watched
<1>10. Watched'
  BY <1>8, <1>9 DEF Watched
<1>11. NotSilenced
  BY <1>3, <1>4 DEF NotSilenced
<1>12. StaysClosed
  BY <1>2 DEF StaysClosed, Closed
<1>13. Sown'
  BY <1>1, <1>2, <1>4, <1>5, <1>7, Sowing DEF Creating
<1> QED BY <1>1, <1>2, <1>6, <1>10, <1>11, <1>12, <1>13 DEF AmbientInv

\* The row is put, whatever it is by then.
LEMMA StepCreates ==
  ASSUME AmbientSane, AmbientInv, NEW s \in Sessions, Creates(s)
  PROVE  AmbientInv' /\ NotSilenced /\ StaysClosed
<1> DEFINE c == turn[s].what
<1>1. TypeOK /\ Watched /\ Sown /\ (frame # NoFrame => IsInjective(frame))
  BY DEF AmbientInv
<1>2. /\ learned' = learned /\ fit' = fit /\ ring' = ring /\ frame' = frame
      /\ turns' = turns /\ doubled' = doubled /\ turn[s].at = "creating" /\ Does(s, Talks({}))
      /\ thought' = thought
      /\ owed' = [owed EXCEPT ![c] = "active"]
  BY DEF Creates
<1>3. turn[s] = Creating(c) /\ c \in Commitments
  BY <1>1, <1>2, AmbientFacts
<1> HIDE DEF c
<1>4. Talks({}) \in Activities /\ Talks({}).at = "talking"
  BY DEF Activities, Talks
<1>5. /\ \A z \in Sessions : turn'[z] = IF z = s THEN Talks({}) ELSE turn[z]
      /\ turn' \in [Sessions -> Activities]
  BY <1>1, <1>2, <1>4, Moving
<1>6. /\ owed' \in [Commitments -> CommitmentStates]
      /\ \A d \in Commitments : d # c => owed'[d] = owed[d]
  BY <1>1, <1>2, <1>3 DEF TypeOK, CommitmentStates
<1>7. TypeOK'
  BY <1>1, <1>2, <1>5, <1>6, Types DEF TypeOK
<1>8. \A z \in Sessions : \A d : turn'[z] = Creating(d) => z # s /\ turn[z] = Creating(d)
  BY <1>5 DEF Creating, Talks
<1>9. ASSUME NEW z \in Sessions, NEW d \in Commitments, turn'[z] = Creating(d), owed'[d] # "absent"
      PROVE  d \in doubled'
  <2>1. z # s /\ turn[z] = Creating(d)
    BY <1>8, <1>9
  <2>2. CASE d = c
    BY <1>1, <1>2, <1>3, <2>1, <2>2 DEF Watched
  <2>3. CASE d # c
    BY <1>1, <1>2, <1>6, <1>9, <2>1, <2>3 DEF Watched
  <2> QED BY <2>2, <2>3
<1>10. Watched'
  BY <1>1, <1>2, <1>8, <1>9 DEF Watched
<1>11. NotSilenced
  BY <1>4, <1>5 DEF NotSilenced
<1>12. \A d \in Commitments : owed[d] # "absent" /\ d = c => d \in doubled
  BY <1>1, <1>3 DEF Watched
<1>13. StaysClosed
  <2>1. ASSUME NEW d \in Commitments, owed[d] \in Closed \cup {"deferred"}, owed'[d] = "active"
        PROVE  d \in doubled
    <3>1. owed[d] # "absent" /\ owed[d] # "active"
      BY <2>1 DEF Closed
    <3> QED BY <1>6, <1>12, <2>1, <3>1
  <2> QED BY <2>1 DEF StaysClosed, Closed
<1>14. Sown'
  <2>1. c \notin Seeded
    BY <1>1, <1>3 DEF Sown
  <2> QED BY <1>1, <1>2, <1>6, <1>8, <2>1, Sowing
<1> QED BY <1>1, <1>2, <1>7, <1>10, <1>11, <1>13, <1>14 DEF AmbientInv

\* A commitment closed or set aside.
LEMMA StepMoves ==
  ASSUME AmbientSane, AmbientInv, NEW s \in Sessions, NEW c \in Commitments,
         NEW to \in Closed \cup {"deferred"}, Moves(s, c, to)
  PROVE  AmbientInv' /\ NotSilenced /\ StaysClosed
<1>1. TypeOK /\ Watched /\ Sown /\ (frame # NoFrame => IsInjective(frame))
  BY DEF AmbientInv
<1>2. /\ learned' = learned /\ fit' = fit /\ ring' = ring /\ frame' = frame
      /\ turns' = turns /\ doubled' = doubled /\ turn' = turn /\ thought' = thought
      /\ owed' = [owed EXCEPT ![c] = to] /\ owed[c] = "active"
  BY DEF Moves
<1>3. to \in CommitmentStates /\ to # "active"
  BY DEF CommitmentStates, Closed
<1>4. /\ owed' \in [Commitments -> CommitmentStates]
      /\ \A d \in Commitments : owed'[d] = IF d = c THEN to ELSE owed[d]
  BY <1>1, <1>2, <1>3 DEF TypeOK
<1>5. TypeOK'
  BY <1>1, <1>2, <1>4, Types DEF TypeOK
<1>6. \A d \in Commitments : owed'[d] # "absent" => owed[d] # "absent"
  BY <1>2, <1>4
<1>7. Watched'
  BY <1>1, <1>2, <1>6 DEF Watched
<1>8. NotSilenced
  BY <1>2 DEF NotSilenced
<1>9. StaysClosed
  BY <1>3, <1>4 DEF StaysClosed, Closed
<1>10. Sown'
  BY <1>1, <1>2, <1>6, Sowing
<1> QED BY <1>1, <1>2, <1>5, <1>7, <1>8, <1>9, <1>10 DEF AmbientInv

\* A thought crystallized: what is there already was seeded anew.
LEMMA StepCrystallizes ==
  ASSUME AmbientSane, AmbientInv, NEW c \in Seeded, Crystallizes(c)
  PROVE  AmbientInv' /\ NotSilenced /\ StaysClosed
<1>1. TypeOK /\ Watched /\ Sown /\ (frame # NoFrame => IsInjective(frame))
  BY DEF AmbientInv
<1>2. /\ learned' = learned /\ fit' = fit /\ ring' = frame /\ frame' = NoFrame /\ frame # NoFrame
      /\ turn' = turn /\ turns' = turns /\ doubled' = doubled /\ thought[c] = "live"
      /\ owed' = [owed EXCEPT ![c] = "active"]
      /\ thought' = [thought EXCEPT ![c] = "retired"]
  BY DEF Crystallizes, Commits
<1>3. PICK S \in SUBSET Commitments : thought \in [S -> {"none", "live", "retired"}]
  BY <1>1 DEF TypeOK
<1>4. Seeded = S /\ c \in S /\ c \in Commitments
  BY <1>3 DEF Seeded
<1>5. thought' \in [S -> {"none", "live", "retired"}] /\ Seeded' = Seeded
      /\ \A d \in S : thought'[d] = IF d = c THEN "retired" ELSE thought[d]
  BY <1>2, <1>3, <1>4 DEF Seeded
<1>6. /\ owed' \in [Commitments -> CommitmentStates]
      /\ \A d \in Commitments : owed'[d] = IF d = c THEN "active" ELSE owed[d]
  BY <1>1, <1>2, <1>4 DEF TypeOK, CommitmentStates
<1>7. TypeOK'
  <2>1. frame \in Seq(Beliefs) /\ Len(frame) <= RingCap /\ IsInjective(frame)
    BY <1>1, <1>2 DEF TypeOK
  <2> QED BY <1>1, <1>2, <1>5, <1>6, <2>1, Types DEF TypeOK
<1>8. Watched'
  BY <1>1, <1>2, <1>4, <1>6 DEF Watched, Sown
<1>9. Sown'
  BY <1>1, <1>2, <1>4, <1>5, <1>6 DEF Sown
<1>10. NotSilenced
  BY <1>2 DEF NotSilenced
<1>11. owed[c] # "absent" => c \in doubled
  BY <1>1, <1>2 DEF Sown
<1>12. StaysClosed
  BY <1>6, <1>11 DEF StaysClosed, Closed
<1> QED BY <1>2, <1>7, <1>8, <1>9, <1>10, <1>12 DEF AmbientInv

\* A thought comes, comes again, or is retired.
LEMMA StepThought ==
  ASSUME AmbientSane, AmbientInv, NEW c \in Seeded, ThoughtComes(c) \/ ThoughtEnds(c)
  PROVE  AmbientInv' /\ NotSilenced /\ StaysClosed
<1>1. TypeOK /\ Watched /\ Sown /\ (frame # NoFrame => IsInjective(frame))
  BY DEF AmbientInv
<1>2. /\ learned' = learned /\ fit' = fit /\ ring' = frame /\ frame' = NoFrame /\ frame # NoFrame
      /\ owed' = owed /\ turn' = turn /\ turns' = turns
  BY DEF ThoughtComes, ThoughtEnds, Commits
<1>3. PICK S \in SUBSET Commitments : thought \in [S -> {"none", "live", "retired"}]
  BY <1>1 DEF TypeOK
<1>4. Seeded = S /\ c \in S /\ c \in Commitments
  BY <1>3 DEF Seeded
<1>5. /\ thought' \in [S -> {"none", "live", "retired"}] /\ Seeded' = Seeded
      /\ \A d \in S : d # c => thought'[d] = thought[d]
      /\ doubled \subseteq doubled' /\ doubled' \subseteq Commitments
      /\ thought[c] = "retired" => thought'[c] = "retired" \/ c \in doubled'
  BY <1>1, <1>3, <1>4 DEF Seeded, ThoughtComes, ThoughtEnds, TypeOK
<1>6. TypeOK'
  <2>1. frame \in Seq(Beliefs) /\ Len(frame) <= RingCap /\ IsInjective(frame)
    BY <1>1, <1>2 DEF TypeOK
  <2> QED BY <1>1, <1>2, <1>5, <2>1, Types DEF TypeOK
<1>7. Watched'
  BY <1>1, <1>2, <1>5 DEF Watched
<1>8. Sown'
  BY <1>1, <1>2, <1>4, <1>5 DEF Sown
<1>9. NotSilenced /\ StaysClosed
  BY <1>2 DEF NotSilenced, StaysClosed, Closed
<1> QED BY <1>1, <1>2, <1>6, <1>7, <1>8, <1>9 DEF AmbientInv

\* Every step keeps what is known of a state, and is faithful to it.
LEMMA AmbientStepInv ==
  ASSUME AmbientSane, AmbientInv, [Next]_vars
  PROVE  AmbientInv' /\ NotSilenced /\ StaysClosed
<1>1. CASE UNCHANGED vars
  <2>1. /\ learned' = learned /\ fit' = fit /\ ring' = ring /\ frame' = frame /\ owed' = owed
        /\ turn' = turn /\ turns' = turns /\ doubled' = doubled /\ thought' = thought
    BY <1>1 DEF vars
  <2>2. Beliefs' = Beliefs /\ Activities' = Activities
    BY <2>1 DEF Beliefs, Activities
  <2>3. AmbientInv'
    BY <2>1, <2>2 DEF AmbientInv, TypeOK, Watched, Sown, Seeded
  <2> QED BY <2>1, <2>3 DEF NotSilenced, StaysClosed, Closed
<1>2. CASE Next
  BY <1>2, StepLearns, StepFrame, StepLooksAtRing, StepPicksBeliefs, StepStampsAndShows,
     StepCreates, StepTurnEnds, StepLooksFor, StepMoves, StepCrystallizes, StepThought DEF Next
<1> QED BY <1>1, <1>2

\* What is fit to surface is not silenced, what was closed stays so.
THEOREM NothingForgotten == AmbientSane => (Spec => []TypeOK /\ Faithful)
<1> SUFFICES ASSUME AmbientSane PROVE Spec => []TypeOK /\ Faithful
  OBVIOUS
<1>1. Init => AmbientInv
  BY AmbientInitInv
<1>2. AmbientInv /\ [Next]_vars => AmbientInv'
  BY AmbientStepInv
<1>3. AmbientInv /\ [Next]_vars => [NotSilenced /\ StaysClosed]_vars
  BY AmbientStepInv
<1>4. AmbientInv => TypeOK
  BY DEF AmbientInv
<1> QED BY <1>1, <1>2, <1>3, <1>4, PTL DEF Spec, Faithful

-----------------------------------------------------------------------------
(* What the human says.                                                    *)

\* The bounds are numbers, and no message has the name of none.
IntakeSane ==
  /\ I!NoId \notin Ids /\ Ttl \in Nat /\ IdCap \in Nat \ {0} /\ UMax \in Nat /\ Beta \in Nat
  /\ Threshold \in Nat \ {0} /\ MaxNow \in Nat \ {0} /\ MaxFaults \in Nat

\* A message felt within its time, with fewer than the cap's worth of others
\* recorded behind it, is in the ring, no further from its end than those.
Kept(id) ==
  feltAt[id] # I!Never /\ now - feltAt[id] <= Ttl /\ since[id] < IdCap =>
    \E p \in DOMAIN arrived :
      /\ arrived[p].id = id /\ arrived[p].at >= feltAt[id]
      /\ Len(arrived) - p <= since[id]

\* No entry of the ring is of a time to come.
Past == \A i \in DOMAIN arrived : arrived[i].at <= now

IntakeInv == I!TypeOK /\ Past /\ I!Landed /\ I!FeltOnce /\ \A id \in Ids : Kept(id)

-----------------------------------------------------------------------------

\* Places that come before the others are counted by the last of them.
LEMMA Prefix ==
  ASSUME NEW n \in Nat, NEW S \in SUBSET (1 .. n),
         \A i \in S, j \in 1 .. n : j <= i => j \in S
  PROVE  Cardinality(S) \in 0 .. n /\ S = 1 .. Cardinality(S)
<1>1. CASE S = 1 .. n
  BY <1>1, Counted
<1>2. CASE S # 1 .. n
  <2> DEFINE T == (1 .. n) \ S
  <2>1. T \in SUBSET Nat /\ T # {}
    <3>1. \E x \in 1 .. n : x \notin S
      <4> SUFFICES ASSUME \A x \in 1 .. n : x \in S PROVE FALSE
        OBVIOUS
      <4>1. 1 .. n \subseteq S /\ S \subseteq 1 .. n
        OBVIOUS
      <4> QED BY <1>2, <4>1, Zenon
    <3> QED BY <3>1
  <2>2. PICK t \in T : \A y \in T : t <= y
    BY <2>1, LeastOf
  <2>3. t \in 1 .. n /\ t \notin S /\ t - 1 \in Nat
    BY <2>2
  <2>4. ASSUME NEW i \in S PROVE i \in 1 .. (t - 1)
    <3>1. i \in 1 .. n /\ ~(t <= i)
      BY <2>3
    <3> QED BY <2>3, <3>1
  <2>5. ASSUME NEW i \in 1 .. (t - 1) PROVE i \in S
    <3>1. i \in 1 .. n /\ ~(t <= i)
      BY <2>3
    <3> QED BY <2>2, <3>1
  <2>6. S = 1 .. (t - 1)
    BY <2>4, <2>5
  <2> QED BY <2>3, <2>6, Counted
<1> QED BY <1>1, <1>2

\* What a state is made of.
LEMMA IntakeFacts ==
  ASSUME IntakeSane, I!TypeOK, Past
  PROVE  /\ now \in 1 .. MaxNow /\ MaxNow \in Nat /\ now \in Nat /\ Ttl \in Nat /\ IdCap \in Nat \ {0}
         /\ arrived \in Seq(I!Entries) /\ Len(arrived) \in Nat /\ DOMAIN arrived = 1 .. Len(arrived)
         /\ Len(arrived) <= IdCap
         /\ \A i \in 1 .. Len(arrived) : arrived[i].id \in Ids /\ arrived[i].at \in 1 .. now
         /\ \A i, j \in 1 .. Len(arrived) : /\ arrived[i].id = arrived[j].id => i = j
                                            /\ i <= j => arrived[i].at <= arrived[j].at
<1>1. now \in 1 .. MaxNow /\ MaxNow \in Nat /\ Ttl \in Nat /\ IdCap \in Nat \ {0}
  BY DEF IntakeSane, I!TypeOK
<1>2. now \in Nat
  BY <1>1
<1>3. arrived \in Seq(I!Entries) /\ Len(arrived) <= IdCap
  BY DEF I!TypeOK
<1>4. Len(arrived) \in Nat /\ DOMAIN arrived = 1 .. Len(arrived)
  BY <1>3
<1>5. ASSUME NEW i \in 1 .. Len(arrived) PROVE arrived[i] \in I!Entries
  BY <1>3, <1>4
<1>6. ASSUME NEW i \in 1 .. Len(arrived) PROVE arrived[i].at <= now
  BY <1>4 DEF Past
<1>7. ASSUME NEW i \in 1 .. Len(arrived) PROVE arrived[i].id \in Ids /\ arrived[i].at \in 1 .. now
  <2>1. arrived[i].id \in Ids /\ arrived[i].at \in 1 .. MaxNow
    BY <1>5 DEF I!Entries
  <2> QED BY <1>1, <1>2, <1>6, <2>1
<1>8. \A i, j \in 1 .. Len(arrived) : /\ arrived[i].id = arrived[j].id => i = j
                                      /\ i <= j => arrived[i].at <= arrived[j].at
  BY <1>4 DEF I!TypeOK
<1> QED BY <1>1, <1>2, <1>3, <1>4, <1>7, <1>8

\* What a sweep leaves: an end of the ring, with all that is live.
LEMMA Sweeping ==
  ASSUME IntakeSane, I!TypeOK, Past
  PROVE  \E d \in 0 .. Len(arrived) :
           /\ I!Swept \in Seq(I!Entries) /\ Len(I!Swept) = Len(arrived) - d
           /\ \A i \in 1 .. Len(arrived) - d :
                i + d \in 1 .. Len(arrived) /\ I!Swept[i] = arrived[i + d] /\ I!Live(arrived[i + d])
           /\ \A i \in 1 .. Len(arrived) : I!Live(arrived[i]) => i > d
<1> DEFINE S == {i \in DOMAIN arrived : ~I!Live(arrived[i])}
           n == Len(arrived)
           d == Cardinality(S)
<1>1. /\ now \in Nat /\ Ttl \in Nat /\ arrived \in Seq(I!Entries) /\ n \in Nat /\ DOMAIN arrived = 1 .. n
      /\ \A i \in 1 .. n : arrived[i].at \in 1 .. now
      /\ \A i, j \in 1 .. n : i <= j => arrived[i].at <= arrived[j].at
      /\ \A i \in 1 .. n : arrived[i] \in I!Entries
  BY IntakeFacts
<1>2. S \in SUBSET (1 .. n)
  BY <1>1
<1>3. ASSUME NEW i \in S, NEW j \in 1 .. n, j <= i PROVE j \in S
  <2>1. i \in 1 .. n /\ now - arrived[i].at > Ttl
    BY <1>1 DEF I!Live
  <2>2. arrived[j].at <= arrived[i].at /\ arrived[j].at \in 1 .. now /\ arrived[i].at \in 1 .. now
    BY <1>1, <1>3, <2>1
  <2> QED BY <1>1, <2>1, <2>2 DEF I!Live
<1>4. d \in 0 .. n /\ S = 1 .. d
  BY <1>1, <1>2, <1>3, Prefix
<1>5. \A i \in 1 .. n : I!Live(arrived[i]) <=> i \notin S
  BY <1>1
<1>6. I!Swept = SubSeq(arrived, 1 + d, n)
  BY OneSize DEF I!Swept
<1> HIDE DEF S, d, n
<1>7. \A i \in 1 + d .. n : i \in 1 .. n /\ arrived[i] \in I!Entries
  BY <1>1, <1>4
<1>8. /\ I!Swept \in Seq(I!Entries)
      /\ Len(I!Swept) = IF 1 + d <= n THEN n - (1 + d) + 1 ELSE 0
      /\ \A i \in 1 .. n - (1 + d) + 1 : I!Swept[i] = arrived[1 + d + i - 1]
  BY <1>1, <1>4, <1>6, <1>7, SubSeqProperties
<1>9. Len(I!Swept) = n - d
  BY <1>1, <1>4, <1>8
<1>10. ASSUME NEW i \in 1 .. n - d
       PROVE  i + d \in 1 .. n /\ I!Swept[i] = arrived[i + d] /\ I!Live(arrived[i + d])
  <2>1. i + d \in 1 .. n /\ i \in 1 .. n - (1 + d) + 1 /\ 1 + d + i - 1 = i + d
    BY <1>1, <1>4
  <2>2. i + d \notin S
    BY <1>4
  <2> QED BY <1>5, <1>8, <2>1, <2>2
<1>11. ASSUME NEW i \in 1 .. n, I!Live(arrived[i]) PROVE i > d
  BY <1>1, <1>4, <1>5, <1>11
<1> QED BY <1>4, <1>8, <1>9, <1>10, <1>11 DEF n

\* What a frame records: an end of the ring and the message.  Nothing live is
\* lost that fits under the cap.
LEMMA IntakeRecording ==
  ASSUME IntakeSane, I!TypeOK, Past, NEW id \in Ids \cup {I!NoId}
  PROVE  \E d \in 0 .. Len(arrived), e \in {0, 1} :
           /\ e = IF I!Fresh(id) THEN 1 ELSE 0
           /\ I!Recorded(id) \in Seq(I!Entries)
           /\ Len(I!Recorded(id)) = Len(arrived) - d + e /\ Len(I!Recorded(id)) <= IdCap
           /\ \A i \in 1 .. Len(arrived) - d :
                /\ i + d \in 1 .. Len(arrived)
                /\ I!Recorded(id)[i] = arrived[i + d] /\ I!Live(arrived[i + d])
           /\ I!Fresh(id) => I!Recorded(id)[Len(arrived) - d + 1] = [id |-> id, at |-> now]
           /\ \A i \in 1 .. Len(arrived) :
                I!Live(arrived[i]) /\ Len(arrived) - i + e < IdCap => i > d
<1> DEFINE n == Len(arrived)
           e == IF I!Fresh(id) THEN 1 ELSE 0
           new == [id |-> id, at |-> now]
<1>1. PICK c \in 0 .. n :
           /\ I!Swept \in Seq(I!Entries) /\ Len(I!Swept) = n - c
           /\ \A i \in 1 .. n - c :
                i + c \in 1 .. n /\ I!Swept[i] = arrived[i + c] /\ I!Live(arrived[i + c])
           /\ \A i \in 1 .. n : I!Live(arrived[i]) => i > c
  BY Sweeping
<1>2. n \in Nat /\ IdCap \in Nat /\ IdCap >= 1 /\ n <= IdCap /\ now \in 1 .. MaxNow
  BY IntakeFacts
<1>3. I!Fresh(id) => new \in I!Entries
  BY <1>2 DEF I!Fresh, I!Entries
<1>4. /\ e \in {0, 1} /\ I!Full(id) \in Seq(I!Entries) /\ Len(I!Full(id)) = n - c + e
      /\ \A i \in 1 .. n - c : I!Full(id)[i] = arrived[i + c]
      /\ I!Fresh(id) => I!Full(id)[n - c + 1] = new
  <2>1. CASE I!Fresh(id)
    <3>1. I!Full(id) = Append(I!Swept, new) /\ e = 1 /\ new \in I!Entries
      BY <1>3, <2>1 DEF I!Full
    <3> HIDE DEF new
    <3>2. /\ I!Full(id) \in Seq(I!Entries) /\ Len(I!Full(id)) = Len(I!Swept) + 1
          /\ I!Full(id)[Len(I!Swept) + 1] = new
          /\ \A i \in 1 .. Len(I!Swept) : I!Full(id)[i] = I!Swept[i]
      BY <1>1, <3>1
    <3> QED BY <1>1, <1>2, <3>1, <3>2
  <2>2. CASE ~I!Fresh(id)
    <3>1. I!Full(id) = I!Swept /\ e = 0
      BY <2>2 DEF I!Full
    <3> QED BY <1>1, <1>2, <2>2, <3>1
  <2> QED BY <2>1, <2>2
<1> DEFINE m == n - c + e
           over == I!Less(m, IdCap)
<1>5. I!Recorded(id) = SubSeq(I!Full(id), 1 + over, m)
  BY <1>4 DEF I!Recorded
<1> HIDE DEF e, n, new
<1>6. /\ m \in Nat /\ over \in 0 .. 1 /\ m - over <= IdCap /\ over <= n - c
      /\ over = 1 => m = IdCap + 1 /\ n = IdCap /\ c = 0 /\ e = 1
  BY <1>1, <1>2, <1>4 DEF I!Less
<1> HIDE DEF over, m
<1>7. \A i \in 1 + over .. m : I!Full(id)[i] \in I!Entries
  <2> TAKE i \in 1 + over .. m
  <2>1. i \in 1 .. Len(I!Full(id))
    BY <1>4, <1>6 DEF m
  <2> QED BY <1>4, <2>1
<1>8. /\ I!Recorded(id) \in Seq(I!Entries)
      /\ Len(I!Recorded(id)) = IF 1 + over <= m THEN m - (1 + over) + 1 ELSE 0
      /\ \A i \in 1 .. m - (1 + over) + 1 : I!Recorded(id)[i] = I!Full(id)[1 + over + i - 1]
  BY <1>5, <1>6, <1>7, SubSeqProperties
<1> DEFINE d == c + over
<1>9. d \in 0 .. n /\ m - over = n - d + e
  BY <1>1, <1>2, <1>4, <1>6 DEF m
<1>10. Len(I!Recorded(id)) = n - d + e /\ Len(I!Recorded(id)) <= IdCap
  BY <1>1, <1>2, <1>4, <1>6, <1>8, <1>9 DEF m
<1>11. ASSUME NEW i \in 1 .. n - d
       PROVE  i + d \in 1 .. n /\ I!Recorded(id)[i] = arrived[i + d] /\ I!Live(arrived[i + d])
  <2>1. /\ i + over \in 1 .. n - c /\ (i + over) + c = i + d
        /\ i \in 1 .. m - (1 + over) + 1 /\ 1 + over + i - 1 = i + over
    BY <1>1, <1>2, <1>4, <1>6 DEF m
  <2>2. i + d \in 1 .. n /\ I!Full(id)[i + over] = arrived[i + d] /\ I!Live(arrived[i + d])
    BY <1>1, <1>4, <2>1
  <2> QED BY <1>8, <2>1, <2>2
<1>12. ASSUME I!Fresh(id) PROVE I!Recorded(id)[n - d + 1] = new
  <2>1. e = 1
    BY <1>12 DEF e
  <2>2. /\ n - d + 1 \in 1 .. m - (1 + over) + 1 /\ 1 + over + (n - d + 1) - 1 = n - c + 1
    BY <1>1, <1>2, <1>6, <1>9, <2>1 DEF m
  <2> QED BY <1>4, <1>8, <1>12, <2>2
<1>13. ASSUME NEW i \in 1 .. n, I!Live(arrived[i]), n - i + e < IdCap PROVE i > d
  <2>1. i > c
    BY <1>1, <1>13
  <2> QED BY <1>1, <1>2, <1>6, <1>13, <2>1
<1> HIDE DEF d
<1>14. e = IF I!Fresh(id) THEN 1 ELSE 0
  BY DEF e
<1> QED BY <1>4, <1>8, <1>9, <1>10, <1>11, <1>12, <1>13, <1>14 DEF n, new

-----------------------------------------------------------------------------

LEMMA IntakeInitInv == ASSUME IntakeSane, I!Init PROVE IntakeInv
<1>1. arrived = <<>> /\ Len(arrived) = 0 /\ DOMAIN arrived = {} /\ arrived \in Seq(I!Entries)
  BY DEF I!Init
<1>0. /\ now = 1 /\ u = 0 /\ tickedAt = 0 /\ heardAt = 0 /\ born = FALSE
      /\ numb = {} /\ again = {} /\ faults = 0
  BY DEF I!Init, I!Never
<1>2. I!TypeOK
  <2>1. now \in 1 .. MaxNow /\ {tickedAt, heardAt} \subseteq 0 .. now /\ u \in 0 .. UMax
        /\ faults \in 0 .. MaxFaults
    BY <1>0 DEF IntakeSane
  <2>3. born \in BOOLEAN /\ {numb, again} \subseteq SUBSET Ids
    BY <1>0
  <2>2. failures \in [I!Components -> 0 .. Threshold] /\ feltAt \in [Ids -> I!Never .. now]
        /\ since \in [Ids -> 0 .. IdCap]
    BY DEF I!Init, IntakeSane, I!Never
  <2> QED BY <1>1, <2>1, <2>2, <2>3 DEF I!TypeOK, IntakeSane, I!Never
<1>3. Past /\ I!Landed /\ I!FeltOnce /\ \A id \in Ids : Kept(id)
  BY <1>1 DEF I!Init, Past, I!Landed, I!FeltOnce, Kept
<1> QED BY <1>2, <1>3 DEF IntakeInv

\* The drive and the marks of a frame have their types.
LEMMA FrameTypes ==
  ASSUME IntakeSane, IntakeInv, NEW id \in Ids \cup {I!NoId}, NEW ran \in SUBSET I!Components, I!Frame(id, ran)
  PROVE  /\ u' \in 0 .. UMax /\ {tickedAt', heardAt'} \subseteq I!Never .. now
         /\ heardAt <= heardAt' /\ now' = now /\ born' \in BOOLEAN
         /\ feltAt' \in [Ids -> I!Never .. now] /\ since' \in [Ids -> 0 .. IdCap]
         /\ numb' \subseteq Ids
<1>1. /\ u \in 0 .. UMax /\ UMax \in Nat /\ Beta \in Nat /\ now \in Nat /\ now \in 1 .. MaxNow
      /\ tickedAt \in 0 .. now /\ heardAt \in 0 .. now /\ IdCap \in Nat \ {0}
      /\ feltAt \in [Ids -> 0 .. now] /\ since \in [Ids -> 0 .. IdCap] /\ numb \subseteq Ids
      /\ born \in BOOLEAN
  BY DEF IntakeInv, I!TypeOK, IntakeSane, I!Never
<1>2. I!Fresh(id) => id \in Ids
  BY DEF I!Fresh
<1>3. u' \in 0 .. UMax
  <2>1. I!Silence \in Nat
    BY <1>1 DEF I!Silence, I!Never
  <2>2. I!Least(UMax, u + I!Silence) \in 0 .. UMax
    BY <1>1, <2>1 DEF I!Least
  <2>3. I!Less(I!Least(UMax, u + I!Silence), Beta) \in 0 .. UMax
    BY <1>1, <2>2 DEF I!Less
  <2>4. u' = I!Level(id, ran)
    BY DEF I!Frame
  <2> QED BY <1>1, <2>2, <2>3, <2>4 DEF I!Level
<1>4. {tickedAt', heardAt'} \subseteq I!Never .. now /\ heardAt <= heardAt' /\ now' = now
      /\ born' \in BOOLEAN
  BY <1>1 DEF I!Frame, I!Never
<1>5. feltAt' \in [Ids -> I!Never .. now]
  <2>1. feltAt' = IF I!Felt(id, ran) THEN [feltAt EXCEPT ![id] = now] ELSE feltAt
    BY DEF I!Frame, I!Notes
  <2>2. CASE I!Felt(id, ran)
    <3>1. id \in Ids /\ now \in 0 .. now
      BY <1>1, <1>2, <2>2 DEF I!Felt
    <3> QED BY <1>1, <2>1, <2>2, <3>1 DEF I!Never
  <2> QED BY <1>1, <2>1, <2>2 DEF I!Never
<1>6. since' \in [Ids -> 0 .. IdCap]
  <2>1. since' = [i \in Ids |-> IF I!Felt(id, ran) /\ i = id THEN 0
                                ELSE IF I!Fresh(id) /\ "sensor" \in ran
                                  THEN I!Least(IdCap, since[i] + 1)
                                ELSE since[i]]
    BY DEF I!Frame, I!Notes
  <2>2. \A i \in Ids : I!Least(IdCap, since[i] + 1) \in 0 .. IdCap
    BY <1>1 DEF I!Least
  <2> QED BY <1>1, <2>1, <2>2
<1>7. numb' \subseteq Ids
  <2>1. numb' = IF ~I!Fresh(id) \/ "sensor" \notin ran THEN numb
                ELSE IF ran = I!Components THEN numb \ {id} ELSE numb \cup {id}
    BY DEF I!Frame, I!Notes
  <2> QED BY <1>1, <1>2, <2>1
<1> QED BY <1>3, <1>4, <1>5, <1>6, <1>7

\* Nobody feels a message again that is to be remembered.
LEMMA NotAgain ==
  ASSUME IntakeSane, IntakeInv, NEW id \in Ids \cup {I!NoId}, NEW ran \in SUBSET I!Components, I!Frame(id, ran)
  PROVE  again' = {}
<1>1. again' = IF I!Felt(id, ran) /\ feltAt[id] # I!Never
                  /\ now - feltAt[id] <= Ttl /\ since[id] < IdCap
                 THEN again \cup {id} ELSE again
  BY DEF I!Frame, I!Notes
<1>2. again = {}
  BY DEF IntakeInv, I!FeltOnce
<1> SUFFICES ASSUME I!Felt(id, ran), feltAt[id] # I!Never, now - feltAt[id] <= Ttl, since[id] < IdCap
             PROVE  FALSE
  BY <1>1, <1>2
<1>3. I!Fresh(id) /\ id \in Ids
  BY DEF I!Felt, I!Fresh
<1>4. PICK p \in DOMAIN arrived : arrived[p].id = id /\ arrived[p].at >= feltAt[id]
  BY <1>3 DEF IntakeInv, Kept
<1>5. now \in Nat /\ Ttl \in Nat /\ arrived[p].at \in 1 .. now /\ feltAt[id] \in 0 .. now
  BY <1>3, IntakeFacts DEF IntakeInv, I!TypeOK, I!Never
<1>6. I!Live(arrived[p])
  BY <1>4, <1>5 DEF I!Live
<1> QED BY <1>3, <1>4, <1>6 DEF I!Fresh, I!Remembered

\* A frame whose sensor faulted leaves the ring and what is known of it.
LEMMA DeafFrame ==
  ASSUME IntakeSane, IntakeInv, NEW id \in Ids \cup {I!NoId}, NEW ran \in SUBSET I!Components, I!Frame(id, ran),
         "sensor" \notin ran
  PROVE  arrived' = arrived /\ I!Landed' /\ \A i \in Ids : Kept(i)'
<1>1. arrived' = arrived
  BY DEF I!Frame, I!Remembers
<1>2. feltAt' = feltAt /\ numb' = numb /\ now' = now
  BY DEF I!Frame, I!Notes, I!Felt
<1>3. since' = [i \in Ids |-> since[i]]
  BY DEF I!Frame, I!Notes, I!Felt
<1>4. heardAt <= heardAt' /\ heardAt \in Nat /\ heardAt' \in Nat
  <2>1. heardAt <= heardAt' /\ heardAt' \in 0 .. now
    BY FrameTypes DEF I!Never
  <2>2. heardAt \in 0 .. now /\ now \in Nat
    BY IntakeFacts DEF IntakeInv, I!TypeOK, I!Never
  <2> QED BY <2>1, <2>2
<1>5. I!Landed'
  <2> SUFFICES ASSUME NEW i \in DOMAIN arrived, arrived[i].id \notin numb
               PROVE  feltAt[arrived[i].id] = arrived[i].at /\ heardAt' >= arrived[i].at
    BY <1>1, <1>2 DEF I!Landed
  <2>1. feltAt[arrived[i].id] = arrived[i].at /\ heardAt >= arrived[i].at
    BY DEF IntakeInv, I!Landed
  <2>2. arrived[i].at \in Nat
    BY IntakeFacts DEF IntakeInv
  <2> QED BY <1>4, <2>1, <2>2
<1>6. ASSUME NEW i \in Ids PROVE Kept(i)'
  <2>1. since'[i] = since[i]
    BY <1>3
  <2> QED BY <1>1, <1>2, <2>1 DEF IntakeInv, Kept
<1> QED BY <1>1, <1>5, <1>6

\* A frame whose sensor ran keeps the ring up.
LEMMA HearingFrame ==
  ASSUME IntakeSane, IntakeInv, NEW id \in Ids \cup {I!NoId}, NEW ran \in SUBSET I!Components, I!Frame(id, ran),
         "sensor" \in ran
  PROVE  /\ arrived' \in Seq(I!Entries) /\ Len(arrived') <= IdCap
         /\ \A i, j \in DOMAIN arrived' : /\ arrived'[i].id = arrived'[j].id => i = j
                                          /\ i <= j => arrived'[i].at <= arrived'[j].at
         /\ \A i \in DOMAIN arrived' : arrived'[i].at <= now
         /\ I!Landed' /\ \A i \in Ids : Kept(i)'
<1> DEFINE n == Len(arrived)
           new == [id |-> id, at |-> now]
           next == Len(arrived')
<1>1. arrived' = I!Recorded(id) /\ now' = now
  BY DEF I!Frame, I!Remembers
<1>2. PICK d \in 0 .. n, e \in {0, 1} :
           /\ e = IF I!Fresh(id) THEN 1 ELSE 0
           /\ arrived' \in Seq(I!Entries)
           /\ next = n - d + e /\ next <= IdCap
           /\ \A i \in 1 .. n - d :
                i + d \in 1 .. n /\ arrived'[i] = arrived[i + d] /\ I!Live(arrived[i + d])
           /\ I!Fresh(id) => arrived'[n - d + 1] = new
           /\ \A i \in 1 .. n : I!Live(arrived[i]) /\ n - i + e < IdCap => i > d
  BY <1>1, IntakeRecording DEF IntakeInv
<1>3. /\ now \in 1 .. MaxNow /\ now \in Nat /\ Ttl \in Nat /\ IdCap \in Nat \ {0}
      /\ n \in Nat /\ DOMAIN arrived = 1 .. n
      /\ \A i \in 1 .. n : arrived[i].id \in Ids /\ arrived[i].at \in 1 .. now
      /\ \A i, j \in 1 .. n : /\ arrived[i].id = arrived[j].id => i = j
                              /\ i <= j => arrived[i].at <= arrived[j].at
  BY IntakeFacts DEF IntakeInv
<1>4. DOMAIN arrived' = 1 .. next
  BY <1>2
<1>5. new.id = id /\ new.at = now
  OBVIOUS
<1> HIDE DEF n, new, next
\* Each entry is an old one, or the new one at the end.
<1>6. \A i \in 1 .. next :
        \/ i \in 1 .. n - d /\ i + d \in 1 .. n /\ arrived'[i] = arrived[i + d] /\ I!Live(arrived[i + d])
        \/ I!Fresh(id) /\ i = n - d + 1 /\ arrived'[i] = new
  <2> TAKE i \in 1 .. next
  <2>1. CASE i \in 1 .. n - d
    BY <1>2, <2>1
  <2>2. CASE i \notin 1 .. n - d
    <3>1. e = 1 /\ i = n - d + 1
      BY <1>2, <1>3, <2>2
    <3> QED BY <1>2, <3>1
  <2> QED BY <2>1, <2>2
<1>7. ASSUME NEW k \in 1 .. n, I!Live(arrived[k]), I!Fresh(id) PROVE arrived[k].id # id
  BY <1>3, <1>7 DEF I!Fresh, I!Remembered
<1>8. \A i \in 1 .. next : arrived'[i].at <= now
  BY <1>3, <1>5, <1>6
<1>9. ASSUME NEW i \in 1 .. next, NEW j \in 1 .. next, arrived'[i].id = arrived'[j].id PROVE i = j
  <2>1. CASE i \in 1 .. n - d /\ j \in 1 .. n - d
    <3>1. /\ i + d \in 1 .. n /\ j + d \in 1 .. n
          /\ arrived'[i] = arrived[i + d] /\ arrived'[j] = arrived[j + d]
      BY <1>2, <2>1
    <3>2. i + d = j + d
      BY <1>3, <1>9, <3>1
    <3> QED BY <1>2, <1>3, <3>2
  <2>2. CASE i \in 1 .. n - d /\ j \notin 1 .. n - d
    BY <1>5, <1>6, <1>7, <1>9, <2>2
  <2>3. CASE i \notin 1 .. n - d /\ j \in 1 .. n - d
    BY <1>5, <1>6, <1>7, <1>9, <2>3
  <2>4. CASE i \notin 1 .. n - d /\ j \notin 1 .. n - d
    BY <1>6, <2>4
  <2> QED BY <2>1, <2>2, <2>3, <2>4
<1>10. ASSUME NEW i \in 1 .. next, NEW j \in 1 .. next, i <= j
       PROVE arrived'[i].at <= arrived'[j].at
  <2>1. CASE j \in 1 .. n - d
    <3>1. i \in 1 .. n - d
      BY <1>2, <1>3, <1>10, <2>1
    <3>2. /\ i + d \in 1 .. n /\ j + d \in 1 .. n /\ i + d <= j + d
          /\ arrived'[i] = arrived[i + d] /\ arrived'[j] = arrived[j + d]
      BY <1>2, <1>3, <1>10, <2>1, <3>1
    <3> QED BY <1>3, <3>2
  <2>2. CASE j \notin 1 .. n - d
    <3>1. arrived'[j].at = now
      BY <1>5, <1>6, <2>2
    <3> QED BY <1>8, <3>1
  <2> QED BY <2>1, <2>2
<1>11. /\ feltAt' = IF I!Felt(id, ran) THEN [feltAt EXCEPT ![id] = now] ELSE feltAt
       /\ numb' = IF ~I!Fresh(id) THEN numb
                  ELSE IF ran = I!Components THEN numb \ {id} ELSE numb \cup {id}
       /\ since' = [i \in Ids |-> IF I!Felt(id, ran) /\ i = id THEN 0
                                  ELSE IF I!Fresh(id) THEN I!Least(IdCap, since[i] + 1)
                                  ELSE since[i]]
       /\ heardAt' = IF I!Fresh(id) /\ "aggregation" \in ran THEN now ELSE heardAt
  BY DEF I!Frame, I!Notes
<1>12. /\ heardAt <= heardAt' /\ heardAt \in Nat /\ heardAt' \in Nat
       /\ feltAt \in [Ids -> 0 .. now] /\ since \in [Ids -> 0 .. IdCap]
  <2>1. heardAt <= heardAt' /\ heardAt' \in 0 .. now
    BY FrameTypes DEF I!Never
  <2>2. heardAt \in 0 .. now /\ feltAt \in [Ids -> 0 .. now] /\ since \in [Ids -> 0 .. IdCap]
    BY DEF IntakeInv, I!TypeOK, I!Never
  <2> QED BY <1>3, <2>1, <2>2
<1>13. \A i \in Ids : i # id \/ ~I!Felt(id, ran) => feltAt'[i] = feltAt[i]
  BY <1>11, <1>12
<1>14. I!Felt(id, ran) => id \in Ids /\ feltAt'[id] = now
  BY <1>11, <1>12 DEF I!Felt, I!Fresh
<1>15. I!Landed'
  <2> SUFFICES ASSUME NEW i \in 1 .. next, arrived'[i].id \notin numb'
               PROVE  feltAt'[arrived'[i].id] = arrived'[i].at /\ heardAt' >= arrived'[i].at
    BY <1>4 DEF I!Landed
  <2>1. CASE i \in 1 .. n - d
    <3>1. i + d \in 1 .. n /\ arrived'[i] = arrived[i + d] /\ I!Live(arrived[i + d])
      BY <1>2, <2>1
    <3>2. I!Fresh(id) => arrived[i + d].id # id
      BY <1>7, <3>1
    <3>3. arrived[i + d].id \notin numb
      BY <1>11, <3>1, <3>2
    <3>4. feltAt[arrived[i + d].id] = arrived[i + d].at /\ heardAt >= arrived[i + d].at
      BY <1>3, <3>1, <3>3 DEF IntakeInv, I!Landed
    <3>5. feltAt'[arrived[i + d].id] = feltAt[arrived[i + d].id]
      BY <1>3, <1>13, <3>1, <3>2 DEF I!Felt
    <3>6. arrived[i + d].at \in Nat
      BY <1>3, <3>1
    <3> QED BY <1>12, <3>1, <3>4, <3>5, <3>6
  <2>2. CASE i \notin 1 .. n - d
    <3>1. I!Fresh(id) /\ arrived'[i].id = id /\ arrived'[i].at = now
      BY <1>5, <1>6, <2>2
    <3>2. ran = I!Components
      BY <1>11, <3>1
    <3>3. I!Felt(id, ran) /\ "aggregation" \in ran
      BY <3>1, <3>2 DEF I!Felt, I!Components
    <3> QED BY <1>3, <1>11, <1>14, <3>1, <3>3
  <2> QED BY <2>1, <2>2
<1>16. ASSUME NEW x \in Ids, feltAt'[x] # I!Never, now - feltAt'[x] <= Ttl, since'[x] < IdCap
       PROVE  \E p \in 1 .. next : /\ arrived'[p].id = x /\ arrived'[p].at >= feltAt'[x]
                                   /\ next - p <= since'[x]
  <2>1. CASE I!Fresh(id) /\ x = id
    <3>1. e = 1 /\ next = n - d + 1 /\ next \in 1 .. next
      BY <1>2, <1>3, <2>1
    <3>2. arrived'[next].id = x /\ arrived'[next].at = now
      BY <1>2, <1>5, <2>1, <3>1
    <3>3. feltAt'[x] <= now /\ feltAt'[x] \in Nat
      BY <1>3, <1>12, <1>13, <1>14
    <3>4. since'[x] \in Nat
      <4>1. since' \in [Ids -> 0 .. IdCap]
        BY FrameTypes
      <4> QED BY <1>3, <4>1
    <3> QED BY <1>3, <3>1, <3>2, <3>3, <3>4
  <2>2. CASE ~(I!Fresh(id) /\ x = id)
    <3>1. ~(I!Felt(id, ran) /\ x = id)
      BY <2>2 DEF I!Felt
    <3>2. feltAt'[x] = feltAt[x] /\ feltAt[x] \in 0 .. now /\ since[x] \in 0 .. IdCap
      BY <1>12, <1>13, <3>1
    <3>3. since'[x] = since[x] + e /\ since[x] < IdCap
      <4>1. CASE I!Fresh(id)
        <5>1. since'[x] = I!Least(IdCap, since[x] + 1) /\ e = 1
          BY <1>2, <1>11, <3>1, <4>1
        <5> QED BY <1>3, <1>16, <3>2, <5>1 DEF I!Least
      <4>2. CASE ~I!Fresh(id)
        <5>1. since'[x] = since[x] /\ e = 0
          BY <1>2, <1>11, <3>1, <4>2
        <5> QED BY <1>16, <3>2, <5>1
      <4> QED BY <4>1, <4>2
    <3>4. PICK p \in 1 .. n : arrived[p].id = x /\ arrived[p].at >= feltAt[x] /\ n - p <= since[x]
      BY <1>3, <1>16, <3>2, <3>3 DEF IntakeInv, Kept, n
    <3>5. I!Live(arrived[p])
      BY <1>3, <1>16, <3>2, <3>4 DEF I!Live
    <3>6. n - p + e < IdCap
      BY <1>2, <1>3, <1>16, <3>2, <3>3, <3>4
    <3>7. p > d
      BY <1>2, <3>5, <3>6
    <3>8. p - d \in 1 .. n - d /\ (p - d) + d = p /\ p - d \in 1 .. next
      BY <1>2, <1>3, <3>7
    <3>9. arrived'[p - d] = arrived[p]
      BY <1>2, <3>8
    <3>10. next - (p - d) <= since'[x]
      BY <1>2, <1>3, <3>2, <3>3, <3>4
    <3> QED BY <3>2, <3>4, <3>8, <3>9, <3>10
  <2> QED BY <2>1, <2>2
<1>17. \A x \in Ids : Kept(x)'
  BY <1>1, <1>4, <1>16 DEF Kept, next
<1> QED BY <1>2, <1>4, <1>8, <1>9, <1>10, <1>15, <1>17 DEF next

LEMMA FrameInv ==
  ASSUME IntakeSane, IntakeInv, NEW id \in Ids \cup {I!NoId}, NEW ran \in SUBSET I!Components, I!Frame(id, ran),
         failures' \in [I!Components -> 0 .. Threshold], faults' \in 0 .. MaxFaults
  PROVE  IntakeInv'
<1>1. /\ u' \in 0 .. UMax /\ {tickedAt', heardAt'} \subseteq I!Never .. now
      /\ now' = now /\ born' \in BOOLEAN
      /\ feltAt' \in [Ids -> I!Never .. now] /\ since' \in [Ids -> 0 .. IdCap]
      /\ numb' \subseteq Ids
  BY FrameTypes
<1>2. again' = {}
  BY NotAgain
<1>3. /\ arrived' \in Seq(I!Entries) /\ Len(arrived') <= IdCap
      /\ \A i, j \in DOMAIN arrived' : /\ arrived'[i].id = arrived'[j].id => i = j
                                       /\ i <= j => arrived'[i].at <= arrived'[j].at
      /\ \A i \in DOMAIN arrived' : arrived'[i].at <= now
      /\ I!Landed' /\ \A i \in Ids : Kept(i)'
  <2>1. CASE "sensor" \in ran
    BY <2>1, HearingFrame
  <2>2. CASE "sensor" \notin ran
    <3>1. arrived' = arrived /\ I!Landed' /\ \A i \in Ids : Kept(i)'
      BY <2>2, DeafFrame
    <3>2. /\ arrived \in Seq(I!Entries) /\ Len(arrived) <= IdCap
          /\ \A i, j \in DOMAIN arrived : /\ arrived[i].id = arrived[j].id => i = j
                                          /\ i <= j => arrived[i].at <= arrived[j].at
          /\ \A i \in DOMAIN arrived : arrived[i].at <= now
      BY DEF IntakeInv, I!TypeOK, Past
    <3> QED BY <3>1, <3>2
  <2> QED BY <2>1, <2>2
<1>4. I!TypeOK'
  BY <1>1, <1>2, <1>3 DEF IntakeInv, I!TypeOK
<1>5. Past'
  BY <1>1, <1>3 DEF Past
<1> QED BY <1>2, <1>3, <1>4, <1>5 DEF IntakeInv, I!FeltOnce

\* What a fault costs.
LEMMA FailsTypes ==
  ASSUME IntakeSane, I!TypeOK, NEW outs \in SUBSET I!Components, I!Fails(outs)
  PROVE  faults' \in 0 .. MaxFaults
BY DEF IntakeSane, I!TypeOK, I!Fails

LEMMA CountsTypes ==
  ASSUME IntakeSane, I!TypeOK, NEW outs \in SUBSET I!Components, I!Counts(outs)
  PROVE  failures' \in [I!Components -> 0 .. Threshold]
<1>1. Threshold \in Nat /\ failures \in [I!Components -> 0 .. Threshold]
  BY DEF IntakeSane, I!TypeOK
<1>2. \A c \in I!Components :
        (IF c \in I!Broken THEN Threshold ELSE IF c \in outs THEN failures[c] + 1 ELSE 0)
          \in 0 .. Threshold
  BY <1>1 DEF I!Broken
<1> QED BY <1>2 DEF I!Counts

LEMMA BirthsInv == ASSUME IntakeSane, IntakeInv, I!Births PROVE IntakeInv'
BY DEF IntakeSane, IntakeInv, I!TypeOK, Past, I!Landed, I!FeltOnce, Kept, I!Live, I!Births

LEMMA RestartsInv == ASSUME IntakeSane, IntakeInv, I!Restarts PROVE IntakeInv'
<1>1. failures' \in [I!Components -> 0 .. Threshold]
  BY DEF IntakeSane, I!Restarts
<1> QED BY <1>1 DEF IntakeSane, IntakeInv, I!TypeOK, Past, I!Landed, I!FeltOnce, Kept, I!Live,
           I!Restarts

LEMMA OwnerSetsInv ==
  ASSUME IntakeSane, IntakeInv, NEW level \in 0 .. UMax, I!OwnerSets(level) PROVE IntakeInv'
BY DEF IntakeSane, IntakeInv, I!TypeOK, Past, I!Landed, I!FeltOnce, Kept, I!Live, I!OwnerSets

LEMMA BeatAbortsInv ==
  ASSUME IntakeSane, IntakeInv, NEW outs \in SUBSET I!Components, I!BeatAborts(outs) PROVE IntakeInv'
<1>1. failures' \in [I!Components -> 0 .. Threshold]
  BY CountsTypes DEF IntakeInv, I!BeatAborts
<1>2. faults' \in 0 .. MaxFaults
  BY DEF IntakeSane, IntakeInv, I!TypeOK, I!BeatAborts
<1> QED BY <1>1, <1>2 DEF IntakeSane, IntakeInv, I!TypeOK, Past, I!Landed, I!FeltOnce, Kept,
           I!Live, I!BeatAborts

LEMMA PassesInv == ASSUME IntakeSane, IntakeInv, I!Passes PROVE IntakeInv'
<1>1. /\ now \in Nat /\ now' = now + 1 /\ now' \in 1 .. MaxNow /\ Ttl \in Nat
      /\ arrived' = arrived /\ feltAt' = feltAt /\ since' = since /\ numb' = numb /\ heardAt' = heardAt
      /\ again' = again /\ tickedAt' = tickedAt
  BY DEF IntakeSane, IntakeInv, I!TypeOK, I!Passes
<1>2. /\ {tickedAt, heardAt} \subseteq I!Never .. now'
      /\ feltAt \in [Ids -> I!Never .. now']
  <2>1. tickedAt \in 0 .. now /\ heardAt \in 0 .. now /\ feltAt \in [Ids -> 0 .. now]
    BY DEF IntakeInv, I!TypeOK, I!Never
  <2> QED BY <1>1, <2>1 DEF I!Never
<1>3. I!TypeOK'
  BY <1>1, <1>2 DEF IntakeInv, I!TypeOK, I!Passes
<1>4. Past'
  <2>1. \A i \in DOMAIN arrived : arrived[i].at <= now /\ arrived[i].at \in Nat
    BY IntakeFacts DEF IntakeInv
  <2> QED BY <1>1, <2>1 DEF Past
<1>5. ASSUME NEW id \in Ids PROVE Kept(id)'
  <2>1. feltAt[id] \in Nat
    BY <1>1 DEF IntakeInv, I!TypeOK, I!Never
  <2>2. now' - feltAt[id] <= Ttl => now - feltAt[id] <= Ttl
    BY <1>1, <2>1
  <2> QED BY <1>1, <2>2 DEF IntakeInv, Kept
<1> QED BY <1>1, <1>3, <1>4, <1>5 DEF IntakeInv, I!Landed, I!FeltOnce

LEMMA ResetsInv == ASSUME IntakeSane, IntakeInv, I!Resets PROVE IntakeInv'
<1>1. /\ arrived' = <<>> /\ u' = 0 /\ tickedAt' = 0 /\ heardAt' = 0 /\ born' = FALSE
      /\ feltAt' = [i \in Ids |-> I!Never] /\ numb' = {} /\ now' = now /\ failures' = failures
      /\ since' = since /\ again' = again /\ faults' = faults
  BY DEF I!Resets, I!Never
<1>2. arrived' \in Seq(I!Entries) /\ Len(arrived') = 0 /\ DOMAIN arrived' = {}
  BY <1>1
<1>3. {tickedAt', heardAt'} \subseteq 0 .. now' /\ u' \in 0 .. UMax /\ born' \in BOOLEAN
      /\ Len(arrived') <= IdCap /\ 0 \in 0 .. now'
  <2>1. now' \in Nat /\ UMax \in Nat /\ IdCap \in Nat
    BY <1>1 DEF IntakeSane, IntakeInv, I!TypeOK
  <2>2. 0 \in 0 .. now' /\ u' \in 0 .. UMax /\ Len(arrived') <= IdCap
    BY <1>1, <1>2, <2>1
  <2> QED BY <1>1, <2>2
<1>4. feltAt' \in [Ids -> 0 .. now'] /\ {numb', again'} \subseteq SUBSET Ids
  BY <1>1, <1>3 DEF IntakeInv, I!TypeOK, I!Never
<1>5. I!TypeOK'
  BY <1>1, <1>2, <1>3, <1>4 DEF IntakeInv, I!TypeOK, I!Never
<1>6. Past' /\ I!Landed' /\ I!FeltOnce'
  BY <1>1, <1>2 DEF IntakeInv, Past, I!Landed, I!FeltOnce
<1>7. \A id \in Ids : Kept(id)'
  BY <1>1 DEF Kept
<1> QED BY <1>5, <1>6, <1>7 DEF IntakeInv

\* Each step keeps the invariant.
LEMMA IntakeStepInv == ASSUME IntakeSane, IntakeInv, [I!Next]_(I!vars) PROVE IntakeInv'
<1>1. ASSUME NEW outs \in I!Outs, NEW id \in Ids, I!Inbound(id, outs) PROVE IntakeInv'
  <2>1. outs \in SUBSET I!Components /\ I!Components \ outs \in SUBSET I!Components
    BY DEF I!Outs
  <2>2. failures' \in [I!Components -> 0 .. Threshold] /\ faults' \in 0 .. MaxFaults
    BY <1>1, <2>1, FailsTypes DEF IntakeInv, I!TypeOK, I!Inbound
  <2> QED BY <1>1, <2>1, <2>2, FrameInv DEF I!Inbound
<1>2. ASSUME NEW outs \in I!Outs, I!Beat(outs) PROVE IntakeInv'
  <2>1. outs \in SUBSET I!Components /\ I!Components \ (outs \cup I!Broken) \in SUBSET I!Components
    BY DEF I!Outs
  <2>2. failures' \in [I!Components -> 0 .. Threshold] /\ faults' \in 0 .. MaxFaults
    BY <1>2, <2>1, FailsTypes, CountsTypes DEF IntakeInv, I!Beat
  <2> QED BY <1>2, <2>1, <2>2, FrameInv DEF I!Beat
<1>3. ASSUME NEW outs \in I!Outs, I!BeatAborts(outs) PROVE IntakeInv'
  BY <1>3, BeatAbortsInv DEF I!Outs
<1>4. CASE UNCHANGED I!vars
  BY <1>4 DEF I!vars, IntakeInv, I!TypeOK, Past, I!Landed, I!FeltOnce, Kept, I!Live
<1> QED BY <1>1, <1>2, <1>3, <1>4, PassesInv, BirthsInv, ResetsInv, RestartsInv, OwnerSetsInv
    DEF I!Next

LEMMA InvSensed == IntakeInv => I!Sensed
BY DEF IntakeInv, I!Sensed

\* What the human says reaches the drive and reaches it once.
THEOREM ReachesOnce == IntakeSane => (I!Spec => []I!Sensed)
<1> SUFFICES ASSUME IntakeSane PROVE I!Spec => []I!Sensed
  OBVIOUS
<1>1. I!Init => IntakeInv
  BY IntakeInitInv
<1>2. IntakeInv /\ [I!Next]_(I!vars) => IntakeInv'
  BY IntakeStepInv
<1>3. IntakeInv => I!Sensed
  BY InvSensed
<1> QED BY <1>1, <1>2, <1>3, PTL DEF I!Spec

-----------------------------------------------------------------------------
(* When it may reach out.                                                  *)

\* The bounds are numbers, the gap is shorter than a day, and the log keeps
\* what the cap counts.
PacingSane ==
  /\ Window \in Nat /\ Deadline \in Nat /\ LastNow \in Nat \ {0} /\ MaxLaunches \in Nat
  /\ Day \in Nat /\ Gap \in Nat /\ Gap <= Day
  /\ MaxPerDay \in Nat \ {0} /\ Keep \in Nat /\ MaxPerDay <= Keep

\* The log is in the order of time.
Sorted == \A i, j \in DOMAIN log : i <= j => log[i] <= log[j]

\* The log is the end of the sends, each logged no earlier than it was said.
Aligned ==
  /\ Len(log) <= Len(said) /\ (Len(said) <= Keep => Len(log) = Len(said))
  /\ Len(said) > Keep => Len(log) = Keep
  /\ \A k \in DOMAIN log : said[k + (Len(said) - Len(log))] <= log[k]

\* A launch in flight was let through by the log as it is.
LetThrough ==
  pending # P!NoLaunch =>
    /\ P!AllowSend(pending.since) /\ pending.id <= launches
    /\ answer # P!NoLaunch /\ answer.id = pending.id => pending.since <= answer.at

\* No answer is of a launch to come, no turn is without a launch.
Numbered == (answer # P!NoLaunch => answer.id <= launches) /\ composing <= launches

PacingInv == P!TypeOK /\ Sorted /\ Aligned /\ LetThrough /\ Numbered /\ P!Spaced

Pendings(n) == [id : P!Launched, since : 1 .. n]
Answers(n)  == [id : P!Launched, verdict : {"sent", "silent"}, at : 1 .. n]

LEMMA Apart ==
  ASSUME NEW n \in Nat
  PROVE  /\ P!NoLaunch.id = 0
         /\ \A p \in Pendings(n) : p.id \in P!Launched /\ p.since \in 1 .. n /\ p # P!NoLaunch
                                   /\ p.id # 0
         /\ \A p \in Answers(n) : p.id \in P!Launched /\ p.verdict \in {"sent", "silent"}
                                  /\ p.at \in 1 .. n /\ p # P!NoLaunch /\ p.id # 0
BY DEF P!NoLaunch, Pendings, Answers, P!Launched

LEMMA PacingInitInv == ASSUME PacingSane, P!Init PROVE PacingInv
<1>1. P!TypeOK
  <2>1. <<>> \in Seq(1 .. 1) /\ Len(<<>>) = 0
    OBVIOUS
  <2> QED BY <2>1 DEF PacingSane, P!Init, P!TypeOK, P!Never
<1> QED BY <1>1 DEF P!Init, PacingInv, Sorted, Aligned, LetThrough, Numbered, P!Spaced, PacingSane

\* The past stays the past while the clock goes on.
LEMMA Later ==
  ASSUME NEW n \in Nat, NEW m \in Nat, n <= m
  PROVE  /\ Seq(1 .. n) \subseteq Seq(1 .. m)
         /\ Pendings(n) \subseteq Pendings(m) /\ Answers(n) \subseteq Answers(m)
<1>1. 1 .. n \subseteq 1 .. m
  OBVIOUS
<1>2. \A q \in Seq(1 .. n) : q \in Seq(1 .. m)
  <2> TAKE q \in Seq(1 .. n)
  <2>1. Len(q) \in Nat /\ q \in [1 .. Len(q) -> 1 .. n]
    OBVIOUS
  <2>2. q \in [1 .. Len(q) -> 1 .. m]
    BY <1>1, <2>1
  <2> QED BY <2>1, <2>2, SeqDef
<1>3. Pendings(n) \subseteq Pendings(m)
  BY <1>1 DEF Pendings
<1>4. Answers(n) \subseteq Answers(m)
  BY <1>1 DEF Answers
<1> QED BY <1>2, <1>3, <1>4

\* What a state is made of.
LEMMA PacingFacts ==
  ASSUME PacingSane, P!TypeOK
  PROVE  /\ clock \in 1 .. LastNow /\ clock \in Nat /\ LastNow \in Nat
         /\ log \in Seq(1 .. clock) /\ said \in Seq(1 .. clock)
         /\ Len(log) \in Nat /\ Len(said) \in Nat
         /\ DOMAIN log = 1 .. Len(log) /\ DOMAIN said = 1 .. Len(said)
         /\ \A i \in DOMAIN log : log[i] \in 1 .. clock
         /\ \A i \in DOMAIN said : said[i] \in 1 .. clock
         /\ pending = P!NoLaunch \/ pending \in Pendings(clock)
         /\ answer = P!NoLaunch \/ answer \in Answers(clock)
BY DEF PacingSane, P!TypeOK, Pendings, Answers

\* Steps that leave the log, the launch in flight and the answer as they are.
LEMMA CalmSteps ==
  ASSUME PacingSane, PacingInv, P!Wakes \/ P!Holds \/ P!Passes
  PROVE  PacingInv'
<1>1. /\ clock \in 1 .. LastNow /\ LastNow \in Nat /\ clock' \in 1 .. LastNow /\ clock <= clock'
      /\ UNCHANGED <<anchor, declinedAt, declines, actedAt, unanswered, log, pending,
                     composing, answer, launches, said>>
      /\ desire' \in {"none", "active", "deferred"}
  BY DEF P!Wakes, P!Holds, P!Passes, PacingInv, P!TypeOK, PacingSane
<1>2. /\ Seq(1 .. clock) \subseteq Seq(1 .. clock')
      /\ Pendings(clock) \subseteq Pendings(clock') /\ Answers(clock) \subseteq Answers(clock')
  BY <1>1, Later
<1>3. P!TypeOK'
  <2>1. /\ {anchor, declinedAt, actedAt} \subseteq P!Never .. clock'
    BY <1>1 DEF PacingInv, P!TypeOK, P!Never
  <2>2. pending \in {P!NoLaunch} \cup Pendings(clock') /\ answer \in {P!NoLaunch} \cup Answers(clock')
    BY <1>2 DEF PacingInv, P!TypeOK, Pendings, Answers
  <2>3. log \in Seq(1 .. clock') /\ said \in Seq(1 .. clock')
    BY <1>2 DEF PacingInv, P!TypeOK
  <2> QED BY <1>1, <2>1, <2>2, <2>3 DEF PacingInv, P!TypeOK, Pendings, Answers
<1> QED BY <1>1, <1>3 DEF PacingInv, Sorted, Aligned, LetThrough, Numbered, P!Spaced, P!AllowSend,
                          P!Recent, P!Clear

LEMMA LaunchStep == ASSUME PacingSane, PacingInv, P!Launches PROVE PacingInv'
<1>1. /\ P!AllowSend(clock) /\ pending = P!NoLaunch /\ launches < MaxLaunches
      /\ launches' = launches + 1 /\ composing' = composing + 1
      /\ pending' = [id |-> launches + 1, since |-> clock]
      /\ UNCHANGED <<clock, anchor, declinedAt, declines, actedAt, unanswered, log, desire,
                     answer, said>>
  BY DEF P!Launches, P!Launching
<1>2. clock \in Nat /\ clock \in 1 .. clock /\ launches \in 0 .. MaxLaunches /\ MaxLaunches \in Nat
      /\ composing \in 0 .. MaxLaunches /\ composing <= launches
  BY DEF PacingInv, P!TypeOK, Numbered, PacingSane
<1>3. pending' \in Pendings(clock) /\ pending'.since = clock /\ pending'.id = launches + 1
      /\ launches' \in 0 .. MaxLaunches /\ composing' \in 0 .. MaxLaunches
  BY <1>1, <1>2 DEF Pendings, P!Launched
<1>4. P!TypeOK'
  BY <1>1, <1>3 DEF PacingInv, P!TypeOK, Pendings
<1>5. Numbered' /\ (answer # P!NoLaunch => answer.id # launches + 1)
  <2>1. answer # P!NoLaunch => answer.id \in Nat /\ answer.id <= launches
    BY <1>2, PacingFacts, Apart DEF PacingInv, Numbered, P!Launched
  <2> QED BY <1>1, <1>2, <2>1 DEF Numbered
<1>6. LetThrough'
  BY <1>1, <1>2, <1>3, <1>5 DEF LetThrough, P!AllowSend, P!Recent, P!Clear
<1> QED BY <1>1, <1>4, <1>5, <1>6 DEF PacingInv, Sorted, Aligned, P!Spaced

\* A turn ends with an answer, or without one; an answer comes too late.
LEMMA TurnSteps ==
  ASSUME PacingSane, PacingInv,
         P!TurnLost \/ P!ReadsStale \/ \E verdict \in {"sent", "silent"} : P!TurnEnds(verdict)
  PROVE  PacingInv'
<1>1. UNCHANGED <<clock, anchor, declinedAt, declines, actedAt, unanswered, log, pending,
                  desire, launches, said>>
  BY DEF P!TurnLost, P!ReadsStale, P!TurnEnds
<1>2. clock \in Nat /\ clock \in 1 .. clock /\ composing \in 0 .. MaxLaunches /\ MaxLaunches \in Nat
      /\ launches \in 0 .. MaxLaunches /\ composing <= launches
  BY DEF PacingInv, P!TypeOK, Numbered, PacingSane
<1>3. composing' \in 0 .. MaxLaunches /\ composing' <= launches
  BY <1>2 DEF P!TurnLost, P!ReadsStale, P!TurnEnds
<1>4. \/ answer' = P!NoLaunch \/ answer' = answer
      \/ pending # P!NoLaunch /\ answer' \in Answers(clock) /\ answer'.id = pending.id
         /\ answer'.at = clock
  <2>1. ASSUME NEW verdict \in {"sent", "silent"}, P!TurnEnds(verdict)
        PROVE  \/ answer' = P!NoLaunch
               \/ pending # P!NoLaunch /\ answer' \in Answers(clock) /\ answer'.id = pending.id
                  /\ answer'.at = clock
    <3>1. CASE pending # P!NoLaunch /\ desire = "active"
      <4>1. answer' = [id |-> pending.id, verdict |-> verdict, at |-> clock]
        BY <2>1, <3>1 DEF P!TurnEnds
      <4>2. pending.id \in P!Launched
        BY <1>2, <3>1, PacingFacts, Apart DEF PacingInv
      <4> QED BY <1>2, <3>1, <4>1, <4>2 DEF Answers
    <3>2. CASE ~(pending # P!NoLaunch /\ desire = "active")
      BY <2>1, <3>2 DEF P!TurnEnds
    <3> QED BY <3>1, <3>2
  <2> QED BY <2>1 DEF P!TurnLost, P!ReadsStale
<1>5. P!TypeOK'
  <2>1. answer' \in {P!NoLaunch} \cup Answers(clock)
    BY <1>4 DEF PacingInv, P!TypeOK, Answers
  <2> QED BY <1>1, <1>3, <2>1 DEF PacingInv, P!TypeOK, Answers
<1>6. Numbered'
  BY <1>1, <1>3, <1>4 DEF PacingInv, LetThrough, Numbered
<1>7. LetThrough'
  <2>1. pending # P!NoLaunch => pending.since <= clock
    BY <1>2, PacingFacts, Apart DEF PacingInv
  <2> QED BY <1>1, <1>4, <2>1 DEF PacingInv, LetThrough, P!AllowSend, P!Recent, P!Clear
<1> QED BY <1>1, <1>5, <1>6, <1>7 DEF PacingInv, Sorted, Aligned, P!Spaced

\* Nothing is in flight any more, and the log stays or goes with its history.
LEMMA ClearedSteps ==
  ASSUME PacingSane, PacingInv, P!ReadsSilent \/ P!Inbound \/ P!ForceWake \/ P!Satiate \/ P!Resets
  PROVE  PacingInv'
<1>1. /\ pending' = P!NoLaunch /\ desire' = "none" /\ UNCHANGED <<clock, composing, launches>>
      /\ answer' \in {P!NoLaunch, answer}
      /\ (log' = log /\ said' = said) \/ (log' = <<>> /\ said' = <<>>)
  BY DEF P!ReadsSilent, P!Resolves, P!Inbound, P!ForceWake, P!Satiate, P!Resets, P!Quiet
<1>2. /\ {anchor', declinedAt', actedAt'} \subseteq P!Never .. clock
      /\ declines' \in Nat /\ unanswered' \in Nat
  <2>1. clock \in Nat /\ Window \in Nat /\ {anchor, declinedAt, actedAt} \subseteq P!Never .. clock
        /\ declines \in Nat /\ unanswered \in Nat
    BY DEF PacingInv, P!TypeOK, PacingSane
  <2>2. CASE P!ReadsSilent
    BY <2>1, <2>2 DEF P!ReadsSilent, P!Resolves, P!Never
  <2>3. CASE P!Inbound
    BY <2>1, <2>3 DEF P!Inbound, P!Never
  <2>4. CASE P!ForceWake
    <3>1. anchor' \in P!Never .. clock
      BY <2>1, <2>4 DEF P!ForceWake, P!Never
    <3> QED BY <2>1, <2>4, <3>1 DEF P!ForceWake, P!Never
  <2>5. CASE P!Satiate
    BY <2>1, <2>5 DEF P!Satiate, P!Never
  <2>6. CASE P!Resets
    BY <2>1, <2>6 DEF P!Resets, P!Quiet, P!Never
  <2> QED BY <2>2, <2>3, <2>4, <2>5, <2>6
<1>3. /\ log' \in Seq(1 .. clock) /\ Len(log') <= Keep /\ said' \in Seq(1 .. clock)
      /\ Sorted' /\ Aligned' /\ P!Spaced'
  <2>1. CASE log' = log /\ said' = said
    BY <2>1 DEF PacingInv, P!TypeOK, Sorted, Aligned, P!Spaced
  <2>2. CASE log' = <<>> /\ said' = <<>>
    <3>1. log' \in Seq(1 .. clock) /\ said' \in Seq(1 .. clock) /\ Len(log') = 0 /\ Len(said') = 0
          /\ DOMAIN log' = {} /\ DOMAIN said' = {}
      BY <2>2
    <3> QED BY <3>1 DEF Sorted, Aligned, P!Spaced, PacingSane
  <2> QED BY <1>1, <2>1, <2>2
<1>4. P!TypeOK'
  BY <1>1, <1>2, <1>3 DEF PacingInv, P!TypeOK
<1>5. LetThrough' /\ Numbered'
  BY <1>1 DEF PacingInv, LetThrough, Numbered
<1> QED BY <1>3, <1>4, <1>5 DEF PacingInv

\* The log after a send: the old one behind its first entries, and now.
LEMMA PacingRecording ==
  ASSUME PacingSane, PacingInv
  PROVE  /\ P!RecordSend \in Seq(1 .. clock)
         /\ Len(P!RecordSend) = IF Len(log) < Keep THEN Len(log) + 1 ELSE Keep
         /\ P!RecordSend[Len(P!RecordSend)] = clock
         /\ \A k \in 1 .. Len(P!RecordSend) - 1 :
              /\ k + (Len(log) + 1 - Len(P!RecordSend)) \in 1 .. Len(log)
              /\ P!RecordSend[k] = log[k + (Len(log) + 1 - Len(P!RecordSend))]
<1> DEFINE all == Append(log, clock)
<1>1. /\ log \in Seq(1 .. clock) /\ Len(log) \in Nat /\ clock \in 1 .. clock /\ Len(log) <= Keep
      /\ Keep \in Nat \ {0}
  BY DEF PacingInv, P!TypeOK, PacingSane
<1>2. /\ all \in Seq(1 .. clock) /\ Len(all) = Len(log) + 1 /\ all[Len(log) + 1] = clock
      /\ \A k \in 1 .. Len(log) : all[k] = log[k]
      /\ \A k \in 1 .. Len(log) + 1 : all[k] \in 1 .. clock
  BY <1>1
<1>3. P!RecordSend = IF Len(all) <= Keep THEN all ELSE SubSeq(all, Len(all) - Keep + 1, Len(all))
  BY DEF P!RecordSend
<1> HIDE DEF all
<1>4. CASE Len(log) < Keep
  <2>1. P!RecordSend = all /\ Len(P!RecordSend) = Len(log) + 1
    BY <1>1, <1>2, <1>3, <1>4
  <2>2. ASSUME NEW k \in 1 .. Len(P!RecordSend) - 1
        PROVE  /\ k + (Len(log) + 1 - Len(P!RecordSend)) = k
               /\ k \in 1 .. Len(log) /\ P!RecordSend[k] = log[k]
    <3>1. k \in 1 .. Len(log) /\ k + (Len(log) + 1 - Len(P!RecordSend)) = k
      BY <1>1, <2>1
    <3>2. all[k] = log[k]
      BY <1>2, <3>1
    <3> QED BY <2>1, <3>1, <3>2
  <2> QED BY <1>1, <1>2, <1>4, <2>1, <2>2
<1>5. CASE ~(Len(log) < Keep)
  <2>1. Len(log) = Keep
    BY <1>1, <1>5
  <2>2. P!RecordSend = SubSeq(all, 2, Len(log) + 1)
    BY <1>1, <1>2, <1>3, <2>1
  <2>3. /\ P!RecordSend \in Seq(1 .. clock) /\ Len(P!RecordSend) = Len(log)
        /\ \A i \in 1 .. Len(log) : P!RecordSend[i] = all[2 + i - 1]
    <3> DEFINE q == SubSeq(all, 2, Len(log) + 1)
    <3>1. Len(log) + 1 \in Int /\ \A i \in 2 .. Len(log) + 1 : all[i] \in 1 .. clock
      BY <1>1, <1>2
    <3>2. /\ q \in Seq(1 .. clock)
          /\ Len(q) = IF 2 <= Len(log) + 1 THEN Len(log) + 1 - 2 + 1 ELSE 0
          /\ \A i \in 1 .. Len(log) + 1 - 2 + 1 : q[i] = all[2 + i - 1]
      BY <3>1, SubSeqProperties
    <3> HIDE DEF q
    <3>3. Len(log) \in Nat \ {0} /\ Len(log) + 1 - 2 + 1 = Len(log)
      BY <1>1, <2>1
    <3>4. Len(q) = Len(log) /\ \A i \in 1 .. Len(log) : q[i] = all[2 + i - 1]
      BY <3>2, <3>3
    <3> QED BY <2>2, <3>2, <3>4 DEF q
  <2> QED BY <1>1, <1>2, <2>1, <2>3
<1> QED BY <1>4, <1>5

\* A log that let a launch through: its last entry is the gap away, and the
\* one the cap counts back to is more than a day away.
LEMMA FarEnough ==
  ASSUME PacingSane, PacingInv, pending # P!NoLaunch
  PROVE  /\ Len(log) > 0 => pending.since - log[Len(log)] >= Gap
         /\ Len(log) >= MaxPerDay =>
              pending.since - log[Len(log) + 1 - MaxPerDay] > Day
<1> DEFINE t == pending.since
<1>1. /\ t \in 1 .. clock /\ clock \in Nat /\ Len(log) \in Nat /\ DOMAIN log = 1 .. Len(log)
      /\ \A i \in 1 .. Len(log) : log[i] \in 1 .. clock
      /\ Day \in Nat /\ Gap \in Nat /\ Gap <= Day /\ MaxPerDay \in Nat \ {0}
  BY PacingFacts, Apart DEF PacingInv, PacingSane
<1>2. Cardinality(P!Recent(t)) < MaxPerDay /\ \A i \in P!Recent(t) : t - log[i] >= Gap
  BY OneSize DEF PacingInv, LetThrough, P!AllowSend, P!Clear
<1>3. \A i \in 1 .. Len(log) : i \in P!Recent(t) <=> log[i] + Day >= t
  BY <1>1 DEF P!Recent
<1>4. P!Recent(t) \subseteq 1 .. Len(log)
  BY <1>1 DEF P!Recent
<1> HIDE DEF t
<1>5. ASSUME Len(log) > 0 PROVE t - log[Len(log)] >= Gap
  BY <1>1, <1>2, <1>3, <1>5
<1>6. ASSUME Len(log) >= MaxPerDay PROVE t - log[Len(log) + 1 - MaxPerDay] > Day
  <2> DEFINE m == Len(log) + 1 - MaxPerDay
  <2>1. m \in 1 .. Len(log) /\ MaxPerDay = Len(log) - m + 1
    BY <1>1, <1>6
  <2> HIDE DEF m
  <2> SUFFICES ASSUME log[m] + Day >= t PROVE FALSE
    BY <1>1, <2>1 DEF m
  <2>2. m .. Len(log) \subseteq P!Recent(t)
    <3> SUFFICES ASSUME NEW i \in m .. Len(log) PROVE i \in P!Recent(t)
      OBVIOUS
    <3>1. i \in 1 .. Len(log) /\ m <= i
      BY <1>1, <2>1
    <3>2. log[m] <= log[i]
      BY <1>1, <2>1, <3>1 DEF PacingInv, Sorted
    <3> QED BY <1>1, <1>3, <2>1, <3>1, <3>2
  <2>3. IsFiniteSet(P!Recent(t))
    <3>1. IsFiniteSet(1 .. Len(log))
      BY <1>1, FS_Interval
    <3> QED BY <1>4, <3>1, FS_Subset
  <2>4. Cardinality(m .. Len(log)) = MaxPerDay
    BY <1>1, <2>1, FS_Interval
  <2>5. Cardinality(m .. Len(log)) <= Cardinality(P!Recent(t))
    BY <2>2, <2>3, FS_Subset
  <2>6. Cardinality(P!Recent(t)) \in Nat
    BY <2>3, FS_CardinalityType
  <2> QED BY <1>1, <1>2, <2>4, <2>5, <2>6
<1> QED BY <1>5, <1>6 DEF t

LEMMA SentStep == ASSUME PacingSane, PacingInv, P!ReadsSent PROVE PacingInv'
<1> DEFINE n == Len(log)
           m == Len(said)
           next == Len(log')
<1>1. /\ answer # P!NoLaunch /\ pending.id = answer.id
      /\ answer' = P!NoLaunch /\ pending' = P!NoLaunch /\ desire' = "none"
      /\ actedAt' = clock /\ unanswered' = unanswered + 1 /\ log' = P!RecordSend
      /\ said' = Append(said, answer.at)
      /\ UNCHANGED <<clock, anchor, declinedAt, declines, composing, launches>>
  BY DEF P!ReadsSent, P!Resolves, P!Stale
<1>2. /\ clock \in Nat /\ answer \in Answers(clock) /\ said \in Seq(1 .. clock)
      /\ DOMAIN log = 1 .. n /\ DOMAIN said = 1 .. m
      /\ \A i \in 1 .. n : log[i] \in 1 .. clock
      /\ \A i \in 1 .. m : said[i] \in 1 .. clock
  BY <1>1, PacingFacts DEF PacingInv
<1>3. pending # P!NoLaunch /\ answer.at \in 1 .. clock
  BY <1>1, <1>2, Apart
<1>4. pending \in Pendings(clock)
  BY <1>3, PacingFacts DEF PacingInv
<1>5. pending.since \in 1 .. clock /\ pending.since <= answer.at
  BY <1>1, <1>2, <1>3, <1>4, Apart DEF PacingInv, LetThrough
<1>6. /\ n > 0 => pending.since - log[n] >= Gap
      /\ n >= MaxPerDay => pending.since - log[n + 1 - MaxPerDay] > Day
  BY <1>3, FarEnough
<1>7. /\ log' \in Seq(1 .. clock) /\ next = (IF n < Keep THEN n + 1 ELSE Keep)
      /\ log'[next] = clock
  BY <1>1, PacingRecording
<1>8. \A k \in 1 .. next - 1 : k + (n + 1 - next) \in 1 .. n /\ log'[k] = log[k + (n + 1 - next)]
  BY <1>1, PacingRecording
<1>9. /\ said' \in Seq(1 .. clock) /\ Len(said') = m + 1
      /\ said'[m + 1] = answer.at /\ \A i \in 1 .. m : said'[i] = said[i]
  BY <1>1, <1>2, <1>3
<1>10. DOMAIN log' = 1 .. next /\ DOMAIN said' = 1 .. m + 1
  BY <1>7, <1>9
<1>11. n \in Nat /\ m \in Nat /\ n <= Keep /\ next \in Nat
  BY <1>7, PacingFacts DEF PacingInv, P!TypeOK
<1>12. n <= m /\ (m <= Keep => n = m) /\ (m > Keep => n = Keep)
  BY DEF PacingInv, Aligned
<1>13. \A k \in 1 .. n : said[k + (m - n)] <= log[k]
  BY <1>2 DEF PacingInv, Aligned
<1>14. /\ Keep \in Nat /\ Keep >= 1 /\ MaxPerDay \in Nat /\ MaxPerDay >= 1 /\ MaxPerDay <= Keep
       /\ Day \in Nat /\ Gap \in Nat
  BY DEF PacingSane
<1>15. \A i \in 1 .. n, j \in 1 .. n : i <= j => log[i] <= log[j]
  BY <1>2 DEF PacingInv, Sorted
<1>16. P!TypeOK'
  <2>1. Len(log') <= Keep
    BY <1>7, <1>11, <1>14
  <2>2. {anchor', declinedAt', actedAt'} \subseteq P!Never .. clock /\ unanswered' \in Nat
    BY <1>1, <1>2 DEF PacingInv, P!TypeOK, P!Never
  <2> QED BY <1>1, <1>7, <1>9, <2>1, <2>2 DEF PacingInv, P!TypeOK
<1>17. LetThrough' /\ Numbered'
  BY <1>1 DEF PacingInv, LetThrough, Numbered
<1> HIDE DEF n, m, next
<1>18. \A k \in 1 .. next - 1 : log'[k] \in 1 .. clock
  BY <1>2, <1>8
<1>19. next >= 1
  BY <1>7, <1>11, <1>14
<1>20. Sorted'
  <2> SUFFICES ASSUME NEW i \in 1 .. next, NEW j \in 1 .. next, i <= j
               PROVE  log'[i] <= log'[j]
    BY <1>10 DEF Sorted
  <2>1. CASE j = next
    <3>1. CASE i = next
      BY <1>2, <1>7, <2>1, <3>1
    <3>2. CASE i < next
      <4>1. log'[i] \in 1 .. clock
        BY <1>11, <1>18, <3>2
      <4> QED BY <1>2, <1>7, <2>1, <4>1
    <3> QED BY <1>11, <3>1, <3>2
  <2>2. CASE j < next
    <3>1. i \in 1 .. next - 1 /\ j \in 1 .. next - 1
      BY <1>11, <2>2
    <3>2. /\ i + (n + 1 - next) \in 1 .. n /\ j + (n + 1 - next) \in 1 .. n
          /\ log'[i] = log[i + (n + 1 - next)] /\ log'[j] = log[j + (n + 1 - next)]
      BY <1>8, <3>1
    <3>3. i + (n + 1 - next) <= j + (n + 1 - next)
      BY <1>11
    <3> QED BY <1>15, <3>2, <3>3
  <2> QED BY <1>11, <2>1, <2>2
<1>21. Aligned'
  <2>1. /\ next <= m + 1 /\ (m + 1 <= Keep => next = m + 1) /\ (m + 1 > Keep => next = Keep)
    BY <1>7, <1>11, <1>12, <1>14
  <2>2. ASSUME NEW k \in 1 .. next PROVE said'[k + (m + 1 - next)] <= log'[k]
    <3>1. CASE k = next
      <4>1. k + (m + 1 - next) = m + 1
        BY <1>11, <3>1
      <4>2. said'[m + 1] <= clock
        BY <1>2, <1>3, <1>9
      <4> QED BY <1>7, <3>1, <4>1, <4>2
    <3>2. CASE k < next
      <4> DEFINE h == k + (n + 1 - next)
      <4>1. k \in 1 .. next - 1
        BY <1>11, <3>2
      <4>2. h \in 1 .. n /\ log'[k] = log[h]
        BY <1>8, <4>1
      <4>3. k + (m + 1 - next) = h + (m - n)
        BY <1>11
      <4> HIDE DEF h
      <4>4. h + (m - n) \in 1 .. m
        BY <1>11, <1>12, <4>2
      <4>5. said'[h + (m - n)] = said[h + (m - n)]
        BY <1>9, <4>4
      <4>6. said[h + (m - n)] <= log[h]
        BY <1>13, <4>2
      <4> QED BY <4>2, <4>3, <4>5, <4>6
    <3> QED BY <1>11, <3>1, <3>2
  <2>3. Len(said') = m + 1 /\ Len(log') = next
    BY <1>9 DEF next
  <2>4. \A k \in DOMAIN log' : said'[k + (Len(said') - Len(log'))] <= log'[k]
    <3> TAKE k \in DOMAIN log'
    <3>1. k \in 1 .. next
      BY <1>10
    <3>2. said'[k + (m + 1 - next)] <= log'[k]
      BY <2>2, <3>1
    <3> QED BY <1>11, <2>3, <3>1, <3>2
  <2>5. /\ Len(log') <= Len(said') /\ (Len(said') <= Keep => Len(log') = Len(said'))
        /\ (Len(said') > Keep => Len(log') = Keep)
    BY <2>1, <2>3
  <2> QED BY <2>4, <2>5 DEF Aligned
<1>22. ASSUME NEW i \in 1 .. m, i = m
       PROVE  answer.at - said[i] >= Gap
  <2>1. n >= 1
    BY <1>11, <1>12, <1>14, <1>22
  <2>2. n \in 1 .. n /\ n + (m - n) = i
    BY <1>11, <1>22, <2>1
  <2>3. said[i] <= log[n] /\ log[n] \in 1 .. clock /\ said[i] \in 1 .. clock
    BY <1>2, <1>13, <2>2
  <2>4. pending.since - log[n] >= Gap
    BY <1>6, <1>11, <2>1
  <2> QED BY <1>2, <1>3, <1>5, <1>14, <2>3, <2>4
<1>23. ASSUME NEW i \in 1 .. m, i = m + 1 - MaxPerDay
       PROVE  answer.at - said[i] > Day
  <2>1. n >= MaxPerDay
    BY <1>11, <1>12, <1>14, <1>23
  <2> DEFINE h == n + 1 - MaxPerDay
  <2>2. h \in 1 .. n /\ h + (m - n) = i
    BY <1>11, <1>14, <1>23, <2>1
  <2>3. pending.since - log[h] > Day
    BY <1>6, <2>1
  <2> HIDE DEF h
  <2>4. said[i] <= log[h] /\ log[h] \in 1 .. clock /\ said[i] \in 1 .. clock
    BY <1>2, <1>13, <2>2
  <2> QED BY <1>2, <1>3, <1>5, <1>14, <2>3, <2>4
<1>24. P!Spaced'
  <2> SUFFICES ASSUME NEW i \in 1 .. m + 1, NEW j \in 1 .. m + 1
               PROVE  /\ j = i + 1 => said'[j] - said'[i] >= Gap
                      /\ j = i + MaxPerDay => said'[j] - said'[i] > Day
    BY <1>10 DEF P!Spaced
  <2>1. ASSUME j = i + 1 \/ j = i + MaxPerDay
        PROVE  i \in 1 .. m /\ said'[i] = said[i]
    <3>1. i \in 1 .. m
      BY <1>11, <1>14, <2>1
    <3> QED BY <1>9, <3>1
  <2>2. CASE j \in 1 .. m
    <3>1. said'[j] = said[j]
      BY <1>9, <2>2
    <3> QED BY <1>2, <2>1, <2>2, <3>1 DEF PacingInv, P!Spaced
  <2>3. CASE j = m + 1
    <3>1. said'[j] = answer.at
      BY <1>9, <2>3
    <3>2. ASSUME j = i + 1 PROVE said'[j] - said'[i] >= Gap
      <4>1. i \in 1 .. m /\ said'[i] = said[i] /\ i = m
        BY <1>11, <2>1, <2>3, <3>2
      <4> QED BY <1>22, <3>1, <4>1
    <3>3. ASSUME j = i + MaxPerDay PROVE said'[j] - said'[i] > Day
      <4>1. i \in 1 .. m /\ said'[i] = said[i] /\ i = m + 1 - MaxPerDay
        BY <1>11, <1>14, <2>1, <2>3, <3>3
      <4> QED BY <1>23, <3>1, <4>1
    <3> QED BY <3>2, <3>3
  <2> QED BY <1>11, <2>2, <2>3
<1> QED BY <1>16, <1>17, <1>20, <1>21, <1>24 DEF PacingInv

LEMMA PacingStepInv == PacingSane /\ PacingInv /\ [P!Next]_(P!vars) => PacingInv'
<1> SUFFICES ASSUME PacingSane, PacingInv, [P!Next]_(P!vars) PROVE PacingInv'
  OBVIOUS
<1>1. CASE UNCHANGED P!vars
  BY <1>1 DEF P!vars, PacingInv, P!TypeOK, Sorted, Aligned, LetThrough, Numbered, P!Spaced,
     P!AllowSend,
              P!Recent, P!Clear
<1>2. CASE P!Next
  BY <1>2, CalmSteps, LaunchStep, TurnSteps, ClearedSteps, SentStep DEF P!Next
<1> QED BY <1>1, <1>2

\* The texts that were read back keep the daily cap and the gap, although the log
\* is written late, is cut, and is cleared for a wake that the owner forces.
THEOREM CapAndGap == PacingSane => (P!Spec => []P!Spaced)
<1> SUFFICES ASSUME PacingSane PROVE P!Spec => []P!Spaced
  OBVIOUS
<1>1. P!Init => PacingInv
  BY PacingInitInv
<1>2. PacingInv /\ [P!Next]_(P!vars) => PacingInv'
  BY PacingStepInv
<1>3. PacingInv => P!Spaced
  BY DEF PacingInv
<1> QED BY <1>1, <1>2, <1>3, PTL DEF P!Spec
=============================================================================
