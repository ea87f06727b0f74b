------------------------- MODULE ObservabilityProofs -------------------------
(***************************************************************************)
(* What the being leaves of itself on disk, proved for any number of       *)
(* turns, writers, traces and series and any bounds: the store of traces   *)
(* and its writer (TraceStore), the recorder of turns (Turns, as T), the   *)
(* retention of traces (Retention, as R) and the sampler of metrics        *)
(* (Metrics, as M).  The four share no variable.                           *)
(***************************************************************************)
EXTENDS TraceStore, SequenceTheorems, FiniteSetTheorems, WellFoundedInduction, TLAPS

CONSTANTS Turns, SessionOf, Calls, MaxEntries, MaxRoots,        \* of Turns
          LastTrace, MaxRows, MaxTraces, MaxLine, MaxBatch, MaxLosses,  \* of Retention
          Series, MaxValue, Absent, HeartbeatEvery, MaxSamples, MaxFaults  \* of Metrics

VARIABLES
  turnOf, ledger, opening, closing, calls, queue, rows, kids, saved, savedKids, pending,
  mishaps, excused,
  sent, flight, line, batch, stored, index, losses, astray,
  value, last, cycle, sampling, sampled, newest, behind, faults, unhealed

T == INSTANCE Turns
R == INSTANCE Retention
M == INSTANCE Metrics WITH MaxRows <- MaxSamples, txn <- sampled

\* A set has one size, whichever module counts it.
LEMMA OneSize ==
  /\ \A S : R!Cardinality(S) = Cardinality(S)
  /\ \A S : M!Cardinality(S) = Cardinality(S)
BY DEF R!Cardinality, M!Cardinality, Cardinality

-----------------------------------------------------------------------------
(* The store of traces.                                                    *)

\* The bounds are numbers, and the holders are finitely many.
TraceStoreSane ==
  /\ MaxWriters \in Nat /\ MaxEvents \in Nat /\ MaxQueue \in Nat /\ MaxMishaps \in Nat
  /\ IsFiniteSet(Holders)

Rows  == [kind : {"event"}, ev : Events, id : 1 .. MaxEvents + 1]
TraceStoreItems == Rows \cup {Mark("flush"), Mark("stop")}

Shapes ==
  /\ inbox \in [Writers -> Seq(TraceStoreItems)] /\ txn \in [Writers -> SUBSET Rows]
  /\ events \subseteq Rows

At(w) == 1 .. Len(inbox[w])
Holding == {h \in Holders : hold[h] # 0}

\* The writer in the registry is the one that is held; it is alive or was
\* refused its file, and nobody is about to stop it.
Registered ==
  /\ refs = Cardinality(Holding)
  /\ \A h \in Holders : hold[h] \in {0, reg}
  /\ \A w \in Writers : w = reg =>
       /\ Holding # {} /\ thread[w] \notin {"none", "ended"}
       /\ \A i \in At(w) : inbox[w][i] # Mark("stop")
       /\ \A r \in releasing : r.of # w
  /\ \A r \in releasing : thread[r.of] # "none"
  /\ \A w \in Writers : thread[w] = "none" => inbox[w] = <<>>

\* Only a thread that runs has rows to commit.
Applied == \A w \in Writers : txn[w] # {} => thread[w] = "running"

\* Some thread of this process has raised the floor.
Raised == \E w \in Writers : thread[w] \in {"running", "ended"}

EventAt(w, i) == inbox[w][i].kind = "event"
Id(w, i) == inbox[w][i].id

\* The ids of this process are minted upwards; one that was minted above the
\* floor is nowhere on disk and in no transaction.
Minted ==
  /\ \A w \in Writers : \A i \in At(w) : EventAt(w, i) => Id(w, i) <= counter
  /\ \A v, w \in Writers : \A i \in At(v), j \in At(w) :
       EventAt(v, i) /\ EventAt(w, j) /\ Id(v, i) = Id(w, j) => v = w /\ i = j
  /\ Raised => /\ \A e \in events : e.id <= counter
               /\ \A w \in Writers : \A e \in txn[w] : e.id <= counter
  /\ \A w \in Writers : \A i \in At(w) :
       EventAt(w, i) /\ inbox[w][i].ev \notin early =>
         /\ \A e \in events : e.id # Id(w, i)
         /\ \A v \in Writers : \A e \in txn[v] : e.id # Id(w, i)

\* Where an event that the human log shows is.
Traced(ev) ==
  \/ ev \in landed \cup failed
  \/ ev \in clashed \cap early
  \/ \E w \in Writers : \E i \in At(w) : EventAt(w, i) /\ inbox[w][i].ev = ev
  \/ \E w \in Writers : thread[w] = "running" /\ \E e \in txn[w] : e.ev = ev

StoreInv ==
  /\ TypeOK /\ Shapes /\ Registered /\ Applied /\ Minted
  /\ \A ev \in 1 .. logged : Traced(ev)

-----------------------------------------------------------------------------

LEMMA TraceStoreFacts ==
  ASSUME TraceStoreSane, StoreInv
  PROVE  /\ MaxWriters \in Nat /\ MaxEvents \in Nat /\ MaxQueue \in Nat /\ MaxMishaps \in Nat
         /\ 0 \notin Writers /\ counter \in Nat /\ refs \in Nat /\ logged \in 0 .. MaxEvents
         /\ reg \in Writers \cup {0} /\ hold \in [Holders -> Writers \cup {0}]
         /\ thread \in [Writers -> {"none", "opening", "running", "failed", "ended"}]
         /\ releasing \subseteq [of : Writers, step : {"flush", "stop"}]
         /\ inbox \in [Writers -> Seq(TraceStoreItems)]
         /\ \A w \in Writers : /\ inbox[w] \in Seq(TraceStoreItems) /\ Len(inbox[w]) \in Nat
                               /\ \A i \in At(w) : inbox[w][i] \in TraceStoreItems /\ i \in Nat
<1>1. inbox \in [Writers -> Seq(TraceStoreItems)]
  BY DEF StoreInv, Shapes
<1>2. \A w \in Writers : inbox[w] \in Seq(TraceStoreItems)
  BY <1>1
<1>3. \A w \in Writers : /\ Len(inbox[w]) \in Nat
                         /\ \A i \in At(w) : inbox[w][i] \in TraceStoreItems /\ i \in Nat
  BY <1>2 DEF At
<1>4. MaxWriters \in Nat /\ MaxEvents \in Nat /\ MaxQueue \in Nat /\ MaxMishaps \in Nat
      /\ 0 \notin Writers
  BY DEF TraceStoreSane, Writers
<1> QED BY <1>1, <1>2, <1>3, <1>4 DEF StoreInv, TypeOK

LEMMA TraceStoreItemFacts ==
  ASSUME NEW item \in TraceStoreItems
  PROVE  /\ item.kind = "event" => item \in Rows /\ item.ev \in Events /\ item.id \in 1 .. MaxEvents + 1
         /\ item = Mark("stop") <=> item.kind = "stop"
         /\ item.kind \in {"event", "flush", "stop"}
BY DEF TraceStoreItems, Rows, Mark

\* An item put at the end of a queue.
LEMMA Putting ==
  ASSUME TraceStoreSane, StoreInv, NEW w \in Writers, NEW item \in TraceStoreItems,
         inbox' = [inbox EXCEPT ![w] = Append(@, item)]
  PROVE  /\ inbox' \in [Writers -> Seq(TraceStoreItems)]
         /\ \A v \in Writers \ {w} : inbox'[v] = inbox[v] /\ At(v)' = At(v)
         /\ At(w)' = At(w) \cup {Len(inbox[w]) + 1} /\ Len(inbox[w]) + 1 \notin At(w)
         /\ \A i \in At(w) : inbox'[w][i] = inbox[w][i]
         /\ inbox'[w][Len(inbox[w]) + 1] = item
<1>1. inbox \in [Writers -> Seq(TraceStoreItems)] /\ inbox[w] \in Seq(TraceStoreItems) /\ Len(inbox[w]) \in Nat
  BY TraceStoreFacts
<1>2. inbox'[w] = Append(inbox[w], item)
  BY <1>1
<1>3. /\ inbox'[w] \in Seq(TraceStoreItems) /\ Len(inbox'[w]) = Len(inbox[w]) + 1
      /\ \A i \in At(w) : inbox'[w][i] = inbox[w][i]
      /\ inbox'[w][Len(inbox[w]) + 1] = item
  BY <1>1, <1>2 DEF At
<1>4. \A v \in Writers \ {w} : inbox'[v] = inbox[v] /\ At(v)' = At(v)
  BY <1>1 DEF At
<1>5. At(w)' = At(w) \cup {Len(inbox[w]) + 1} /\ Len(inbox[w]) + 1 \notin At(w)
  BY <1>1, <1>3 DEF At
<1>6. inbox' \in [Writers -> Seq(TraceStoreItems)]
  BY <1>1, <1>3
<1> QED BY <1>3, <1>4, <1>5, <1>6

\* The head of a queue is taken.
LEMMA TraceStoreTaking ==
  ASSUME TraceStoreSane, StoreInv, NEW w \in Writers, Takes(w)
  PROVE  /\ inbox' \in [Writers -> Seq(TraceStoreItems)] /\ thread[w] = "running"
         /\ \A v \in Writers \ {w} : inbox'[v] = inbox[v] /\ At(v)' = At(v)
         /\ 1 \in At(w) /\ Head(inbox[w]) = inbox[w][1] /\ inbox[w][1] \in TraceStoreItems
         /\ \A i \in At(w)' : i + 1 \in At(w) /\ inbox'[w][i] = inbox[w][i + 1] /\ i + 1 # 1 /\ i \in Nat
         /\ \A i \in At(w) : i = 1 \/ (i - 1 \in At(w)' /\ inbox'[w][i - 1] = inbox[w][i])
<1>1. inbox \in [Writers -> Seq(TraceStoreItems)] /\ inbox[w] \in Seq(TraceStoreItems) /\ Len(inbox[w]) \in Nat
      /\ inbox[w] # <<>> /\ inbox' = [inbox EXCEPT ![w] = Tail(@)] /\ thread[w] = "running"
  BY TraceStoreFacts DEF Takes
<1>2. inbox'[w] = Tail(inbox[w]) /\ Len(inbox[w]) # 0
  BY <1>1, EmptySeq
<1>3. /\ inbox'[w] \in Seq(TraceStoreItems) /\ Len(inbox'[w]) = Len(inbox[w]) - 1
      /\ \A i \in 1 .. Len(inbox'[w]) : inbox'[w][i] = inbox[w][i + 1]
  BY <1>1, <1>2
<1>4. At(w) = 1 .. Len(inbox[w]) /\ At(w)' = 1 .. Len(inbox[w]) - 1
  BY <1>3 DEF At
<1>5. \A v \in Writers \ {w} : inbox'[v] = inbox[v] /\ At(v)' = At(v)
  BY <1>1 DEF At
<1>6. inbox' \in [Writers -> Seq(TraceStoreItems)]
  BY <1>1, <1>3
<1>7. 1 \in At(w) /\ Head(inbox[w]) = inbox[w][1] /\ inbox[w][1] \in TraceStoreItems
  BY <1>1, <1>2, <1>4
<1>8. \A i \in At(w)' : i + 1 \in At(w) /\ inbox'[w][i] = inbox[w][i + 1] /\ i + 1 # 1 /\ i \in Nat
  BY <1>1, <1>2, <1>3, <1>4
<1>9. \A i \in At(w) : i = 1 \/ (i - 1 \in At(w)' /\ inbox'[w][i - 1] = inbox[w][i])
  <2> TAKE i \in At(w)
  <2>1. CASE i # 1
    <3>1. i \in Nat /\ i - 1 \in 1 .. Len(inbox'[w]) /\ (i - 1) + 1 = i
      BY <1>1, <1>2, <1>3, <1>4, <2>1
    <3>2. inbox'[w][i - 1] = inbox[w][(i - 1) + 1]
      BY <1>3, <3>1
    <3> QED BY <1>3, <1>4, <3>1, <3>2
  <2> QED BY <2>1
<1> QED BY <1>1, <1>5, <1>6, <1>7, <1>8, <1>9

\* What is left in the queues is what was there.
LEMMA TakingKeeps ==
  ASSUME TraceStoreSane, StoreInv, NEW w \in Writers, Takes(w)
  PROVE  /\ \A v \in Writers : \A i \in At(v)' : \E k \in At(v) :
              /\ inbox'[v][i] = inbox[v][k] /\ (v = w => k = i + 1 /\ k # 1) /\ (v # w => k = i)
         /\ \A v \in Writers : \A k \in At(v) :
              (v = w /\ k = 1) \/ \E i \in At(v)' : inbox'[v][i] = inbox[v][k]
<1>1. ASSUME NEW v \in Writers, NEW i \in At(v)'
      PROVE  \E k \in At(v) :
               /\ inbox'[v][i] = inbox[v][k] /\ (v = w => k = i + 1 /\ k # 1) /\ (v # w => k = i)
  <2>1. CASE v = w
    <3>1. i + 1 \in At(v) /\ inbox'[v][i] = inbox[v][i + 1] /\ i + 1 # 1
      BY <2>1, TraceStoreTaking
    <3> QED BY <2>1, <3>1
  <2>2. CASE v # w
    <3>1. inbox'[v] = inbox[v] /\ At(v)' = At(v)
      BY <2>2, TraceStoreTaking
    <3> QED BY <2>2, <3>1
  <2> QED BY <2>1, <2>2
<1>2. ASSUME NEW v \in Writers, NEW k \in At(v)
      PROVE  (v = w /\ k = 1) \/ \E i \in At(v)' : inbox'[v][i] = inbox[v][k]
  <2>1. CASE v = w
    <3>1. k = 1 \/ (k - 1 \in At(v)' /\ inbox'[v][k - 1] = inbox[v][k])
      BY <2>1, TraceStoreTaking
    <3> QED BY <2>1, <3>1
  <2>2. CASE v # w
    <3>1. inbox'[v] = inbox[v] /\ At(v)' = At(v)
      BY <2>2, TraceStoreTaking
    <3> QED BY <3>1
  <2> QED BY <2>1, <2>2
<1> QED BY <1>1, <1>2

\* Of some numbers one is the least.
LEMMA LeastOf ==
  ASSUME NEW Z \in SUBSET Nat, Z # {}
  PROVE  \E x \in Z : \A y \in Z : x <= y
<1>1. PICK x \in Z : \A y \in Z : ~(<<y, x>> \in OpToRel(<, Nat))
  BY NatLessThanWellFounded, WFMin
<1>2. \A y \in Z : ~(y < x)
  BY <1>1 DEF OpToRel
<1> QED BY <1>2

\* The floor is no less than the counter, nor than any id on disk.
LEMMA Highest ==
  ASSUME TraceStoreSane, StoreInv
  PROVE  HighestId \in Nat /\ HighestId >= counter /\ \A e \in events : e.id <= HighestId
<1> DEFINE ids == RowIds(events)
           m == MaxEvents + 1
           Z == {n \in Nat : \A i \in ids : i <= n}
<1>1. m \in Nat /\ counter \in Nat
  BY TraceStoreFacts
<1>2. \A e \in events : e.id \in 1 .. m
  BY DEF StoreInv, Shapes, Rows
<1>3. ids \in SUBSET (1 .. m) /\ \A e \in events : e.id \in ids
  BY <1>2 DEF RowIds
<1> HIDE DEF ids, m
<1>4. Z \in SUBSET Nat /\ m \in Z
  BY <1>1, <1>3
<1>5. PICK n \in Z : \A y \in Z : n <= y
  BY <1>4, LeastOf
<1>6. n \in Nat /\ \A i \in ids : i <= n /\ i \in Nat /\ i >= 1
  BY <1>1, <1>3, <1>5
<1>7. CASE \E i \in ids : i > counter
  <2>1. n \in ids
    <3> SUFFICES ASSUME n \notin ids PROVE FALSE
      OBVIOUS
    <3>1. n - 1 \in Nat
      BY <1>1, <1>6, <1>7
    <3>2. \A i \in ids : i <= n - 1
      BY <1>6, <3>1
    <3>3. n - 1 \in Z
      BY <3>1, <3>2
    <3> QED BY <1>5, <1>6, <3>1, <3>3
  <2>2. \E i \in ids : \A j \in ids : i >= j
    BY <1>6, <2>1
  <2>3. HighestId = CHOOSE i \in ids : \A j \in ids : i >= j
    BY <1>7 DEF HighestId, ids
  <2>4. HighestId \in ids /\ \A j \in ids : HighestId >= j
    BY <2>2, <2>3
  <2>5. PICK i \in ids : i > counter
    BY <1>7
  <2>6. HighestId \in Nat /\ HighestId >= i
    BY <1>6, <2>4, <2>5
  <2>7. HighestId >= counter
    BY <1>1, <1>6, <2>5, <2>6
  <2>8. \A e \in events : e.id <= HighestId
    BY <1>3, <1>6, <2>4
  <2> QED BY <2>6, <2>7, <2>8
<1>8. CASE ~ \E i \in ids : i > counter
  <2>1. HighestId = counter
    BY <1>8 DEF HighestId, ids
  <2>2. ASSUME NEW e \in events PROVE e.id <= counter
    <3>1. e.id \in ids /\ e.id \in Nat
      BY <1>3, <1>6
    <3>2. ~(e.id > counter)
      BY <1>8, <3>1
    <3> QED BY <1>1, <3>1, <3>2
  <2> QED BY <1>1, <2>1, <2>2
<1> QED BY <1>7, <1>8

\* What is minted stays so while the queues and the rows stand still.
LEMMA MintedStill ==
  ASSUME StoreInv, UNCHANGED <<inbox, txn, events, counter, early>>, Raised' => Raised
  PROVE  Minted'
BY DEF StoreInv, Minted, At, EventAt, Id

\* ... and while rows go from a queue to a transaction and from there to disk.
LEMMA MintedTakes ==
  ASSUME TraceStoreSane, StoreInv, NEW w \in Writers, Takes(w), UNCHANGED <<counter, early>>,
         \A e \in events' : e \in events \/ \E v \in Writers : e \in txn[v],
         \A v \in Writers : \A e \in txn'[v] :
           e \in txn[v] \/ (v = w /\ e = inbox[w][1] /\ EventAt(w, 1))
  PROVE  Minted'
<1>1. Raised /\ counter \in Nat
  BY TraceStoreFacts, TraceStoreTaking DEF Raised
<1>2. 1 \in At(w)
  BY TraceStoreTaking
<1>3. \A v \in Writers : \A i \in At(v)' : \E k \in At(v) :
        /\ inbox'[v][i] = inbox[v][k] /\ (v = w => k = i + 1 /\ k # 1) /\ (v # w => k = i)
  BY TakingKeeps
<1>4. \A v \in Writers : \A i \in At(v)' : EventAt(v, i)' => Id(v, i)' <= counter
  <2> SUFFICES ASSUME NEW v \in Writers, NEW i \in At(v)', EventAt(v, i)' PROVE Id(v, i)' <= counter
    OBVIOUS
  <2>1. PICK k \in At(v) : inbox'[v][i] = inbox[v][k]
    BY <1>3
  <2> QED BY <2>1 DEF StoreInv, Minted, EventAt, Id
<1>5. ASSUME NEW v \in Writers, NEW u \in Writers, NEW i \in At(v)', NEW j \in At(u)',
             EventAt(v, i)', EventAt(u, j)', Id(v, i)' = Id(u, j)'
      PROVE  v = u /\ i = j
  <2>1. PICK k \in At(v) : inbox'[v][i] = inbox[v][k] /\ (v = w => k = i + 1) /\ (v # w => k = i)
    BY <1>3
  <2>2. PICK l \in At(u) : inbox'[u][j] = inbox[u][l] /\ (u = w => l = j + 1) /\ (u # w => l = j)
    BY <1>3
  <2>3. v = u /\ k = l
    BY <1>5, <2>1, <2>2 DEF StoreInv, Minted, EventAt, Id
  <2>4. v = w => i \in Nat /\ j \in Nat
    BY <2>3, TraceStoreTaking
  <2> QED BY <2>1, <2>2, <2>3, <2>4
<1>6. ASSUME NEW v \in Writers, NEW i \in At(v)', EventAt(v, i)', inbox'[v][i].ev \notin early
      PROVE  /\ \A e \in events : e.id # Id(v, i)'
             /\ \A u \in Writers : \A e \in txn[u] : e.id # Id(v, i)'
             /\ EventAt(w, 1) => inbox[w][1].id # Id(v, i)'
  <2>1. PICK k \in At(v) : inbox'[v][i] = inbox[v][k] /\ (v = w => k # 1)
    BY <1>3
  <2> QED BY <1>2, <1>6, <2>1 DEF StoreInv, Minted, EventAt, Id
<1>7. /\ \A v \in Writers : \A i \in At(v)' :
           EventAt(v, i)' /\ inbox'[v][i].ev \notin early =>
             /\ \A e \in events' : e.id # Id(v, i)'
             /\ \A u \in Writers : \A e \in txn'[u] : e.id # Id(v, i)'
  BY <1>6
<1>8. /\ \A e \in events : e.id <= counter
      /\ \A v \in Writers : \A e \in txn[v] : e.id <= counter
      /\ EventAt(w, 1) => inbox[w][1].id <= counter
  BY <1>1, <1>2 DEF StoreInv, Minted, Id
<1>9. /\ \A e \in events' : e.id <= counter
      /\ \A v \in Writers : \A e \in txn'[v] : e.id <= counter
  BY <1>8
<1> HIDE DEF EventAt, Id, At
<1> QED BY <1>4, <1>5, <1>7, <1>9 DEF Minted

\* A place for each event that the log shows, while the queues keep theirs.
LEMMA TracedTakes ==
  ASSUME TraceStoreSane, StoreInv, NEW w \in Writers, Takes(w), NEW ev \in 1 .. logged,
         landed \subseteq landed', failed \subseteq failed', clashed \subseteq clashed', early' = early,
         \A v \in Writers : (thread'[v] = "running") \/ v = w \/ thread[v] # "running",
         \A v \in Writers \ {w} : txn[v] \subseteq txn'[v],
         (\E e \in txn[w] : e.ev = ev) =>
           ev \in landed' \/ (thread'[w] = "running" /\ \E e \in txn'[w] : e.ev = ev),
         EventAt(w, 1) /\ inbox[w][1].ev = ev => Traced(ev)'
  PROVE  Traced(ev)'
<1>1. \A v \in Writers : \A k \in At(v) :
        (v = w /\ k = 1) \/ \E i \in At(v)' : inbox'[v][i] = inbox[v][k]
  BY TakingKeeps
<1>2. Traced(ev)
  BY DEF StoreInv
<1>3. CASE \E v \in Writers : \E i \in At(v) : EventAt(v, i) /\ inbox[v][i].ev = ev
  BY <1>1, <1>3 DEF Traced, EventAt
<1>4. CASE \E v \in Writers : thread[v] = "running" /\ \E e \in txn[v] : e.ev = ev
  <2>1. PICK v \in Writers : thread[v] = "running" /\ \E e \in txn[v] : e.ev = ev
    BY <1>4
  <2>2. CASE v = w
    BY <2>1, <2>2 DEF Traced
  <2>3. CASE v # w
    BY <2>1, <2>3 DEF Traced
  <2> QED BY <2>2, <2>3
<1>5. CASE ev \in landed \cup failed \/ ev \in clashed \cap early
  BY <1>5 DEF Traced
<1> QED BY <1>2, <1>3, <1>4, <1>5 DEF Traced

-----------------------------------------------------------------------------

LEMMA AcquiresInv == ASSUME TraceStoreSane, StoreInv, NEW h \in Holders, Acquires(h) PROVE StoreInv'
<1>1. PICK w \in Writers :
        /\ IF reg = 0 THEN thread[w] = "none" ELSE w = reg
        /\ reg' = w /\ hold' = [hold EXCEPT ![h] = w]
        /\ thread' = IF Alive(w) THEN thread ELSE [thread EXCEPT ![w] = "opening"]
  BY DEF Acquires
<1>2. /\ hold[h] = 0 /\ refs' = refs + 1
      /\ UNCHANGED <<releasing, inbox, txn, counter, events, misses, ghostVars>>
  BY DEF Acquires
<1>3. /\ \A v \in Writers \ {w} : thread'[v] = thread[v]
      /\ thread'[w] \in {"opening", "running"} /\ (thread'[w] = "running" <=> thread[w] = "running")
      /\ thread[w] # "ended"
      /\ thread' \in [Writers -> {"none", "opening", "running", "failed", "ended"}]
  BY <1>1, TraceStoreFacts DEF Alive, StoreInv, Registered
<1>4. hold' \in [Holders -> Writers \cup {0}] /\ w # 0
      /\ \A k \in Holders : hold'[k] = IF k = h THEN w ELSE hold[k]
  BY <1>1, TraceStoreFacts
<1>5. TypeOK'
  BY <1>1, <1>2, <1>3, <1>4, TraceStoreFacts DEF StoreInv, TypeOK, ghostVars
<1>6. Shapes'
  BY <1>2 DEF StoreInv, Shapes
<1>7. Registered'
  <2>1. Holding' = Holding \cup {h} /\ h \notin Holding
    BY <1>2, <1>4 DEF Holding
  <2>2. IsFiniteSet(Holding)
    BY FS_Subset DEF Holding, TraceStoreSane
  <2>3. refs' = Cardinality(Holding')
    BY <1>2, <2>1, <2>2, FS_AddElement DEF StoreInv, Registered
  <2>4. \A k \in Holders : hold'[k] \in {0, reg'}
    <3>1. \A k \in Holders : hold[k] \in {0, w}
      BY <1>1 DEF StoreInv, Registered
    <3> QED BY <1>1, <1>4, <3>1
  <2>5. /\ \A i \in At(w) : inbox[w][i] # Mark("stop")
        /\ \A r \in releasing : r.of # w
    <3>1. CASE reg = 0
      <4>1. inbox[w] = <<>>
        BY <1>1, <3>1 DEF StoreInv, Registered
      <4>2. At(w) = {}
        BY <4>1 DEF At
      <4> QED BY <1>1, <3>1, <4>2 DEF StoreInv, Registered
    <3>2. CASE reg # 0
      BY <1>1, <3>2, TraceStoreFacts DEF StoreInv, Registered
    <3> QED BY <3>1, <3>2
  <2>6. \A r \in releasing' : thread'[r.of] # "none"
    <3>1. \A r \in releasing : r.of \in Writers
      BY TraceStoreFacts
    <3> QED BY <1>2, <1>3, <3>1 DEF StoreInv, Registered
  <2>7. \A v \in Writers : thread'[v] = "none" => inbox'[v] = <<>>
    BY <1>2, <1>3 DEF StoreInv, Registered
  <2>8. \A i \in At(w)' : inbox'[w][i] # Mark("stop")
    BY <1>2, <2>5 DEF At
  <2> QED BY <1>1, <1>2, <1>3, <2>1, <2>3, <2>4, <2>5, <2>6, <2>7, <2>8 DEF Registered
<1>8. Applied'
  BY <1>2, <1>3 DEF StoreInv, Applied
<1>9. Minted'
  <2>1. Raised' => Raised
    BY <1>3 DEF Raised
  <2> QED BY <1>2, <2>1, MintedStill DEF ghostVars
<1>10. \A ev \in 1 .. logged' : Traced(ev)'
  <2>1. \A v \in Writers : thread[v] = "running" => thread'[v] = "running"
    BY <1>3
  <2> QED BY <1>2, <2>1 DEF StoreInv, Traced, At, EventAt, ghostVars
<1> QED BY <1>5, <1>6, <1>7, <1>8, <1>9, <1>10 DEF StoreInv

LEMMA ReleasesInv == ASSUME TraceStoreSane, StoreInv, NEW h \in Holders, Releases(h) PROVE StoreInv'
<1>1. /\ hold[h] # 0 /\ hold' = [hold EXCEPT ![h] = 0] /\ refs' = refs - 1
      /\ UNCHANGED <<thread, inbox, txn, counter, events, misses, ghostVars>>
      /\ IF refs = 1
           THEN reg' = 0 /\ releasing' = releasing \cup {[of |-> reg, step |-> "flush"]}
           ELSE reg' = reg /\ releasing' = releasing
  BY DEF Releases, Forgets
<1>2. hold[h] = reg /\ reg # 0 /\ reg \in Writers
  BY <1>1, TraceStoreFacts DEF StoreInv, Registered
<1>3. hold' \in [Holders -> Writers \cup {0}] /\ hold'[h] = 0
      /\ \A k \in Holders : k # h => hold'[k] = hold[k]
  BY <1>1, TraceStoreFacts
<1>4. Holding' = Holding \ {h} /\ h \in Holding
  BY <1>1, <1>3 DEF Holding
<1>5. IsFiniteSet(Holding) /\ IsFiniteSet(Holding')
  BY <1>4, FS_Subset DEF Holding, TraceStoreSane
<1>6. refs = Cardinality(Holding) /\ refs' = Cardinality(Holding') /\ refs' \in Nat /\ refs \in Nat
  BY <1>1, <1>4, <1>5, FS_RemoveElement, FS_CardinalityType DEF StoreInv, Registered
<1>7. refs = 1 <=> Holding' = {}
  BY <1>1, <1>5, <1>6, FS_EmptySet
<1>8. releasing' \subseteq [of : Writers, step : {"flush", "stop"}]
  BY <1>1, <1>2, TraceStoreFacts
<1>9. TypeOK'
  BY <1>1, <1>2, <1>3, <1>6, <1>8, TraceStoreFacts DEF StoreInv, TypeOK, ghostVars
<1>10. Registered'
  <2>1. \A k \in Holders : hold'[k] \in {0, reg'}
    BY <1>1, <1>3, <1>7 DEF StoreInv, Registered, Holding
  <2>2. ASSUME NEW w \in Writers, w = reg'
        PROVE  /\ Holding' # {} /\ thread'[w] \notin {"none", "ended"}
               /\ \A i \in At(w)' : inbox'[w][i] # Mark("stop")
               /\ \A r \in releasing' : r.of # w
    <3>1. w = reg /\ reg' = reg /\ refs # 1 /\ releasing' = releasing
      BY <1>1, <2>2, TraceStoreFacts
    <3> QED BY <1>1, <1>7, <2>2, <3>1 DEF StoreInv, Registered, At
  <2>3. \A r \in releasing' : thread'[r.of] # "none"
    BY <1>1, <1>2 DEF StoreInv, Registered
  <2>4. \A v \in Writers : thread'[v] = "none" => inbox'[v] = <<>>
    BY <1>1 DEF StoreInv, Registered
  <2> QED BY <1>6, <2>1, <2>2, <2>3, <2>4 DEF Registered
<1>11. Shapes' /\ Applied'
  BY <1>1 DEF StoreInv, Shapes, Applied
<1>12. Minted'
  BY <1>1, MintedStill DEF ghostVars, Raised
<1>13. \A ev \in 1 .. logged' : Traced(ev)'
  BY <1>1 DEF StoreInv, Traced, At, EventAt, ghostVars
<1> QED BY <1>9, <1>10, <1>11, <1>12, <1>13 DEF StoreInv

LEMMA ReleaseGoesOnInv ==
  ASSUME TraceStoreSane, StoreInv, NEW r \in releasing, ReleaseGoesOn(r) PROVE StoreInv'
<1> DEFINE w == r.of
           item == Mark(r.step)
           next == [r EXCEPT !.step = "stop"]
<1>1. /\ releasing' = (releasing \ {r}) \cup (IF r.step = "flush" THEN {next} ELSE {})
      /\ UNCHANGED <<reg, refs, hold, thread, txn, counter, events, ghostVars>>
      /\ \/ Alive(w) /\ inbox' = [inbox EXCEPT ![w] = Append(@, item)] /\ misses' = misses
         \/ inbox' = inbox /\ misses' = misses
         \/ inbox' = inbox /\ misses' = misses + 1 /\ misses < MaxMishaps
  BY DEF ReleaseGoesOn, Miss
<1>2. r \in [of : Writers, step : {"flush", "stop"}]
  BY TraceStoreFacts
<1>3. w \in Writers /\ w # reg /\ thread[w] # "none" /\ item \in TraceStoreItems /\ item.kind # "event"
      /\ next \in [of : Writers, step : {"flush", "stop"}] /\ next.of = w
  BY <1>2 DEF StoreInv, Registered, Mark, TraceStoreItems
<1> HIDE DEF w, item, next
<1>4. /\ releasing' \subseteq [of : Writers, step : {"flush", "stop"}]
      /\ \A q \in releasing' : q.of = w \/ q \in releasing
  BY <1>1, <1>3, TraceStoreFacts
<1>5. /\ inbox' \in [Writers -> Seq(TraceStoreItems)]
      /\ \A v \in Writers \ {w} : inbox'[v] = inbox[v] /\ At(v)' = At(v)
      /\ \A v \in Writers : \A i \in At(v) : i \in At(v)' /\ inbox'[v][i] = inbox[v][i]
      /\ \A v \in Writers : \A i \in At(v)' :
           (i \in At(v) /\ inbox'[v][i] = inbox[v][i]) \/ (inbox'[v][i] = item)
  <2>1. CASE inbox' = inbox
    BY <2>1, TraceStoreFacts DEF At
  <2>2. CASE inbox' = [inbox EXCEPT ![w] = Append(@, item)]
    <3>1. /\ inbox' \in [Writers -> Seq(TraceStoreItems)]
          /\ \A v \in Writers \ {w} : inbox'[v] = inbox[v] /\ At(v)' = At(v)
          /\ At(w)' = At(w) \cup {Len(inbox[w]) + 1} /\ Len(inbox[w]) + 1 \notin At(w)
          /\ \A i \in At(w) : inbox'[w][i] = inbox[w][i]
          /\ inbox'[w][Len(inbox[w]) + 1] = item
      BY <1>3, <2>2, Putting
    <3>2. ASSUME NEW v \in Writers, NEW i \in At(v)
          PROVE  i \in At(v)' /\ inbox'[v][i] = inbox[v][i]
      BY <3>1, <3>2
    <3>3. ASSUME NEW v \in Writers, NEW i \in At(v)'
          PROVE  (i \in At(v) /\ inbox'[v][i] = inbox[v][i]) \/ (inbox'[v][i] = item)
      <4>1. CASE v = w
        BY <3>1, <3>3, <4>1
      <4>2. CASE v # w
        BY <3>1, <3>3, <4>2
      <4> QED BY <4>1, <4>2
    <3> QED BY <3>1, <3>2, <3>3
  <2> QED BY <1>1, <2>1, <2>2
<1>6. misses' \in 0 .. MaxMishaps
  BY <1>1, TraceStoreFacts DEF StoreInv, TypeOK
<1>7. TypeOK'
  BY <1>1, <1>4, <1>6 DEF StoreInv, TypeOK, ghostVars
<1>8. Shapes'
  BY <1>1, <1>5 DEF StoreInv, Shapes
<1>9. Registered'
  <2>1. ASSUME NEW v \in Writers, v = reg'
        PROVE  /\ Holding' # {} /\ thread'[v] \notin {"none", "ended"}
               /\ \A i \in At(v)' : inbox'[v][i] # Mark("stop")
               /\ \A q \in releasing' : q.of # v
    BY <1>1, <1>3, <1>4, <1>5, <2>1 DEF StoreInv, Registered, Holding
  <2>2. \A q \in releasing' : thread'[q.of] # "none"
    BY <1>1, <1>3, <1>4 DEF StoreInv, Registered
  <2>3. \A v \in Writers : thread'[v] = "none" => inbox'[v] = <<>>
    BY <1>1, <1>3, <1>5 DEF StoreInv, Registered
  <2> QED BY <1>1, <2>1, <2>2, <2>3 DEF StoreInv, Registered, Holding
<1>10. Applied'
  BY <1>1 DEF StoreInv, Applied
<1>11. Minted'
  <2>1. Raised' = Raised
    BY <1>1 DEF Raised
  <2>2. \A v \in Writers : \A i \in At(v)' : EventAt(v, i)' =>
          i \in At(v) /\ EventAt(v, i) /\ Id(v, i)' = Id(v, i) /\ inbox'[v][i] = inbox[v][i]
    BY <1>3, <1>5 DEF EventAt, Id
  <2>3. \A v \in Writers : \A i \in At(v)' : EventAt(v, i)' => Id(v, i)' <= counter
    BY <2>2 DEF StoreInv, Minted
  <2>4. \A v, u \in Writers : \A i \in At(v)', j \in At(u)' :
          EventAt(v, i)' /\ EventAt(u, j)' /\ Id(v, i)' = Id(u, j)' => v = u /\ i = j
    BY <2>2 DEF StoreInv, Minted
  <2>5. \A v \in Writers : \A i \in At(v)' :
          EventAt(v, i)' /\ inbox'[v][i].ev \notin early =>
            /\ \A e \in events : e.id # Id(v, i)'
            /\ \A u \in Writers : \A e \in txn[u] : e.id # Id(v, i)'
    BY <2>2 DEF StoreInv, Minted
  <2>6. /\ counter' = counter /\ early' = early /\ events' = events /\ txn' = txn
        /\ Raised => /\ \A e \in events : e.id <= counter
                     /\ \A v \in Writers : \A e \in txn[v] : e.id <= counter
    BY <1>1 DEF StoreInv, Minted, ghostVars
  <2> QED BY <2>1, <2>3, <2>4, <2>5, <2>6 DEF Minted
<1>12. \A ev \in 1 .. logged' : Traced(ev)'
  <2>1. \A v \in Writers : \A i \in At(v) : EventAt(v, i) =>
          i \in At(v)' /\ EventAt(v, i)' /\ inbox'[v][i].ev = inbox[v][i].ev
    BY <1>5 DEF EventAt
  <2> QED BY <1>1, <2>1 DEF StoreInv, Traced, ghostVars
<1> QED BY <1>7, <1>8, <1>9, <1>10, <1>11, <1>12 DEF StoreInv

LEMMA LogsInv == ASSUME TraceStoreSane, StoreInv, NEW w \in Writers, Logs(w) PROVE StoreInv'
<1> DEFINE new == logged + 1
           item == Event(new, counter + 1)
<1>1. /\ thread[w] # "none" /\ new \in Events /\ counter <= MaxEvents /\ counter' = counter + 1
      /\ \/ /\ inbox' = [inbox EXCEPT ![w] = Append(@, item)] /\ logged' = new
            /\ early' = IF Raised THEN early ELSE early \cup {new}
         \/ inbox' = inbox /\ logged' = logged /\ early' = early
      /\ UNCHANGED <<registryVars, thread, txn, events, misses, clashed, failed, landed>>
  BY DEF Logs, Put, Given, Raised
<1>2. counter \in Nat /\ logged \in 0 .. MaxEvents /\ MaxEvents \in Nat
  BY TraceStoreFacts
<1>3. item \in TraceStoreItems /\ item.kind = "event" /\ item.ev = new /\ item.id = counter + 1
  BY <1>1, <1>2 DEF Event, TraceStoreItems, Rows
<1>4. new = logged + 1
  OBVIOUS
<1> HIDE DEF new, item
<1>5. TypeOK'
  <2>1. new \in 0 .. MaxEvents /\ counter' \in Nat
    BY <1>1, <1>2 DEF Events
  <2>2. early' \subseteq Events /\ logged' \in 0 .. MaxEvents
    BY <1>1, <1>2, <2>1 DEF StoreInv, TypeOK
  <2> QED BY <1>1, <2>1, <2>2 DEF StoreInv, TypeOK, registryVars
<1>6. CASE inbox' = inbox /\ logged' = logged /\ early' = early
  <2>1. Shapes' /\ Registered' /\ Applied'
    BY <1>1, <1>6 DEF StoreInv, Shapes, Registered, Holding, Applied, At, registryVars
  <2>2. \A ev \in 1 .. logged' : Traced(ev)'
    BY <1>1, <1>6 DEF StoreInv, Traced, At, EventAt
  <2>3. \A v \in Writers : \A i \in At(v) : EventAt(v, i) => Id(v, i) <= counter'
    <3>1. ASSUME NEW v \in Writers, NEW i \in At(v), EventAt(v, i) PROVE Id(v, i) <= counter'
      <4>1. Id(v, i) \in 1 .. MaxEvents + 1 /\ Id(v, i) <= counter
        BY <3>1, TraceStoreFacts, TraceStoreItemFacts DEF StoreInv, Minted, EventAt, Id
      <4> QED BY <1>1, <1>2, <4>1
    <3> QED BY <3>1
  <2>4. Raised => /\ \A e \in events : e.id <= counter'
                  /\ \A v \in Writers : \A e \in txn[v] : e.id <= counter'
    <3>1. \A e \in events : e.id \in Nat
      BY <1>2 DEF StoreInv, Shapes, Rows
    <3>2. \A v \in Writers : \A e \in txn[v] : e.id \in Nat
      BY <1>2 DEF StoreInv, Shapes, Rows
    <3> QED BY <1>1, <1>2, <3>1, <3>2 DEF StoreInv, Minted
  <2>5. Minted'
    <3>1. Raised' = Raised /\ events' = events /\ txn' = txn
      BY <1>1 DEF Raised
    <3>2. \A v \in Writers : At(v)' = At(v)
                             /\ \A i \in At(v) : EventAt(v, i)' = EventAt(v, i) /\ Id(v, i)' = Id(v, i)
      BY <1>6 DEF At, EventAt, Id
    <3> QED BY <1>6, <2>3, <2>4, <3>1, <3>2 DEF StoreInv, Minted
  <2> QED BY <1>5, <2>1, <2>2, <2>5 DEF StoreInv
<1>7. CASE /\ inbox' = [inbox EXCEPT ![w] = Append(@, item)] /\ logged' = new
           /\ early' = IF Raised THEN early ELSE early \cup {new}
  <2>1. PICK k :
        /\ inbox' \in [Writers -> Seq(TraceStoreItems)]
        /\ \A v \in Writers \ {w} : inbox'[v] = inbox[v] /\ At(v)' = At(v)
        /\ At(w)' = At(w) \cup {k} /\ k \notin At(w)
        /\ \A i \in At(w) : inbox'[w][i] = inbox[w][i]
        /\ inbox'[w][k] = item
    BY <1>3, <1>7, Putting
  <2>2. \A v \in Writers : \A i \in At(v) :
          /\ i \in At(v)' /\ inbox'[v][i] = inbox[v][i]
          /\ EventAt(v, i)' <=> EventAt(v, i)
          /\ Id(v, i)' = Id(v, i)
    BY <2>1 DEF EventAt, Id
  <2>3. ASSUME NEW v \in Writers, NEW i \in At(v)'
        PROVE  i \in At(v) \/ (v = w /\ i = k /\ inbox'[v][i] = item /\ Id(v, i)' = counter + 1
                               /\ EventAt(v, i)')
    BY <1>3, <2>1 DEF Id, EventAt
  <2>4. \A v \in Writers : \A i \in At(v) : EventAt(v, i) =>
          Id(v, i) \in Nat /\ Id(v, i) <= counter /\ inbox[v][i].ev \in Events
    BY <1>2, TraceStoreFacts, TraceStoreItemFacts DEF StoreInv, Minted, EventAt, Id
  <2>5. Shapes' /\ Applied'
    BY <1>1, <2>1 DEF StoreInv, Shapes, Applied
  <2>6. Registered'
    <3>1. ASSUME NEW v \in Writers, v = reg'
          PROVE  /\ Holding' # {} /\ thread'[v] \notin {"none", "ended"}
                 /\ \A i \in At(v)' : inbox'[v][i] # Mark("stop")
                 /\ \A r \in releasing' : r.of # v
      <4>1. item # Mark("stop")
        BY <1>3 DEF Mark
      <4> QED BY <1>1, <2>2, <2>3, <3>1, <4>1 DEF StoreInv, Registered, Holding, registryVars
    <3>2. \A v \in Writers : thread'[v] = "none" => inbox'[v] = <<>>
      BY <1>1, <2>1 DEF StoreInv, Registered
    <3> QED BY <1>1, <3>1, <3>2 DEF StoreInv, Registered, Holding, registryVars
  <2>7. Minted'
    <3>1. Raised' = Raised /\ events' = events /\ txn' = txn
      BY <1>1 DEF Raised
    <3>2. \A v \in Writers : \A i \in At(v)' : EventAt(v, i)' => Id(v, i)' <= counter'
      <4>1. ASSUME NEW v \in Writers, NEW i \in At(v)', EventAt(v, i)' PROVE Id(v, i)' <= counter'
        BY <1>1, <1>2, <2>2, <2>3, <2>4, <4>1
      <4> QED BY <4>1
    <3>3. \A v \in Writers : \A i \in At(v) : EventAt(v, i) => Id(v, i) # counter + 1
      BY <1>2, <2>4
    <3>4. ASSUME NEW v \in Writers, NEW u \in Writers, NEW i \in At(v)', NEW j \in At(u)',
                 EventAt(v, i)', EventAt(u, j)', Id(v, i)' = Id(u, j)'
          PROVE  v = u /\ i = j
      <4>1. CASE i \in At(v) /\ j \in At(u)
        BY <2>2, <3>4, <4>1 DEF StoreInv, Minted
      <4>2. CASE ~(i \in At(v) /\ j \in At(u))
        BY <2>2, <2>3, <3>3, <3>4, <4>2
      <4> QED BY <4>1, <4>2
    <3>5. Raised => /\ \A e \in events : e.id <= counter /\ e.id \in Nat
                    /\ \A v \in Writers : \A e \in txn[v] : e.id <= counter /\ e.id \in Nat
      <4>1. \A e \in events : e.id \in Nat
        BY <1>2 DEF StoreInv, Shapes, Rows
      <4>2. \A v \in Writers : \A e \in txn[v] : e.id \in Nat
        BY <1>2 DEF StoreInv, Shapes, Rows
      <4> QED BY <4>1, <4>2 DEF StoreInv, Minted
    <3>6. Raised => /\ \A e \in events : e.id <= counter' /\ e.id # counter + 1
                    /\ \A v \in Writers : \A e \in txn[v] : e.id <= counter' /\ e.id # counter + 1
      BY <1>1, <1>2, <3>5
    <3>8. early \subseteq early' /\ (~Raised => new \in early')
      BY <1>7
    <3>7. ASSUME NEW v \in Writers, NEW i \in At(v)', EventAt(v, i)', inbox'[v][i].ev \notin early'
          PROVE  /\ \A e \in events : e.id # Id(v, i)'
                 /\ \A u \in Writers : \A e \in txn[u] : e.id # Id(v, i)'
      <4>1. CASE i \in At(v)
        <5>1. EventAt(v, i) /\ inbox[v][i].ev \notin early /\ Id(v, i)' = Id(v, i)
          BY <2>2, <3>7, <3>8, <4>1
        <5> QED BY <4>1, <5>1 DEF StoreInv, Minted
      <4>2. CASE i \notin At(v)
        <5>1. inbox'[v][i] = item /\ Id(v, i)' = counter + 1
          BY <2>3, <4>2
        <5>2. Raised
          BY <1>3, <3>7, <3>8, <5>1
        <5> QED BY <3>6, <5>1, <5>2
      <4> QED BY <4>1, <4>2
    <3> QED BY <3>1, <3>2, <3>4, <3>6, <3>7 DEF Minted
  <2>8. ASSUME NEW ev \in 1 .. logged' PROVE Traced(ev)'
    <3>1. CASE ev \in 1 .. logged
      <4>1. early \subseteq early'
        BY <1>7
      <4> QED BY <1>1, <2>2, <3>1, <4>1 DEF StoreInv, Traced
    <3>2. CASE ev \notin 1 .. logged
      <4>1. ev = new
        BY <1>2, <1>4, <1>7, <3>2
      <4>2. k \in At(w)' /\ EventAt(w, k)' /\ inbox'[w][k].ev = new
        BY <1>3, <2>1 DEF EventAt
      <4> QED BY <4>1, <4>2 DEF Traced
    <3> QED BY <3>1, <3>2
  <2> QED BY <1>5, <2>5, <2>6, <2>7, <2>8 DEF StoreInv
<1> QED BY <1>1, <1>6, <1>7

LEMMA StartsInv == ASSUME TraceStoreSane, StoreInv, NEW w \in Writers, Starts(w) PROVE StoreInv'
<1>1. /\ thread[w] = "opening" /\ thread' = [thread EXCEPT ![w] = "running"]
      /\ counter' = HighestId
      /\ UNCHANGED <<registryVars, inbox, txn, events, misses, ghostVars>>
  BY DEF Starts
<1>2. HighestId \in Nat /\ HighestId >= counter /\ (\A e \in events : e.id <= HighestId) /\ counter \in Nat
  BY TraceStoreFacts, Highest
<1>3. /\ thread' \in [Writers -> {"none", "opening", "running", "failed", "ended"}]
      /\ thread'[w] = "running" /\ \A v \in Writers : v # w => thread'[v] = thread[v]
  BY <1>1, TraceStoreFacts
<1>4. TypeOK'
  BY <1>1, <1>2, <1>3 DEF StoreInv, TypeOK, registryVars, ghostVars
<1>5. Shapes' /\ Applied'
  BY <1>1, <1>3 DEF StoreInv, Shapes, Applied
<1>6. Registered'
  <2>1. \A r \in releasing : r.of \in Writers
    BY TraceStoreFacts
  <2>2. \A r \in releasing : thread'[r.of] # "none"
    BY <1>3, <2>1 DEF StoreInv, Registered
  <2>3. \A v \in Writers : v = reg => thread'[v] \notin {"none", "ended"}
    BY <1>3 DEF StoreInv, Registered
  <2>4. \A v \in Writers : thread'[v] = "none" => inbox[v] = <<>>
    BY <1>3 DEF StoreInv, Registered
  <2> QED BY <1>1, <2>2, <2>3, <2>4 DEF StoreInv, Registered, Holding, registryVars, At
<1>7. Minted'
  <2>1. \A v \in Writers : \A i \in At(v) : EventAt(v, i) => Id(v, i) <= counter'
    <3>1. ASSUME NEW v \in Writers, NEW i \in At(v), EventAt(v, i) PROVE Id(v, i) <= counter'
      <4>1. Id(v, i) \in 1 .. MaxEvents + 1 /\ Id(v, i) <= counter /\ MaxEvents \in Nat
        BY <3>1, TraceStoreFacts, TraceStoreItemFacts DEF StoreInv, Minted, EventAt, Id
      <4> QED BY <1>1, <1>2, <4>1
    <3> QED BY <3>1
  <2>2. ASSUME NEW v \in Writers, NEW e \in txn[v] PROVE e.id <= counter'
    <3>1. Raised
      BY <2>2 DEF StoreInv, Applied, Raised
    <3>2. e.id <= counter /\ e.id \in 1 .. MaxEvents + 1 /\ MaxEvents \in Nat
      BY <2>2, <3>1, TraceStoreFacts DEF StoreInv, Minted, Shapes, Rows
    <3> QED BY <1>1, <1>2, <3>2
  <2>3. \A v \in Writers : At(v)' = At(v)
                           /\ \A i \in At(v) : EventAt(v, i)' = EventAt(v, i) /\ Id(v, i)' = Id(v, i)
    BY <1>1 DEF At, EventAt, Id
  <2>4. inbox' = inbox /\ events' = events /\ txn' = txn /\ early' = early
    BY <1>1 DEF ghostVars
  <2> QED BY <1>1, <1>2, <2>1, <2>2, <2>3, <2>4 DEF StoreInv, Minted
<1>8. \A ev \in 1 .. logged' : Traced(ev)'
  <2>1. \A v \in Writers : thread[v] = "running" => thread'[v] = "running"
    BY <1>1, <1>3
  <2> QED BY <1>1, <2>1 DEF StoreInv, Traced, At, EventAt, ghostVars
<1> QED BY <1>4, <1>5, <1>6, <1>7, <1>8 DEF StoreInv

LEMMA StartFailsInv ==
  ASSUME TraceStoreSane, StoreInv, NEW w \in Writers, StartFails(w)
  PROVE  StoreInv'
<1>1. /\ thread[w] = "opening" /\ thread' = [thread EXCEPT ![w] = "failed"]
      /\ misses < MaxMishaps /\ misses' = misses + 1
      /\ UNCHANGED <<registryVars, inbox, txn, counter, events, ghostVars>>
  BY DEF StartFails, Miss
<1>2. /\ thread' \in [Writers -> {"none", "opening", "running", "failed", "ended"}]
      /\ thread'[w] = "failed" /\ \A v \in Writers : v # w => thread'[v] = thread[v]
  BY <1>1, TraceStoreFacts
<1>3. misses' \in 0 .. MaxMishaps
  BY <1>1, TraceStoreFacts DEF StoreInv, TypeOK
<1>4. TypeOK'
  BY <1>1, <1>2, <1>3 DEF StoreInv, TypeOK, registryVars, ghostVars
<1>5. Shapes' /\ Applied'
  BY <1>1, <1>2 DEF StoreInv, Shapes, Applied
<1>6. Registered'
  <2>1. \A r \in releasing : r.of \in Writers
    BY TraceStoreFacts
  <2>2. \A r \in releasing : thread'[r.of] # "none"
    BY <1>2, <2>1 DEF StoreInv, Registered
  <2>3. \A v \in Writers : v = reg => thread'[v] \notin {"none", "ended"}
    BY <1>2 DEF StoreInv, Registered
  <2>4. \A v \in Writers : thread'[v] = "none" => inbox[v] = <<>>
    BY <1>2 DEF StoreInv, Registered
  <2> QED BY <1>1, <2>2, <2>3, <2>4 DEF StoreInv, Registered, Holding, registryVars, At
<1>7. Minted'
  <2>1. Raised' => Raised
    BY <1>1, <1>2 DEF Raised
  <2> QED BY <1>1, <2>1, MintedStill DEF ghostVars
<1>8. \A ev \in 1 .. logged' : Traced(ev)'
  <2>1. \A v \in Writers : thread[v] = "running" => thread'[v] = "running"
    BY <1>1, <1>2
  <2> QED BY <1>1, <2>1 DEF StoreInv, Traced, At, EventAt, ghostVars
<1> QED BY <1>4, <1>5, <1>6, <1>7, <1>8 DEF StoreInv

\* The registry, while a thread takes an item that does not stop it.
LEMMA RegisteredTakes ==
  ASSUME TraceStoreSane, StoreInv, NEW w \in Writers, Takes(w), UNCHANGED registryVars,
         \/ thread' = thread
         \/ inbox[w][1] = Mark("stop") /\ thread' = [thread EXCEPT ![w] = "ended"]
  PROVE  Registered'
<1>1. reg' = reg /\ refs' = refs /\ hold' = hold /\ releasing' = releasing
  BY DEF registryVars
<1>2. /\ \A v \in Writers : thread'[v] \in {thread[v], "ended"}
      /\ \A v \in Writers : thread'[v] = thread[v] \/ (v = w /\ inbox[w][1] = Mark("stop"))
  BY TraceStoreFacts
<1>3. \A v \in Writers : \A i \in At(v)' : \E k \in At(v) : inbox'[v][i] = inbox[v][k]
  BY TakingKeeps
<1>4. ASSUME NEW v \in Writers, v = reg
      PROVE  /\ thread'[v] \notin {"none", "ended"}
             /\ \A i \in At(v)' : inbox'[v][i] # Mark("stop")
  <2>1. thread'[v] = thread[v]
    BY <1>2, <1>4, TraceStoreTaking DEF StoreInv, Registered
  <2> QED BY <1>3, <1>4, <2>1 DEF StoreInv, Registered
<1>5. \A r \in releasing : thread'[r.of] # "none"
  BY <1>2, TraceStoreFacts DEF StoreInv, Registered
<1>6. \A v \in Writers : thread'[v] = "none" => inbox'[v] = <<>>
  <2> SUFFICES ASSUME NEW v \in Writers, thread'[v] = "none" PROVE inbox'[v] = <<>>
    OBVIOUS
  <2>1. thread[v] = "none"
    BY <1>2
  <2>2. v # w
    BY <2>1, TraceStoreTaking
  <2> QED BY <2>1, <2>2, TraceStoreTaking DEF StoreInv, Registered
<1>7. Holding' = Holding
  BY <1>1 DEF Holding
<1> QED BY <1>1, <1>4, <1>5, <1>6, <1>7 DEF StoreInv, Registered

LEMMA TraceStoreAppliesInv ==
  ASSUME TraceStoreSane, StoreInv, NEW w \in Writers, Applies(w)
  PROVE  StoreInv'
<1> DEFINE h == inbox[w][1]
<1>1. /\ Takes(w) /\ Writable(w) /\ Head(inbox[w]) = h /\ h.kind = "event" /\ h \in TraceStoreItems
      /\ 1 \in At(w) /\ thread[w] = "running"
      /\ IF Taken(w, h)
           THEN clashed' = clashed \cup {h.ev} /\ txn' = txn
           ELSE clashed' = clashed /\ txn' = [txn EXCEPT ![w] = @ \cup {h}]
      /\ UNCHANGED <<registryVars, thread, counter, events, misses, logged, early, failed, landed>>
  BY TraceStoreTaking DEF Applies
<1>2. h \in Rows /\ h.ev \in Events
  BY <1>1, TraceStoreItemFacts
<1>3. txn \in [Writers -> SUBSET Rows]
  BY DEF StoreInv, Shapes
<1>4. /\ txn' \in [Writers -> SUBSET Rows]
      /\ \A v \in Writers \ {w} : txn'[v] = txn[v]
      /\ txn[w] \subseteq txn'[w]
      /\ \A v \in Writers : \A e \in txn'[v] : e \in txn[v] \/ (v = w /\ e = h)
  BY <1>1, <1>2, <1>3
<1>5. TypeOK'
  BY <1>1, <1>2 DEF StoreInv, TypeOK, registryVars
<1>6. Shapes'
  BY <1>1, <1>4, TraceStoreTaking DEF StoreInv, Shapes
<1>7. Registered'
  BY <1>1, RegisteredTakes
<1>8. Applied'
  BY <1>1, <1>4 DEF StoreInv, Applied
<1>9. Minted'
  BY <1>1, <1>4, MintedTakes DEF EventAt
<1>10. h.ev \notin early => ~Taken(w, h)
  <2> SUFFICES ASSUME h.ev \notin early, Taken(w, h) PROVE FALSE
    OBVIOUS
  <2>1. PICK e \in events \cup txn[w] : e.id = h.id
    BY DEF Taken, RowIds
  <2> QED BY <1>1, <2>1 DEF StoreInv, Minted, EventAt, Id
<1>11. ASSUME NEW ev \in 1 .. logged PROVE Traced(ev)'
  <2>1. h.ev = ev => Traced(ev)'
    <3>1. CASE Taken(w, h)
      BY <1>1, <1>10, <3>1 DEF Traced
    <3>2. CASE ~Taken(w, h)
      <4>1. h \in txn'[w]
        BY <1>1, <1>3, <3>2
      <4> QED BY <1>1, <4>1 DEF Traced
    <3> QED BY <3>1, <3>2
  <2>2. landed \subseteq landed' /\ failed \subseteq failed' /\ clashed \subseteq clashed' /\ early' = early
    BY <1>1
  <2> QED BY <1>1, <1>4, <2>1, <2>2, TracedTakes
<1> HIDE DEF h
<1> QED BY <1>1, <1>5, <1>6, <1>7, <1>8, <1>9, <1>11 DEF StoreInv

LEMMA TraceStoreApplyFailsInv ==
  ASSUME TraceStoreSane, StoreInv, NEW w \in Writers, ApplyFails(w)
  PROVE  StoreInv'
<1> DEFINE h == inbox[w][1]
<1>1. /\ Takes(w) /\ Head(inbox[w]) = h /\ h.kind = "event" /\ h \in TraceStoreItems /\ thread[w] = "running"
      /\ failed' = failed \cup Evs({h})
      /\ misses < MaxMishaps /\ misses' = misses + 1
      /\ UNCHANGED <<registryVars, thread, txn, counter, events, logged, early, clashed, landed>>
  BY TraceStoreTaking DEF ApplyFails, Miss
<1>2. h \in Rows /\ h.ev \in Events /\ Evs({h}) = {h.ev}
  BY <1>1, TraceStoreItemFacts DEF Evs
<1>3. misses' \in 0 .. MaxMishaps
  BY <1>1, TraceStoreFacts DEF StoreInv, TypeOK
<1>4. TypeOK'
  BY <1>1, <1>2, <1>3 DEF StoreInv, TypeOK, registryVars
<1>5. Shapes' /\ Applied'
  BY <1>1, TraceStoreTaking DEF StoreInv, Shapes, Applied
<1>6. Registered'
  BY <1>1, RegisteredTakes
<1>7. Minted'
  BY <1>1, MintedTakes
<1>8. ASSUME NEW ev \in 1 .. logged PROVE Traced(ev)'
  <2>1. h.ev = ev => Traced(ev)'
    BY <1>1, <1>2 DEF Traced
  <2>2. landed \subseteq landed' /\ failed \subseteq failed' /\ clashed \subseteq clashed' /\ early' = early
    BY <1>1
  <2> QED BY <1>1, <2>1, <2>2, TracedTakes
<1> HIDE DEF h
<1> QED BY <1>1, <1>4, <1>5, <1>6, <1>7, <1>8 DEF StoreInv

\* What a commit does to the rows.
LEMMA Committing ==
  ASSUME TraceStoreSane, StoreInv, NEW w \in Writers, CommitsTxn(w)
  PROVE  /\ txn' \in [Writers -> SUBSET Rows] /\ events' \subseteq Rows
         /\ \A v \in Writers \ {w} : txn'[v] = txn[v]
         /\ txn'[w] = {}
         /\ events' \subseteq events \cup txn[w]
         /\ landed \subseteq landed' /\ landed' \subseteq Events
         /\ \A e \in txn[w] : e.ev \in landed'
<1>1. txn \in [Writers -> SUBSET Rows] /\ events \subseteq Rows
  BY DEF StoreInv, Shapes
<1>2. Evs(txn[w]) \subseteq Events /\ \A e \in txn[w] : e.ev \in Evs(txn[w])
  BY <1>1 DEF Evs, Rows
<1>3. /\ landed' = landed \cup Evs(txn[w]) /\ txn' = [txn EXCEPT ![w] = {}]
      /\ events' \subseteq events \cup txn[w]
  BY DEF CommitsTxn
<1>4. landed \subseteq Events
  BY DEF StoreInv, TypeOK
<1> QED BY <1>1, <1>2, <1>3, <1>4

LEMMA TraceStoreCommitsInv ==
  ASSUME TraceStoreSane, StoreInv, NEW w \in Writers, Commits(w)
  PROVE  StoreInv'
<1>1. /\ thread[w] = "running" /\ CommitsTxn(w)
      /\ UNCHANGED <<registryVars, thread, inbox, counter, misses, logged, early, clashed, failed>>
  BY DEF Commits
<1>2. /\ txn' \in [Writers -> SUBSET Rows] /\ events' \subseteq Rows
      /\ \A v \in Writers \ {w} : txn'[v] = txn[v]
      /\ txn'[w] = {}
      /\ events' \subseteq events \cup txn[w]
      /\ landed \subseteq landed' /\ landed' \subseteq Events
      /\ \A e \in txn[w] : e.ev \in landed'
  BY <1>1, Committing
<1>3. TypeOK'
  BY <1>1, <1>2 DEF StoreInv, TypeOK, registryVars
<1>4. Shapes' /\ Applied'
  BY <1>1, <1>2 DEF StoreInv, Shapes, Applied
<1>5. Registered'
  BY <1>1 DEF StoreInv, Registered, Holding, At, registryVars
<1>6. Minted'
  <2>1. Raised /\ \A v \in Writers : txn'[v] \subseteq txn[v]
    BY <1>1, <1>2 DEF Raised
  <2>2. \A v \in Writers : At(v)' = At(v)
                           /\ \A i \in At(v) : /\ EventAt(v, i)' <=> EventAt(v, i)
                                               /\ Id(v, i)' = Id(v, i)
    BY <1>1 DEF At, EventAt, Id
  <2>3. \A e \in events' : e.id <= counter
    BY <1>2, <2>1 DEF StoreInv, Minted
  <2>4. \A v \in Writers : \A i \in At(v) : EventAt(v, i) /\ inbox[v][i].ev \notin early =>
          /\ \A e \in events' : e.id # Id(v, i)
          /\ \A u \in Writers : \A e \in txn'[u] : e.id # Id(v, i)
    BY <1>2, <2>1 DEF StoreInv, Minted
  <2>5. counter' = counter /\ early' = early /\ inbox' = inbox
    BY <1>1
  <2> QED BY <2>1, <2>2, <2>3, <2>4, <2>5 DEF StoreInv, Minted
<1>7. ASSUME NEW ev \in 1 .. logged PROVE Traced(ev)'
  <2>1. Traced(ev)
    BY DEF StoreInv
  <2>2. CASE \E v \in Writers : thread[v] = "running" /\ \E e \in txn[v] : e.ev = ev
    <3>1. PICK v \in Writers : thread[v] = "running" /\ \E e \in txn[v] : e.ev = ev
      BY <2>2
    <3> QED BY <1>1, <1>2, <3>1 DEF Traced
  <2>3. CASE ~ \E v \in Writers : thread[v] = "running" /\ \E e \in txn[v] : e.ev = ev
    BY <1>1, <1>2, <2>1, <2>3 DEF Traced, At, EventAt
  <2> QED BY <2>2, <2>3
<1> QED BY <1>1, <1>3, <1>4, <1>5, <1>6, <1>7 DEF StoreInv

LEMMA FinishesInv == ASSUME TraceStoreSane, StoreInv, NEW w \in Writers, Finishes(w) PROVE StoreInv'
<1> DEFINE h == inbox[w][1]
<1>1. /\ Takes(w) /\ Head(inbox[w]) = h /\ h.kind \in {"flush", "stop"} /\ h \in TraceStoreItems
      /\ thread[w] = "running" /\ inbox' \in [Writers -> Seq(TraceStoreItems)]
      /\ IF txn[w] = {} THEN UNCHANGED <<txn, events, landed>> ELSE CommitsTxn(w)
      /\ thread' = IF h.kind = "stop" THEN [thread EXCEPT ![w] = "ended"] ELSE thread
      /\ UNCHANGED <<registryVars, counter, misses, logged, early, clashed, failed>>
  BY TraceStoreTaking DEF Finishes
<1>2. (h.kind = "stop" => h = Mark("stop")) /\ ~EventAt(w, 1)
  BY <1>1, TraceStoreItemFacts DEF EventAt
<1>3. /\ txn' \in [Writers -> SUBSET Rows] /\ events' \subseteq Rows
      /\ \A v \in Writers \ {w} : txn'[v] = txn[v]
      /\ txn'[w] = {}
      /\ events' \subseteq events \cup txn[w]
      /\ landed \subseteq landed' /\ landed' \subseteq Events
      /\ \A e \in txn[w] : e.ev \in landed'
  <2>1. CASE txn[w] = {}
    BY <1>1, <2>1 DEF StoreInv, Shapes, TypeOK
  <2>2. CASE txn[w] # {}
    BY <1>1, <2>2, Committing
  <2> QED BY <2>1, <2>2
<1>4. /\ thread' \in [Writers -> {"none", "opening", "running", "failed", "ended"}]
      /\ \A v \in Writers \ {w} : thread'[v] = thread[v]
  BY <1>1, TraceStoreFacts
<1>5. TypeOK'
  BY <1>1, <1>3, <1>4 DEF StoreInv, TypeOK, registryVars
<1>6. Shapes' /\ Applied'
  BY <1>1, <1>3, <1>4 DEF StoreInv, Shapes, Applied
<1>7. Registered'
  BY <1>1, <1>2, RegisteredTakes
<1>8. Minted'
  <2>1. \A e \in events' : e \in events \/ \E v \in Writers : e \in txn[v]
    BY <1>3
  <2>2. \A v \in Writers : \A e \in txn'[v] : e \in txn[v]
    BY <1>3
  <2> QED BY <1>1, <2>1, <2>2, MintedTakes
<1>9. ASSUME NEW ev \in 1 .. logged PROVE Traced(ev)'
  <2>1. \A v \in Writers : thread'[v] = "running" \/ v = w \/ thread[v] # "running"
    BY <1>4
  <2>2. \A v \in Writers \ {w} : txn[v] \subseteq txn'[v]
    BY <1>3
  <2>3. (\E e \in txn[w] : e.ev = ev) => ev \in landed'
    BY <1>3
  <2> QED BY <1>1, <1>2, <1>3, <2>1, <2>2, <2>3, TracedTakes
<1> HIDE DEF h
<1> QED BY <1>1, <1>5, <1>6, <1>7, <1>8, <1>9 DEF StoreInv

LEMMA TraceStoreRestartsInv == ASSUME TraceStoreSane, StoreInv, Restarts PROVE StoreInv'
<1>1. /\ reg' = 0 /\ refs' = 0 /\ hold' = [h \in Holders |-> 0] /\ releasing' = {}
      /\ thread' = [w \in Writers |-> "none"]
      /\ inbox' = [w \in Writers |-> <<>>] /\ txn' = [w \in Writers |-> {}]
      /\ counter' = 0
      /\ failed' = failed \cup UNION {Evs(Queued(w) \cup txn[w]) : w \in Writers}
      /\ UNCHANGED <<events, logged, early, clashed, landed>>
      /\ misses < MaxMishaps /\ misses' = misses + 1
  BY DEF Restarts, Miss
<1>2. \A w \in Writers : inbox'[w] = <<>> /\ txn'[w] = {} /\ thread'[w] = "none" /\ At(w)' = {}
  BY <1>1 DEF At
<1>3. ASSUME NEW w \in Writers
      PROVE  /\ Evs(Queued(w) \cup txn[w]) \subseteq Events
             /\ \A i \in At(w) : EventAt(w, i) => inbox[w][i].ev \in Evs(Queued(w) \cup txn[w])
             /\ \A e \in txn[w] : e.ev \in Evs(Queued(w) \cup txn[w])
  <2>1. Queued(w) \subseteq TraceStoreItems /\ \A i \in At(w) : inbox[w][i] \in Queued(w)
    BY TraceStoreFacts DEF Queued, At
  <2>2. txn[w] \subseteq Rows /\ \A e \in txn[w] : e.kind = "event"
    BY DEF StoreInv, Shapes, Rows
  <2>3. ASSUME NEW i \in Queued(w) \cup txn[w], i.kind = "event" PROVE i.ev \in Events
    <3>1. i \in TraceStoreItems
      BY <2>1, <2>2 DEF TraceStoreItems
    <3> QED BY <2>3, <3>1, TraceStoreItemFacts
  <2> QED BY <2>1, <2>2, <2>3 DEF Evs, EventAt
<1>4. TypeOK'
  <2>1. misses' \in 0 .. MaxMishaps
    BY <1>1, TraceStoreFacts DEF StoreInv, TypeOK
  <2>2. failed' \subseteq Events
    BY <1>1, <1>3 DEF StoreInv, TypeOK
  <2> QED BY <1>1, <2>1, <2>2 DEF StoreInv, TypeOK
<1>5. Shapes'
  <2>0. <<>> \in Seq(TraceStoreItems)
    OBVIOUS
  <2>1. \A w \in Writers : inbox'[w] \in Seq(TraceStoreItems)
    <3> TAKE w \in Writers
    <3>1. inbox'[w] = <<>>
      BY <1>2
    <3> QED BY <2>0, <3>1, Zenon
  <2> QED BY <1>1, <2>1 DEF StoreInv, Shapes
<1>6. Registered'
  <2>1. Holding' = {} /\ 0 \notin Writers
    BY <1>1, TraceStoreFacts DEF Holding
  <2> QED BY <1>1, <1>2, <2>1, FS_EmptySet DEF Registered
<1>7. Applied'
  BY <1>2 DEF Applied
<1>8. Minted'
  <2>1. ~Raised'
    BY <1>2 DEF Raised
  <2> QED BY <1>2, <2>1 DEF Minted
<1>9. ASSUME NEW ev \in 1 .. logged PROVE Traced(ev)'
  <2>1. Traced(ev)
    BY DEF StoreInv
  <2>2. (\E w \in Writers : ev \in Evs(Queued(w) \cup txn[w])) => ev \in failed'
    BY <1>1
  <2>3. ev \in landed' \cup failed' \/ ev \in clashed' \cap early'
    BY <1>1, <1>3, <2>1, <2>2 DEF Traced
  <2> QED BY <2>3 DEF Traced
<1> QED BY <1>1, <1>4, <1>5, <1>6, <1>7, <1>8, <1>9 DEF StoreInv

LEMMA TraceStoreInitInv == ASSUME TraceStoreSane, Init PROVE StoreInv
<1>1. \A w \in Writers : inbox[w] = <<>> /\ txn[w] = {} /\ thread[w] = "none" /\ At(w) = {}
  BY DEF Init, At
<1>2. TypeOK
  <2>1. 0 \in 0 .. MaxMishaps /\ 0 \in 0 .. MaxEvents
    BY DEF TraceStoreSane
  <2> QED BY <2>1 DEF Init, TypeOK
<1>3. Shapes
  <2>0. <<>> \in Seq(TraceStoreItems)
    OBVIOUS
  <2>1. \A w \in Writers : inbox[w] \in Seq(TraceStoreItems)
    <3> TAKE w \in Writers
    <3>1. inbox[w] = <<>>
      BY <1>1
    <3> QED BY <2>0, <3>1, Zenon
  <2> QED BY <2>1 DEF Init, Shapes
<1>4. Registered
  <2>1. Holding = {} /\ 0 \notin Writers /\ reg = 0 /\ refs = 0 /\ releasing = {}
        /\ \A h \in Holders : hold[h] = 0
    BY DEF Init, Holding, Writers, TraceStoreSane
  <2> QED BY <1>1, <2>1, FS_EmptySet DEF Registered
<1>5. Applied
  BY <1>1 DEF Applied
<1>6. Minted
  <2>1. ~Raised
    BY <1>1 DEF Raised
  <2> QED BY <1>1, <2>1 DEF Minted
<1>7. 1 .. logged = {}
  BY DEF Init
<1> QED BY <1>2, <1>3, <1>4, <1>5, <1>6, <1>7 DEF StoreInv

\* Each step keeps the invariant.
LEMMA TraceStoreStepInv == ASSUME TraceStoreSane, StoreInv, [Next]_vars PROVE StoreInv'
<1>1. CASE UNCHANGED vars
  <2>1. /\ UNCHANGED <<reg, refs, hold, releasing, thread, inbox, txn, counter, events, misses>>
        /\ UNCHANGED <<logged, early, clashed, failed, landed>>
    BY <1>1 DEF vars, registryVars, ghostVars
  <2>2. TypeOK' /\ Shapes' /\ Registered' /\ Applied'
    BY <2>1 DEF StoreInv, TypeOK, Shapes, Registered, Holding, Applied, At
  <2>3. Minted'
    BY <2>1, MintedStill DEF Raised
  <2>4. \A ev \in 1 .. logged' : Traced(ev)'
    BY <2>1 DEF StoreInv, Traced, At, EventAt
  <2> QED BY <2>2, <2>3, <2>4 DEF StoreInv
<1> QED BY <1>1, AcquiresInv, ReleasesInv, ReleaseGoesOnInv, LogsInv, StartsInv, StartFailsInv,
           TraceStoreAppliesInv, TraceStoreApplyFailsInv, TraceStoreCommitsInv, FinishesInv,
           TraceStoreRestartsInv
    DEF Next

LEMMA InvHeldRuns == ASSUME TraceStoreSane, StoreInv PROVE HeldRuns
<1> SUFFICES ASSUME NEW h \in Holders, hold[h] # 0
             PROVE  /\ hold[h] = reg /\ thread[reg] # "ended" /\ Mark("stop") \notin Queued(reg)
                    /\ \A r \in releasing : r.of # reg
  BY DEF HeldRuns
<1>1. hold[h] = reg /\ reg \in Writers
  BY TraceStoreFacts DEF StoreInv, Registered
<1> QED BY <1>1 DEF StoreInv, Registered, Queued, At

LEMMA InvAccounted == ASSUME TraceStoreSane, StoreInv PROVE Accounted
<1> SUFFICES ASSUME NEW ev \in 1 .. logged
             PROVE  \/ ev \in landed \cup failed
                    \/ ev \in clashed \cap early
                    \/ \E w \in Writers : ev \in Evs(Queued(w))
                    \/ \E w \in Writers : thread[w] = "running" /\ ev \in Evs(txn[w])
  BY DEF Accounted
<1>1. Traced(ev)
  BY DEF StoreInv
<1>2. ASSUME NEW w \in Writers, NEW i \in At(w), EventAt(w, i), inbox[w][i].ev = ev
      PROVE  ev \in Evs(Queued(w))
  BY <1>2 DEF Evs, Queued, At, EventAt
<1>3. ASSUME NEW w \in Writers, NEW e \in txn[w], e.ev = ev PROVE ev \in Evs(txn[w])
  <2>1. e.kind = "event"
    BY DEF StoreInv, Shapes, Rows
  <2> QED BY <1>3, <2>1 DEF Evs
<1> QED BY <1>1, <1>2, <1>3 DEF Traced

\* A writer that is held is not stopped, and no line of the human log is lost
\* but to an error, a restart or an id that was taken.
THEOREM KeptWell == TraceStoreSane => (Spec => [](HeldRuns /\ Accounted))
<1> SUFFICES ASSUME TraceStoreSane PROVE Spec => [](HeldRuns /\ Accounted)
  OBVIOUS
<1>1. Init => StoreInv
  BY TraceStoreInitInv
<1>2. StoreInv /\ [Next]_vars => StoreInv'
  BY TraceStoreStepInv
<1>3. StoreInv => HeldRuns /\ Accounted
  BY InvHeldRuns, InvAccounted
<1> QED BY <1>1, <1>2, <1>3, PTL DEF Spec

-----------------------------------------------------------------------------
(* The recorder of turns.                                                  *)

\* The bounds are numbers.
TurnsSane == MaxEntries \in Nat /\ MaxQueue \in Nat /\ MaxRoots \in Nat /\ MaxMishaps \in Nat

Places == 1 .. Len(queue)

\* The item at place i is about the root r itself.
About(i, r) == queue[i].of = r /\ queue[i].status # "child"
Tells(i, r) == queue[i].of = r /\ queue[i].status \in T!Verdicts

\* A turn that is open has no verdict, and one that is being closed is being
\* closed once.
Untold ==
  /\ \A r \in ledger, c \in closing : c.of # r
  /\ \A c, d \in closing : c.of = d.of => c = d
  /\ \A r \in ledger : rows[r] \notin T!Verdicts /\ \A i \in Places : ~Tells(i, r)
  /\ \A c \in closing : rows[c.of] \notin T!Verdicts /\ \A i \in Places : ~Tells(i, c.of)

\* Behind a verdict there is nothing more about its root.
LastWord ==
  /\ \A r \in T!Opened : \A i, j \in Places : i < j /\ Tells(i, r) => ~About(j, r)
  /\ \A r \in T!Opened : rows[r] \in T!Verdicts => \A i \in Places : ~About(i, r)
  /\ \A r \in T!Opened : saved[r] \in T!Verdicts => rows[r] = saved[r]

\* A session has one open turn, and none while its next one is opened.
OnePerSession ==
  /\ \A r, s \in ledger : SessionOf[turnOf[r]] = SessionOf[turnOf[s]] => r = s
  /\ \A t \in opening, r \in ledger : SessionOf[turnOf[r]] # SessionOf[t]
  /\ opening # {} => Len(turnOf) < MaxRoots

\* A root has its row before its children have theirs.
Rooted(r) == rows[r] # "none" \/ r \in excused
Found ==
  /\ \A r \in T!Opened : Rooted(r) \/ \E i \in Places : About(i, r)
  /\ \A r \in T!Opened, i \in Places :
       queue[i] = T!Child(r) => Rooted(r) \/ \E j \in Places : j < i /\ About(j, r)
  /\ \A r \in kids \ {0} : Rooted(r)

\* Of a root to come nothing is known.
ToCome == \A r \in T!Roots \ T!Opened : rows[r] = "none" /\ saved[r] = "none"

TurnsInv ==
  /\ T!TypeOK /\ Untold /\ LastWord /\ OnePerSession /\ Found /\ ToCome
  /\ T!Fated /\ T!Discoverable

\* What the queue may hold.
TurnsItems == [of : T!Opened, status : T!Verdicts \cup {"open"}]
           \cup [of : T!Opened \cup {0}, status : {"child"}]

-----------------------------------------------------------------------------

LEMMA TurnsFacts ==
  ASSUME TurnsSane, T!TypeOK
  PROVE  /\ queue \in Seq(TurnsItems) /\ Len(queue) \in Nat
         /\ \A i \in Places : queue[i] \in TurnsItems
         /\ Len(turnOf) \in 0 .. MaxRoots /\ turnOf \in Seq(Turns)
         /\ T!Opened \subseteq T!Roots /\ 0 \notin T!Opened
<1>1. queue \in Seq(TurnsItems)
  BY DEF T!TypeOK, TurnsItems
<1>2. Len(queue) \in Nat /\ \A i \in Places : queue[i] \in TurnsItems
  BY <1>1 DEF Places
<1>3. turnOf \in Seq(Turns) /\ Len(turnOf) <= MaxRoots /\ MaxRoots \in Nat
  BY DEF T!TypeOK, TurnsSane
<1>4. Len(turnOf) \in 0 .. MaxRoots
  BY <1>3
<1> QED BY <1>1, <1>2, <1>3, <1>4 DEF T!Opened, T!Roots

\* An item's fields.
LEMMA TurnsItemFacts ==
  ASSUME NEW item \in TurnsItems
  PROVE  /\ item.of \in T!Opened \cup {0} /\ (item.status # "child" => item.of \in T!Opened)
         /\ item.status \in T!Verdicts \cup {"open", "child"}
         /\ item.status = "child" => item = T!Child(item.of)
BY DEF TurnsItems, T!Child, T!Verdicts

\* A submission puts its item at the end, or drops it.
LEMMA TurnsSubmission ==
  ASSUME MaxQueue \in Nat, NEW S, queue \in Seq(S), NEW item \in S, queue' = T!Submitted(item)
  PROVE  /\ queue' \in Seq(S)
         /\ \/ /\ Len(queue') = Len(queue) + 1
               /\ \A i \in Places : queue'[i] = queue[i]
               /\ queue'[Len(queue) + 1] = item
            \/ T!Refused(item) = {item.of} /\ queue' = queue
<1>1. CASE Len(queue) < MaxQueue
  BY <1>1 DEF T!Submitted, Places
<1>2. CASE ~(Len(queue) < MaxQueue)
  BY <1>2 DEF T!Submitted, T!Refused
<1> QED BY <1>1, <1>2

LEMMA SeqGrows ==
  ASSUME NEW S, NEW Z, S \subseteq Z, NEW q \in Seq(S)
  PROVE  q \in Seq(Z)
<1>1. Len(q) \in Nat /\ q \in [1 .. Len(q) -> S]
  OBVIOUS
<1>2. q \in [1 .. Len(q) -> Z]
  BY <1>1
<1> QED BY <1>1, <1>2, SeqDef

-----------------------------------------------------------------------------

\* What the invariant says of the store goes on when an item is submitted that
\* is a child's, or a root's that has no verdict yet.
LEMMA Submits ==
  ASSUME TurnsSane, TurnsInv, NEW item \in TurnsItems', queue' = T!Submitted(item), T!Refused(item) \subseteq excused',
         UNCHANGED T!writerVars, excused \subseteq excused',
         T!Opened \subseteq T!Opened', T!Opened' \subseteq T!Roots,
         item.status = "child" => item.of \in T!Opened \cup {0},
         item.status # "child" =>
           rows[item.of] \notin T!Verdicts /\ \A i \in Places : ~Tells(i, item.of),
         \A r \in T!Opened' \ T!Opened : item.status # "child" /\ item.of = r
  PROVE  /\ queue' \in Seq(TurnsItems')
         /\ LastWord' /\ Found' /\ ToCome' /\ T!Discoverable'
         /\ \A r : (\E i \in Places : Tells(i, r)) => (\E i \in Places' : Tells(i, r)')
         /\ \A r : (\E i \in Places' : Tells(i, r)') =>
              \/ \E i \in Places : Tells(i, r)
              \/ item.of = r /\ item.status \in T!Verdicts
         /\ (\E i \in Places' : queue'[i] = item) \/ item.of \in excused'
<1> DEFINE n == Len(queue)
<1>1. queue \in Seq(TurnsItems) /\ n \in Nat /\ Places = 1 .. n /\ (\A i \in Places : queue[i] \in TurnsItems)
      /\ T!Opened \subseteq T!Roots /\ 0 \notin T!Opened
  BY TurnsFacts DEF TurnsInv, Places
<1>2. TurnsItems \subseteq TurnsItems'
  BY DEF TurnsItems
<1>3. queue \in Seq(TurnsItems')
  BY <1>1, <1>2, SeqGrows
<1>4. /\ queue' \in Seq(TurnsItems')
      /\ \/ /\ Len(queue') = n + 1
            /\ \A i \in Places : queue'[i] = queue[i]
            /\ queue'[n + 1] = item
         \/ item.of \in excused' /\ queue' = queue
  BY <1>3, TurnsSubmission DEF TurnsSane
<1>5. rows' = rows /\ kids' = kids /\ saved' = saved /\ savedKids' = savedKids
  BY DEF T!writerVars
<1>6. item.status \in T!Verdicts \cup {"open", "child"}
  BY TurnsItemFacts DEF TurnsItems, T!Verdicts
<1> HIDE DEF n
\* Each place is an old one or the new one.
<1>7. Places' = 1 .. Len(queue') /\ Places \subseteq Places'
  BY <1>1, <1>4 DEF Places
<1>8. ASSUME NEW i \in Places'
      PROVE  \/ i \in Places /\ queue'[i] = queue[i]
             \/ i = n + 1 /\ queue'[i] = item /\ i \notin Places
  <2>1. CASE queue' = queue
    BY <1>7, <1>8, <2>1 DEF Places
  <2>2. CASE /\ Len(queue') = n + 1
             /\ \A k \in Places : queue'[k] = queue[k]
             /\ queue'[n + 1] = item
    <3>1. i \in 1 .. n + 1 /\ n \in Nat /\ Places = 1 .. n
      BY <1>1, <1>7, <1>8, <2>2
    <3>2. i \in 1 .. n \/ (i = n + 1 /\ i \notin 1 .. n)
      BY <3>1
    <3> QED BY <2>2, <3>1, <3>2
  <2> QED BY <1>4, <2>1, <2>2
<1>9. \A i \in Places : \A r :
        (Tells(i, r)' <=> Tells(i, r)) /\ (About(i, r)' <=> About(i, r))
  BY <1>4 DEF Tells, About
<1>10. /\ \A r : (\E i \in Places : Tells(i, r)) => (\E i \in Places' : Tells(i, r)')
       /\ \A r : (\E i \in Places' : Tells(i, r)') =>
              \/ \E i \in Places : Tells(i, r)
              \/ item.of = r /\ item.status \in T!Verdicts
  BY <1>7, <1>8, <1>9 DEF Tells
<1>11. (\E i \in Places' : queue'[i] = item) \/ item.of \in excused'
  BY <1>1, <1>4, <1>7
<1>12. LastWord'
  <2>1. ASSUME NEW r \in T!Opened', NEW i \in Places', NEW j \in Places', i < j, Tells(i, r)'
        PROVE  ~About(j, r)'
    <3>1. CASE i \in Places /\ j \in Places
      <4>1. Tells(i, r)
        BY <1>9, <2>1, <3>1
      <4>3. queue[i] \in TurnsItems /\ queue[i].status # "child" /\ queue[i].of = r
        BY <1>1, <3>1, <4>1 DEF Tells, T!Verdicts
      <4>2. r \in T!Opened
        BY <4>3, TurnsItemFacts
      <4> QED BY <1>9, <2>1, <3>1, <4>1, <4>2 DEF TurnsInv, LastWord
    <3>2. CASE i \in Places /\ j \notin Places
      <4>1. Tells(i, r) /\ queue'[j] = item
        BY <1>8, <1>9, <2>1, <3>2
      <4>2. item.status # "child" => item.of # r
        BY <3>2, <4>1
      <4> QED BY <4>1, <4>2 DEF About
    <3>3. CASE i \notin Places
      BY <1>1, <1>4, <1>7, <1>8, <2>1, <3>3
    <3> QED BY <3>1, <3>2, <3>3
  <2>2. ASSUME NEW r \in T!Opened', rows[r] \in T!Verdicts, NEW i \in Places' PROVE ~About(i, r)'
    <3>1. CASE i \in Places
      <4>1. r \in T!Opened
        BY <2>2 DEF TurnsInv, ToCome, T!Verdicts
      <4> QED BY <1>9, <2>2, <3>1, <4>1 DEF TurnsInv, LastWord
    <3>2. CASE i \notin Places
      BY <1>8, <2>2, <3>2 DEF About
    <3> QED BY <3>1, <3>2
  <2>3. ASSUME NEW r \in T!Opened', saved[r] \in T!Verdicts PROVE rows[r] = saved[r]
    <3>1. r \in T!Opened
      BY <2>3 DEF TurnsInv, ToCome, T!Verdicts
    <3> QED BY <2>3, <3>1 DEF TurnsInv, LastWord
  <2> QED BY <1>5, <2>1, <2>2, <2>3 DEF LastWord
<1>13. \A r : Rooted(r) => Rooted(r)'
  BY <1>5 DEF Rooted
<1>14. Found'
  <2>1. ASSUME NEW r \in T!Opened' PROVE Rooted(r)' \/ \E i \in Places' : About(i, r)'
    <3>1. CASE r \in T!Opened
      BY <1>7, <1>9, <1>13, <3>1 DEF TurnsInv, Found
    <3>2. CASE r \notin T!Opened
      <4>1. item.status # "child" /\ item.of = r
        BY <2>1, <3>2
      <4> QED BY <1>11, <4>1 DEF About, Rooted
    <3> QED BY <3>1, <3>2
  <2>2. ASSUME NEW r \in T!Opened', NEW i \in Places', queue'[i] = T!Child(r)
        PROVE  Rooted(r)' \/ \E j \in Places' : j < i /\ About(j, r)'
    <3>0. T!Child(r).of = r /\ T!Child(r).status = "child"
      BY DEF T!Child
    <3>1. CASE i \in Places
      <4>1. queue[i] = T!Child(r) /\ r \in T!Opened
        <5>1. queue[i] = T!Child(r) /\ queue[i] \in TurnsItems
          BY <1>1, <1>8, <2>2, <3>1
        <5>2. r \in T!Opened \cup {0}
          BY <3>0, <5>1, TurnsItemFacts
        <5> QED BY <2>2, <5>1, <5>2 DEF T!Roots
      <4> QED BY <1>7, <1>9, <1>13, <3>1, <4>1 DEF TurnsInv, Found
    <3>2. CASE i \notin Places
      <4>1. i = n + 1 /\ item = T!Child(r)
        BY <1>8, <2>2, <3>2
      <4>2. r \in T!Opened
        BY <2>2, <3>0, <4>1 DEF T!Roots
      <4>3. Rooted(r) \/ \E j \in Places : About(j, r)
        BY <4>2 DEF TurnsInv, Found
      <4>4. \A j \in Places : j < i /\ j \in Places'
        BY <1>1, <1>7, <4>1
      <4> QED BY <1>9, <1>13, <4>3, <4>4
    <3> QED BY <3>1, <3>2
  <2>3. \A r \in kids' \ {0} : Rooted(r)'
    BY <1>5, <1>13 DEF TurnsInv, Found
  <2> QED BY <2>1, <2>2, <2>3 DEF Found
<1>15. ToCome' /\ T!Discoverable'
  BY <1>5 DEF TurnsInv, ToCome, T!Discoverable, T!Roots
<1> QED BY <1>4, <1>10, <1>11, <1>12, <1>14, <1>15

\* Nothing is submitted, and the writer stands still.
LEMMA Quiet ==
  ASSUME TurnsInv, UNCHANGED <<turnOf, queue, T!writerVars>>, excused \subseteq excused'
  PROVE  LastWord' /\ Found' /\ ToCome' /\ T!Discoverable'
BY DEF TurnsInv, LastWord, Found, Rooted, ToCome, T!Discoverable, Tells, About, Places, T!Opened,
       T!writerVars

LEMMA EntersInv == ASSUME TurnsSane, TurnsInv, NEW t \in Turns, T!Enters(t) PROVE TurnsInv'
<1>1. /\ opening = {} /\ Len(turnOf) < MaxRoots /\ opening' = {t} /\ ledger' = ledger \ T!Stale(t)
      /\ turnOf' = turnOf /\ closing' = closing /\ calls' = calls /\ mishaps' = mishaps
      /\ UNCHANGED T!writerVars
  BY DEF T!Enters, T!LockFree, T!Without
<1>2. T!Opened' = T!Opened /\ TurnsItems' = TurnsItems
  BY <1>1 DEF T!Opened, TurnsItems
<1>3. OnePerSession'
  BY <1>1 DEF TurnsInv, OnePerSession, T!Stale
<1>4. rows' = rows /\ T!Opened \subseteq T!Roots
  BY <1>1, TurnsFacts DEF T!writerVars, TurnsInv
<1>5. CASE T!Stale(t) = {} /\ queue' = queue /\ excused' = excused
  <2>1. LastWord' /\ Found' /\ ToCome' /\ T!Discoverable'
    BY <1>1, <1>5, Quiet
  <2>2. T!TypeOK'
    BY <1>1, <1>5 DEF TurnsInv, T!TypeOK, T!Opened, T!writerVars
  <2>3. Untold' /\ T!Fated'
    BY <1>1, <1>4, <1>5 DEF TurnsInv, Untold, T!Fated, Tells, Places, T!Opened
  <2> QED BY <1>3, <2>1, <2>2, <2>3 DEF TurnsInv
<1>6. ASSUME NEW r \in T!Stale(t), queue' = T!Submitted(T!Root(r, "abandoned")),
             excused' = excused \cup T!Refused(T!Root(r, "abandoned"))
      PROVE  TurnsInv'
  <2> DEFINE item == T!Root(r, "abandoned")
  <2>1. /\ r \in ledger /\ r \in T!Opened /\ item \in TurnsItems' /\ item.of = r /\ item.status = "abandoned"
        /\ rows[r] \notin T!Verdicts /\ \A i \in Places : ~Tells(i, r)
    <3>1. r \in ledger /\ r \in T!Opened
      BY DEF T!Stale, TurnsInv, T!TypeOK
    <3>2. item \in TurnsItems'
      BY <1>2, <3>1 DEF T!Root, TurnsItems, T!Verdicts
    <3> QED BY <3>1, <3>2 DEF T!Root, TurnsInv, Untold
  <2>2. queue' = T!Submitted(item) /\ excused' = excused \cup T!Refused(item)
    BY <1>6
  <2> HIDE DEF item
  <2>3. /\ queue' \in Seq(TurnsItems')
        /\ LastWord' /\ Found' /\ ToCome' /\ T!Discoverable'
        /\ \A x : (\E i \in Places : Tells(i, x)) => (\E i \in Places' : Tells(i, x)')
        /\ \A x : (\E i \in Places' : Tells(i, x)') =>
              (\E i \in Places : Tells(i, x)) \/ (item.of = x /\ item.status \in T!Verdicts)
        /\ (\E i \in Places' : queue'[i] = item) \/ item.of \in excused'
    BY <1>1, <1>2, <1>4, <2>1, <2>2, Submits
  <2>4. excused' \subseteq T!Opened' \cup {0}
    BY <1>2, <2>1, <2>2 DEF T!Refused, TurnsInv, T!TypeOK
  <2>5. T!TypeOK'
    BY <1>1, <1>2, <2>3, <2>4 DEF TurnsInv, T!TypeOK, TurnsItems, T!writerVars
  <2>6. Untold'
    BY <1>1, <1>4, <2>1, <2>3 DEF TurnsInv, Untold
  <2>7. T!Fated'
    <3> SUFFICES ASSUME NEW x \in T!Opened
                 PROVE  \/ x \in ledger' \/ \E c \in closing : c.of = x
                        \/ \E i \in Places' : Tells(i, x)'
                        \/ rows[x] \in T!Verdicts \/ x \in excused'
      BY <1>1, <1>2, <1>4 DEF T!Fated, Tells, Places
    <3>1. x \in T!Stale(t) => x = r
      BY DEF T!Stale, TurnsInv, OnePerSession
    <3>2. (\E i \in Places' : Tells(i, r)') \/ r \in excused'
      BY <2>1, <2>3 DEF Tells, T!Verdicts
    <3>3. \/ x \in ledger \/ (\E c \in closing : c.of = x) \/ (\E i \in Places : Tells(i, x))
          \/ rows[x] \in T!Verdicts \/ x \in excused
      BY DEF TurnsInv, T!Fated, Tells, Places
    <3> QED BY <1>1, <2>2, <2>3, <3>1, <3>2, <3>3
  <2> QED BY <1>3, <2>3, <2>5, <2>6, <2>7 DEF TurnsInv
<1> QED BY <1>5, <1>6 DEF T!Enters

LEMMA OpensInv == ASSUME TurnsSane, TurnsInv, NEW t \in Turns, T!Opens(t) PROVE TurnsInv'
<1> DEFINE r == Len(turnOf) + 1
           item == T!Root(r, "open")
<1>1. /\ opening = {t} /\ opening' = {} /\ turnOf' = Append(turnOf, t) /\ queue' = T!Submitted(item)
      /\ closing' = closing /\ calls' = calls /\ mishaps' = mishaps /\ UNCHANGED T!writerVars
  BY DEF T!Opens
<1>2. PICK oldest \in 1 .. r :
        /\ ledger' = T!Survivors(ledger \cup {r}, oldest)
        /\ excused' = excused \cup T!Refused(item) \cup ((ledger \cup {r}) \ ledger')
  BY DEF T!Opens
<1>3. /\ turnOf \in Seq(Turns) /\ Len(turnOf) \in Nat /\ Len(turnOf) < MaxRoots /\ MaxRoots \in Nat
      /\ T!Opened \subseteq T!Roots /\ ledger \subseteq T!Opened /\ 0 \notin T!Opened
      /\ excused \subseteq T!Opened \cup {0} /\ closing \subseteq [of : T!Opened, step : {"child", "root"}]
  BY <1>1, TurnsFacts DEF TurnsInv, OnePerSession, T!TypeOK, TurnsSane
<1>4. turnOf' \in Seq(Turns) /\ Len(turnOf') = r /\ \A x \in T!Opened : turnOf'[x] = turnOf[x]
  BY <1>1, <1>3 DEF T!Opened
<1>5. T!Opened' = T!Opened \cup {r} /\ r \notin T!Opened /\ r \in T!Roots /\ r # 0 /\ r <= MaxRoots
  <2>1. T!Opened = 1 .. Len(turnOf) /\ T!Opened' = 1 .. r
    BY <1>4 DEF T!Opened
  <2> QED BY <1>3, <2>1 DEF T!Roots
<1>6. turnOf'[r] = t
  BY <1>1, <1>3
<1>7. ledger' \subseteq ledger \cup {r}
  BY <1>2 DEF T!Survivors
<1>8. item \in TurnsItems' /\ item.of = r /\ item.status = "open"
  BY <1>5 DEF TurnsItems, T!Root
<1> HIDE DEF r, item
<1>9. rows[r] \notin T!Verdicts /\ \A i \in Places : ~Tells(i, r)
  <2>1. rows[r] = "none"
    BY <1>5 DEF TurnsInv, ToCome
  <2>2. \A i \in Places : queue[i].of \in T!Opened \cup {0}
    BY TurnsFacts, TurnsItemFacts DEF TurnsInv
  <2> QED BY <1>5, <2>1, <2>2 DEF Tells, T!Verdicts
<1>10. /\ queue' \in Seq(TurnsItems')
       /\ LastWord' /\ Found' /\ ToCome' /\ T!Discoverable'
       /\ \A x : (\E i \in Places : Tells(i, x)) => (\E i \in Places' : Tells(i, x)')
       /\ \A x : (\E i \in Places' : Tells(i, x)') =>
              (\E i \in Places : Tells(i, x)) \/ (item.of = x /\ item.status \in T!Verdicts)
  <2>1. T!Refused(item) \subseteq excused' /\ excused \subseteq excused' /\ T!Opened \subseteq T!Opened'
        /\ T!Opened' \subseteq T!Roots /\ \A x \in T!Opened' \ T!Opened : item.of = x
    BY <1>2, <1>3, <1>5, <1>8
  <2> QED BY <1>1, <1>8, <1>9, <2>1, Submits
<1>11. rows' = rows /\ calls \subseteq [call : Calls, of : T!Opened \cup {0}, done : BOOLEAN]
       /\ kids \subseteq T!Opened \cup {0}
  BY <1>1 DEF T!writerVars, TurnsInv, T!TypeOK
<1>12. T!TypeOK'
  <2>1. excused' \subseteq T!Opened' \cup {0}
    BY <1>2, <1>3, <1>5, <1>8 DEF T!Refused
  <2>2. closing' \subseteq [of : T!Opened', step : {"child", "root"}]
        /\ calls' \subseteq [call : Calls, of : T!Opened' \cup {0}, done : BOOLEAN]
    <3>1. T!Opened \subseteq T!Opened'
      BY <1>5
    <3> QED BY <1>1, <1>3, <1>11, <3>1
  <2>3. ledger' \subseteq T!Opened' /\ kids' \subseteq T!Opened' \cup {0}
    BY <1>1, <1>3, <1>5, <1>7, <1>11 DEF T!writerVars
  <2>4. Len(turnOf') <= MaxRoots /\ opening' \subseteq Turns
    BY <1>1, <1>4, <1>5
  <2> QED BY <1>1, <1>4, <1>10, <2>1, <2>2, <2>3, <2>4 DEF TurnsInv, T!TypeOK, TurnsItems,
             T!writerVars
<1>13. Untold'
  <2>1. \A c \in closing : c.of # r
    BY <1>3, <1>5
  <2> QED BY <1>1, <1>7, <1>8, <1>9, <1>10, <1>11, <2>1 DEF TurnsInv, Untold, T!Verdicts
<1>14. OnePerSession'
  <2>1. \A x \in ledger : turnOf'[x] = turnOf[x] /\ SessionOf[turnOf[x]] # SessionOf[t]
    BY <1>1, <1>3, <1>4 DEF TurnsInv, OnePerSession
  <2>2. ASSUME NEW x \in ledger', NEW y \in ledger', SessionOf[turnOf'[x]] = SessionOf[turnOf'[y]]
        PROVE  x = y
    BY <1>6, <1>7, <2>1, <2>2 DEF TurnsInv, OnePerSession
  <2> QED BY <1>1, <2>2 DEF OnePerSession
<1>15. T!Fated'
  <2> SUFFICES ASSUME NEW x \in T!Opened'
               PROVE  \/ x \in ledger' \/ \E c \in closing : c.of = x
                      \/ \E i \in Places' : Tells(i, x)'
                      \/ rows[x] \in T!Verdicts \/ x \in excused'
    BY <1>1, <1>11 DEF T!Fated, Tells, Places
  <2>1. x = r \/ (/\ x \in T!Opened
                  /\ \/ x \in ledger \/ (\E c \in closing : c.of = x) \/ (\E i \in Places : Tells(i, x))
                     \/ rows[x] \in T!Verdicts \/ x \in excused)
    BY <1>5 DEF TurnsInv, T!Fated, Tells, Places
  <2> QED BY <1>2, <1>10, <2>1
<1> QED BY <1>10, <1>12, <1>13, <1>14, <1>15 DEF TurnsInv

LEMMA ClosesInv == ASSUME TurnsSane, TurnsInv, NEW t \in Turns, T!Closes(t) PROVE TurnsInv'
<1>1. PICK r \in ledger : /\ turnOf[r] = t /\ ledger' = ledger \ {r}
                          /\ closing' = closing \cup {[of |-> r, step |-> "child"]}
  BY DEF T!Closes, T!Without
<1>2. UNCHANGED <<turnOf, opening, calls, queue, T!writerVars, mishaps, excused>> /\ T!Opened' = T!Opened
  BY DEF T!Closes, T!Opened
<1>3. LastWord' /\ Found' /\ ToCome' /\ T!Discoverable'
  BY <1>2, Quiet
<1> DEFINE new == [of |-> r, step |-> "child"]
<1>4. new.of = r /\ new \in [of : T!Opened, step : {"child", "root"}]
  BY DEF TurnsInv, T!TypeOK
<1>5. closing' = closing \cup {new}
  BY <1>1
<1> HIDE DEF new
<1>6. T!TypeOK'
  BY <1>1, <1>2, <1>4, <1>5 DEF TurnsInv, T!TypeOK, T!writerVars, T!Opened
<1>7. Untold'
  BY <1>1, <1>2, <1>4, <1>5 DEF TurnsInv, Untold, T!writerVars, Tells, Places
<1>8. OnePerSession'
  BY <1>1, <1>2 DEF TurnsInv, OnePerSession
<1>9. T!Fated'
  BY <1>1, <1>2, <1>4, <1>5 DEF TurnsInv, T!Fated, T!writerVars
<1> QED BY <1>3, <1>6, <1>7, <1>8, <1>9 DEF TurnsInv

LEMMA CompletesInv == ASSUME TurnsSane, TurnsInv, NEW c \in closing, T!Completes(c) PROVE TurnsInv'
<1> DEFINE item == T!Child(c.of)
           next == [c EXCEPT !.step = "root"]
<1>1. /\ closing' = (closing \ {c}) \cup {next}
      /\ queue' = T!Submitted(item) /\ excused' = excused \cup T!Refused(item)
      /\ UNCHANGED <<turnOf, ledger, opening, calls, T!writerVars, mishaps>>
  BY DEF T!Completes
<1>2. T!Opened' = T!Opened /\ TurnsItems' = TurnsItems /\ rows' = rows
  BY <1>1 DEF T!Opened, TurnsItems, T!writerVars
<1>3. c \in [of : T!Opened, step : {"child", "root"}] /\ T!Opened \subseteq T!Roots
  BY TurnsFacts DEF TurnsInv, T!TypeOK
<1>4. item \in TurnsItems' /\ item.of = c.of /\ item.status = "child" /\ c.of \in T!Opened
  BY <1>2, <1>3 DEF T!Child, TurnsItems
<1>5. next \in [of : T!Opened, step : {"child", "root"}] /\ next.of = c.of
  BY <1>3
<1> HIDE DEF item, next
<1>6. /\ queue' \in Seq(TurnsItems')
      /\ LastWord' /\ Found' /\ ToCome' /\ T!Discoverable'
      /\ \A x : (\E i \in Places : Tells(i, x)) => (\E i \in Places' : Tells(i, x)')
      /\ \A x : (\E i \in Places' : Tells(i, x)') =>
              (\E i \in Places : Tells(i, x)) \/ (item.of = x /\ item.status \in T!Verdicts)
  BY <1>1, <1>2, <1>3, <1>4, Submits
<1>7. T!TypeOK'
  <2>1. excused' \subseteq T!Opened' \cup {0}
    BY <1>1, <1>2, <1>4 DEF T!Refused, TurnsInv, T!TypeOK
  <2> QED BY <1>1, <1>2, <1>5, <1>6, <2>1 DEF TurnsInv, T!TypeOK, TurnsItems, T!writerVars
<1>8. Untold'
  BY <1>1, <1>2, <1>4, <1>5, <1>6 DEF TurnsInv, Untold, T!Verdicts
<1>9. OnePerSession'
  BY <1>1 DEF TurnsInv, OnePerSession
<1>10. T!Fated'
  <2> SUFFICES ASSUME NEW x \in T!Opened
               PROVE  \/ x \in ledger \/ (\E d \in closing' : d.of = x)
                      \/ (\E i \in Places' : Tells(i, x)')
                      \/ rows[x] \in T!Verdicts \/ x \in excused'
    BY <1>1, <1>2 DEF T!Fated, Tells, Places
  <2>1. \/ x \in ledger \/ (\E d \in closing : d.of = x) \/ (\E i \in Places : Tells(i, x))
        \/ rows[x] \in T!Verdicts \/ x \in excused
    BY DEF TurnsInv, T!Fated, Tells, Places
  <2> QED BY <1>1, <1>5, <1>6, <2>1
<1> QED BY <1>6, <1>7, <1>8, <1>9, <1>10 DEF TurnsInv

LEMMA EndsInv == ASSUME TurnsSane, TurnsInv, NEW c \in closing, T!Ends(c) PROVE TurnsInv'
<1> DEFINE item == T!Root(c.of, "closed")
<1>1. /\ closing' = closing \ {c}
      /\ queue' = T!Submitted(item) /\ excused' = excused \cup T!Refused(item)
      /\ UNCHANGED <<turnOf, ledger, opening, calls, T!writerVars, mishaps>>
  BY DEF T!Ends
<1>2. T!Opened' = T!Opened /\ TurnsItems' = TurnsItems /\ rows' = rows
  BY <1>1 DEF T!Opened, TurnsItems, T!writerVars
<1>3. c \in [of : T!Opened, step : {"child", "root"}] /\ T!Opened \subseteq T!Roots
  BY TurnsFacts DEF TurnsInv, T!TypeOK
<1>4. item \in TurnsItems' /\ item.of = c.of /\ item.status = "closed" /\ c.of \in T!Opened
  BY <1>2, <1>3 DEF T!Root, TurnsItems, T!Verdicts
<1>5. rows[c.of] \notin T!Verdicts /\ \A i \in Places : ~Tells(i, c.of)
  BY DEF TurnsInv, Untold
<1> HIDE DEF item
<1>6. /\ queue' \in Seq(TurnsItems')
      /\ LastWord' /\ Found' /\ ToCome' /\ T!Discoverable'
      /\ \A x : (\E i \in Places : Tells(i, x)) => (\E i \in Places' : Tells(i, x)')
      /\ \A x : (\E i \in Places' : Tells(i, x)') =>
              (\E i \in Places : Tells(i, x)) \/ (item.of = x /\ item.status \in T!Verdicts)
      /\ (\E i \in Places' : queue'[i] = item) \/ item.of \in excused'
  BY <1>1, <1>2, <1>3, <1>4, <1>5, Submits
<1>7. T!TypeOK'
  <2>1. excused' \subseteq T!Opened' \cup {0}
    BY <1>1, <1>2, <1>4 DEF T!Refused, TurnsInv, T!TypeOK
  <2> QED BY <1>1, <1>2, <1>6, <2>1 DEF TurnsInv, T!TypeOK, TurnsItems, T!writerVars
<1>8. Untold'
  BY <1>1, <1>2, <1>4, <1>6 DEF TurnsInv, Untold
<1>9. OnePerSession'
  BY <1>1 DEF TurnsInv, OnePerSession
<1>10. T!Fated'
  <2> SUFFICES ASSUME NEW x \in T!Opened
               PROVE  \/ x \in ledger \/ (\E d \in closing' : d.of = x)
                      \/ (\E i \in Places' : Tells(i, x)')
                      \/ rows[x] \in T!Verdicts \/ x \in excused'
    BY <1>1, <1>2 DEF T!Fated, Tells, Places
  <2>1. \/ x \in ledger \/ (\E d \in closing : d.of = x) \/ (\E i \in Places : Tells(i, x))
        \/ rows[x] \in T!Verdicts \/ x \in excused
    BY DEF TurnsInv, T!Fated, Tells, Places
  <2>2. (\E i \in Places' : Tells(i, c.of)') \/ c.of \in excused'
    BY <1>4, <1>6 DEF Tells, T!Verdicts
  <2> QED BY <1>1, <1>6, <2>1, <2>2
<1> QED BY <1>6, <1>7, <1>8, <1>9, <1>10 DEF TurnsInv

LEMMA CallBeginsInv ==
  ASSUME TurnsSane, TurnsInv, NEW call \in Calls, NEW t \in Turns, T!CallBegins(call, t) PROVE TurnsInv'
<1>1. /\ UNCHANGED <<turnOf, ledger, opening, closing, queue, T!writerVars, mishaps, excused>>
      /\ calls' = calls \cup {[call |-> call, of |-> T!Parent(t), done |-> FALSE]}
  BY DEF T!CallBegins
<1>2. T!Parent(t) \in T!Opened \cup {0}
  BY DEF T!Parent, TurnsInv, T!TypeOK
<1>3. LastWord' /\ Found' /\ ToCome' /\ T!Discoverable'
  BY <1>1, Quiet
<1>4. calls' \subseteq [call : Calls, of : T!Opened \cup {0}, done : BOOLEAN]
  <2> DEFINE new == [call |-> call, of |-> T!Parent(t), done |-> FALSE]
  <2>1. new \in [call : Calls, of : T!Opened \cup {0}, done : BOOLEAN]
    BY <1>2
  <2>2. calls' = calls \cup {new}
    BY <1>1
  <2> HIDE DEF new
  <2> QED BY <2>1, <2>2 DEF TurnsInv, T!TypeOK
<1>5. T!TypeOK'
  BY <1>1, <1>4 DEF TurnsInv, T!TypeOK, T!writerVars, T!Opened
<1>6. Untold' /\ OnePerSession' /\ T!Fated'
  BY <1>1 DEF TurnsInv, Untold, OnePerSession, T!Fated, T!writerVars, Tells, Places, T!Opened
<1> QED BY <1>3, <1>5, <1>6 DEF TurnsInv

LEMMA CallEndsInv == ASSUME TurnsSane, TurnsInv, NEW k \in calls, T!CallEnds(k) PROVE TurnsInv'
<1> DEFINE item == T!Child(k.of)
<1>1. /\ calls' = (calls \ {k}) \cup {T!Over(k)}
      /\ queue' = T!Submitted(item) /\ excused' = excused \cup T!Refused(item)
      /\ UNCHANGED <<turnOf, ledger, opening, closing, T!writerVars, mishaps>>
  BY DEF T!CallEnds
<1>2. T!Opened' = T!Opened /\ TurnsItems' = TurnsItems /\ rows' = rows
  BY <1>1 DEF T!Opened, TurnsItems, T!writerVars
<1>3. k \in [call : Calls, of : T!Opened \cup {0}, done : BOOLEAN] /\ T!Opened \subseteq T!Roots
  BY TurnsFacts DEF TurnsInv, T!TypeOK
<1>4. item \in TurnsItems' /\ item.of \in T!Opened \cup {0} /\ item.status = "child"
  BY <1>2, <1>3 DEF T!Child, TurnsItems
<1>5. T!Over(k) \in [call : Calls, of : T!Opened \cup {0}, done : BOOLEAN]
  BY <1>3 DEF T!Over
<1> HIDE DEF item
<1>6. /\ queue' \in Seq(TurnsItems')
      /\ LastWord' /\ Found' /\ ToCome' /\ T!Discoverable'
      /\ \A x : (\E i \in Places : Tells(i, x)) => (\E i \in Places' : Tells(i, x)')
      /\ \A x : (\E i \in Places' : Tells(i, x)') =>
              (\E i \in Places : Tells(i, x)) \/ (item.of = x /\ item.status \in T!Verdicts)
  BY <1>1, <1>2, <1>3, <1>4, Submits
<1>7. T!TypeOK'
  <2>1. excused' \subseteq T!Opened' \cup {0}
    BY <1>1, <1>2, <1>4 DEF T!Refused, TurnsInv, T!TypeOK
  <2>2. calls' \subseteq [call : Calls, of : T!Opened' \cup {0}, done : BOOLEAN]
    BY <1>1, <1>2, <1>5 DEF TurnsInv, T!TypeOK
  <2> QED BY <1>1, <1>2, <1>6, <2>1, <2>2 DEF TurnsInv, T!TypeOK, TurnsItems, T!writerVars
<1>8. Untold'
  BY <1>1, <1>2, <1>4, <1>6 DEF TurnsInv, Untold, T!Verdicts
<1>9. OnePerSession'
  BY <1>1 DEF TurnsInv, OnePerSession
<1>10. T!Fated'
  <2> SUFFICES ASSUME NEW x \in T!Opened
               PROVE  \/ x \in ledger \/ (\E d \in closing : d.of = x)
                      \/ (\E i \in Places' : Tells(i, x)')
                      \/ rows[x] \in T!Verdicts \/ x \in excused'
    BY <1>1, <1>2 DEF T!Fated, Tells, Places
  <2>1. \/ x \in ledger \/ (\E d \in closing : d.of = x) \/ (\E i \in Places : Tells(i, x))
        \/ rows[x] \in T!Verdicts \/ x \in excused
    BY DEF TurnsInv, T!Fated, Tells, Places
  <2> QED BY <1>1, <1>6, <2>1
<1> QED BY <1>6, <1>7, <1>8, <1>9, <1>10 DEF TurnsInv

-----------------------------------------------------------------------------

\* What is left of the queue once its head is taken.
LEMMA TurnsTaking ==
  ASSUME TurnsSane, T!TypeOK, queue # <<>>, queue' = Tail(queue)
  PROVE  /\ queue' \in Seq(TurnsItems) /\ Head(queue) = queue[1] /\ 1 \in Places
         /\ \A i \in Places' : i \in Nat /\ i + 1 \in Places /\ 1 < i + 1 /\ queue'[i] = queue[i + 1]
         /\ \A i \in Places : i = 1 \/ (i - 1 \in Places' /\ queue'[i - 1] = queue[i] /\ i \in Nat)
         /\ Len(queue) \in Nat
<1>1. queue \in Seq(TurnsItems) /\ Len(queue) \in Nat
  BY TurnsFacts
<1>2. Len(queue) # 0
  BY <1>1, EmptySeq
<1>3. /\ queue' \in Seq(TurnsItems) /\ Len(queue') = Len(queue) - 1
      /\ \A i \in 1 .. Len(queue') : queue'[i] = queue[i + 1]
  BY <1>1, <1>2
<1>4. Head(queue) = queue[1]
  BY <1>1
<1>5. Places = 1 .. Len(queue) /\ Places' = 1 .. Len(queue) - 1
  BY <1>3 DEF Places
<1> QED BY <1>1, <1>2, <1>3, <1>4, <1>5

LEMMA TurnsAppliesInv == ASSUME TurnsSane, TurnsInv, T!Applies PROVE TurnsInv'
<1> DEFINE h == Head(queue)
<1>1. /\ queue # <<>> /\ queue' = Tail(queue) /\ pending' = TRUE
      /\ UNCHANGED <<turnOf, ledger, opening, closing, calls, saved, savedKids, mishaps, excused>>
      /\ IF h.status = "child" THEN kids' = kids \cup {h.of} /\ rows' = rows
         ELSE kids' = kids /\ rows' = [rows EXCEPT ![h.of] = h.status]
  BY DEF T!Applies
<1>2. /\ queue' \in Seq(TurnsItems) /\ h = queue[1] /\ 1 \in Places
      /\ \A i \in Places' : i \in Nat /\ i + 1 \in Places /\ 1 < i + 1 /\ queue'[i] = queue[i + 1]
      /\ \A i \in Places : i = 1 \/ (i - 1 \in Places' /\ queue'[i - 1] = queue[i] /\ i \in Nat)
  BY <1>1, TurnsTaking DEF TurnsInv
<1> HIDE DEF h
<1>3. h \in TurnsItems /\ T!Opened' = T!Opened /\ TurnsItems' = TurnsItems /\ T!Opened \subseteq T!Roots /\ 0 \notin T!Opened
  BY <1>1, <1>2, TurnsFacts DEF TurnsInv, T!Opened, TurnsItems
<1>4. /\ h.of \in T!Opened \cup {0} /\ (h.status # "child" => h.of \in T!Opened)
      /\ h.status \in T!Verdicts \cup {"open", "child"}
      /\ h.status = "child" => h = T!Child(h.of)
  BY <1>3, TurnsItemFacts
<1>5. rows \in [T!Roots -> T!Statuses] /\ \A r \in T!Roots : r # h.of => rows'[r] = rows[r]
  BY <1>1 DEF TurnsInv, T!TypeOK
<1>6. h.status = "child" => rows'[h.of] = rows[h.of]
  BY <1>1
<1>7. h.status # "child" => rows'[h.of] = h.status /\ About(1, h.of)
  BY <1>1, <1>2, <1>3, <1>4, <1>5 DEF About
<1>8. ASSUME NEW r, NEW i \in Places'
      PROVE  /\ Tells(i, r)' <=> Tells(i + 1, r)
             /\ About(i, r)' <=> About(i + 1, r)
  BY <1>2 DEF Tells, About
<1>9. T!TypeOK'
  <2>1. rows' \in [T!Roots -> T!Statuses]
    BY <1>1, <1>3, <1>4, <1>5 DEF T!Statuses
  <2>2. kids' \subseteq T!Opened \cup {0} /\ savedKids \subseteq kids'
    BY <1>1, <1>4 DEF TurnsInv, T!TypeOK
  <2> QED BY <1>1, <1>2, <1>3, <2>1, <2>2 DEF TurnsInv, T!TypeOK, TurnsItems
<1>10. Untold'
  <2>1. ASSUME NEW r \in T!Opened, rows[r] \notin T!Verdicts, \A i \in Places : ~Tells(i, r)
        PROVE  rows'[r] \notin T!Verdicts /\ \A i \in Places' : ~Tells(i, r)'
    <3>1. \A i \in Places' : ~Tells(i, r)'
      BY <1>2, <1>8, <2>1
    <3>2. rows'[r] \notin T!Verdicts
      BY <1>2, <1>3, <1>5, <1>6, <1>7, <2>1 DEF Tells
    <3> QED BY <3>1, <3>2
  <2>2. ledger \subseteq T!Opened /\ \A c \in closing : c.of \in T!Opened
    BY DEF TurnsInv, T!TypeOK
  <2> QED BY <1>1, <2>1, <2>2 DEF TurnsInv, Untold
<1>11. LastWord'
  <2>1. ASSUME NEW r \in T!Opened, NEW i \in Places', NEW j \in Places', i < j, Tells(i, r)'
        PROVE  ~About(j, r)'
    <3>1. Tells(i + 1, r) /\ i + 1 \in Places /\ j + 1 \in Places /\ i + 1 < j + 1
      BY <1>2, <1>8, <2>1
    <3>2. ~About(j + 1, r)
      BY <3>1 DEF TurnsInv, LastWord
    <3> QED BY <1>8, <3>2
  <2>2. ASSUME NEW r \in T!Opened, rows'[r] \in T!Verdicts, NEW i \in Places' PROVE ~About(i, r)'
    <3>1. i + 1 \in Places /\ 1 < i + 1
      BY <1>2
    <3>2. CASE rows[r] \in T!Verdicts
      BY <1>8, <3>1, <3>2 DEF TurnsInv, LastWord
    <3>3. CASE rows[r] \notin T!Verdicts
      <4>1. h.of = r /\ h.status # "child" /\ rows'[r] = h.status
        BY <1>3, <1>5, <1>6, <1>7, <2>2, <3>3
      <4>2. Tells(1, r)
        BY <1>2, <2>2, <4>1 DEF Tells
      <4>3. ~About(i + 1, r)
        BY <1>2, <3>1, <4>2 DEF TurnsInv, LastWord
      <4> QED BY <1>8, <4>3
    <3> QED BY <3>2, <3>3
  <2>3. ASSUME NEW r \in T!Opened, saved[r] \in T!Verdicts PROVE rows'[r] = saved[r]
    <3>1. rows[r] = saved[r]
      BY <2>3 DEF TurnsInv, LastWord
    <3>2. ~About(1, r)
      BY <1>2, <2>3, <3>1 DEF TurnsInv, LastWord
    <3> QED BY <1>3, <1>5, <1>6, <1>7, <3>1, <3>2
  <2> QED BY <1>1, <1>3, <2>1, <2>2, <2>3 DEF LastWord
<1>12. ASSUME NEW r \in T!Opened, Rooted(r) \/ About(1, r) PROVE Rooted(r)'
  BY <1>1, <1>2, <1>3, <1>4, <1>5, <1>6, <1>7, <1>12 DEF Rooted, About, T!Verdicts
<1>13. Found'
  <2>1. ASSUME NEW r \in T!Opened, ~Rooted(r)' PROVE \E i \in Places' : About(i, r)'
    <3>1. PICK i \in Places : About(i, r) /\ i # 1
      BY <1>12, <2>1 DEF TurnsInv, Found
    <3>2. i - 1 \in Places' /\ queue'[i - 1] = queue[i]
      BY <1>2, <3>1
    <3> QED BY <3>1, <3>2 DEF About
  <2>2. ASSUME NEW r \in T!Opened, ~Rooted(r)', NEW i \in Places', queue'[i] = T!Child(r)
        PROVE  \E j \in Places' : j < i /\ About(j, r)'
    <3>1. i + 1 \in Places /\ queue[i + 1] = T!Child(r) /\ i \in Nat
      BY <1>2, <2>2
    <3>2. PICK j \in Places : j < i + 1 /\ About(j, r) /\ j # 1
      BY <1>12, <2>2, <3>1 DEF TurnsInv, Found
    <3>3. j - 1 \in Places' /\ queue'[j - 1] = queue[j] /\ j \in Nat
      BY <1>2, <3>2
    <3>4. j - 1 < i
      BY <3>1, <3>2, <3>3
    <3> QED BY <3>2, <3>3, <3>4 DEF About
  <2>3. ASSUME NEW r \in kids' \ {0} PROVE Rooted(r)'
    <3>1. CASE r \in kids
      BY <1>12, <2>3, <3>1 DEF TurnsInv, Found, T!TypeOK
    <3>2. CASE r \notin kids
      <4>1. h.status = "child" /\ h.of = r /\ r \in T!Opened
        BY <1>1, <1>4, <2>3, <3>2
      <4>2. queue[1] = T!Child(r)
        BY <1>2, <1>4, <4>1
      <4>3. \A j \in Places : ~(j < 1)
        BY DEF Places
      <4> QED BY <1>2, <1>12, <4>1, <4>2, <4>3 DEF TurnsInv, Found
    <3> QED BY <3>1, <3>2
  <2> QED BY <1>3, <2>1, <2>2, <2>3 DEF Found
<1>14. ToCome' /\ OnePerSession' /\ T!Discoverable'
  <2>1. ToCome'
    BY <1>1, <1>3, <1>4, <1>5, <1>6 DEF TurnsInv, ToCome
  <2> QED BY <1>1, <2>1 DEF TurnsInv, OnePerSession, T!Discoverable
<1>15. T!Fated'
  <2> SUFFICES ASSUME NEW x \in T!Opened
               PROVE  \/ x \in ledger \/ (\E d \in closing : d.of = x)
                      \/ (\E i \in Places' : Tells(i, x)')
                      \/ rows'[x] \in T!Verdicts \/ x \in excused
    BY <1>1, <1>3 DEF T!Fated, Tells, Places
  <2>1. \/ x \in ledger \/ (\E d \in closing : d.of = x) \/ (\E i \in Places : Tells(i, x))
        \/ rows[x] \in T!Verdicts \/ x \in excused
    BY DEF TurnsInv, T!Fated, Tells, Places
  <2>2. ASSUME NEW i \in Places, Tells(i, x)
        PROVE  (\E k \in Places' : Tells(k, x)') \/ rows'[x] \in T!Verdicts
    <3>1. CASE i = 1
      BY <1>2, <1>7, <2>2, <3>1 DEF Tells, T!Verdicts
    <3>2. CASE i # 1
      BY <1>2, <2>2, <3>2 DEF Tells
    <3> QED BY <3>1, <3>2
  <2>3. rows[x] \in T!Verdicts => rows'[x] \in T!Verdicts
    <3>1. rows[x] \in T!Verdicts => ~About(1, x)
      BY <1>2 DEF TurnsInv, LastWord
    <3> QED BY <1>3, <1>5, <1>6, <1>7, <3>1
  <2> QED BY <2>1, <2>2, <2>3
<1> QED BY <1>9, <1>10, <1>11, <1>13, <1>14, <1>15 DEF TurnsInv

LEMMA TurnsApplyFailsInv == ASSUME TurnsSane, TurnsInv, T!ApplyFails PROVE TurnsInv'
<1> DEFINE h == Head(queue)
<1>1. /\ queue # <<>> /\ queue' = Tail(queue) /\ excused' = excused \cup {h.of}
      /\ UNCHANGED <<turnOf, ledger, opening, closing, calls, T!writerVars>>
      /\ mishaps' = mishaps + 1 /\ mishaps < MaxMishaps
  BY DEF T!ApplyFails, T!Mishap
<1>2. /\ queue' \in Seq(TurnsItems) /\ h = queue[1] /\ 1 \in Places
      /\ \A i \in Places' : i \in Nat /\ i + 1 \in Places /\ 1 < i + 1 /\ queue'[i] = queue[i + 1]
      /\ \A i \in Places : i = 1 \/ (i - 1 \in Places' /\ queue'[i - 1] = queue[i] /\ i \in Nat)
  BY <1>1, TurnsTaking DEF TurnsInv
<1> HIDE DEF h
<1>3. h \in TurnsItems /\ T!Opened' = T!Opened /\ TurnsItems' = TurnsItems /\ rows' = rows /\ saved' = saved
      /\ kids' = kids /\ savedKids' = savedKids /\ pending' = pending
  BY <1>1, <1>2, TurnsFacts DEF TurnsInv, T!Opened, TurnsItems, T!writerVars
<1>4. h.of \in T!Opened \cup {0}
  BY <1>3, TurnsItemFacts
<1>5. ASSUME NEW r, NEW i \in Places'
      PROVE  /\ Tells(i, r)' <=> Tells(i + 1, r)
             /\ About(i, r)' <=> About(i + 1, r)
  BY <1>2 DEF Tells, About
<1>6. T!TypeOK'
  <2>1. mishaps' \in 0 .. MaxMishaps
    BY <1>1 DEF TurnsInv, T!TypeOK, TurnsSane
  <2>2. excused' \subseteq T!Opened \cup {0}
    BY <1>1, <1>4 DEF TurnsInv, T!TypeOK
  <2> QED BY <1>1, <1>2, <1>3, <2>1, <2>2 DEF TurnsInv, T!TypeOK, TurnsItems
<1>7. Untold'
  BY <1>1, <1>2, <1>3, <1>5 DEF TurnsInv, Untold
<1>8. LastWord'
  <2>1. ASSUME NEW r \in T!Opened, NEW i \in Places', NEW j \in Places', i < j, Tells(i, r)'
        PROVE  ~About(j, r)'
    <3>1. Tells(i + 1, r) /\ i + 1 \in Places /\ j + 1 \in Places /\ i + 1 < j + 1
      BY <1>2, <1>5, <2>1
    <3> QED BY <1>5, <3>1 DEF TurnsInv, LastWord
  <2> QED BY <1>2, <1>3, <1>5, <2>1 DEF TurnsInv, LastWord
<1>9. ASSUME NEW r, Rooted(r) \/ About(1, r) PROVE Rooted(r)'
  BY <1>1, <1>2, <1>3, <1>9 DEF Rooted, About
<1>10. Found'
  <2>1. ASSUME NEW r \in T!Opened, ~Rooted(r)' PROVE \E i \in Places' : About(i, r)'
    <3>1. PICK i \in Places : About(i, r) /\ i # 1
      BY <1>9, <2>1 DEF TurnsInv, Found
    <3>2. i - 1 \in Places' /\ queue'[i - 1] = queue[i]
      BY <1>2, <3>1
    <3> QED BY <3>1, <3>2 DEF About
  <2>2. ASSUME NEW r \in T!Opened, ~Rooted(r)', NEW i \in Places', queue'[i] = T!Child(r)
        PROVE  \E j \in Places' : j < i /\ About(j, r)'
    <3>1. i + 1 \in Places /\ queue[i + 1] = T!Child(r) /\ i \in Nat
      BY <1>2, <2>2
    <3>2. PICK j \in Places : j < i + 1 /\ About(j, r) /\ j # 1
      BY <1>9, <2>2, <3>1 DEF TurnsInv, Found
    <3>3. j - 1 \in Places' /\ queue'[j - 1] = queue[j] /\ j \in Nat
      BY <1>2, <3>2
    <3>4. j - 1 < i
      BY <3>1, <3>2, <3>3
    <3> QED BY <3>2, <3>3, <3>4 DEF About
  <2>3. \A r \in kids' \ {0} : Rooted(r)'
    BY <1>3, <1>9 DEF TurnsInv, Found
  <2> QED BY <1>3, <2>1, <2>2, <2>3 DEF Found
<1>11. ToCome' /\ OnePerSession' /\ T!Discoverable'
  BY <1>1, <1>3 DEF TurnsInv, ToCome, OnePerSession, T!Discoverable
<1>12. T!Fated'
  <2> SUFFICES ASSUME NEW x \in T!Opened
               PROVE  \/ x \in ledger \/ (\E d \in closing : d.of = x)
                      \/ (\E i \in Places' : Tells(i, x)')
                      \/ rows[x] \in T!Verdicts \/ x \in excused'
    BY <1>1, <1>3 DEF T!Fated, Tells, Places
  <2>1. \/ x \in ledger \/ (\E d \in closing : d.of = x) \/ (\E i \in Places : Tells(i, x))
        \/ rows[x] \in T!Verdicts \/ x \in excused
    BY DEF TurnsInv, T!Fated, Tells, Places
  <2>2. ASSUME NEW i \in Places, Tells(i, x)
        PROVE  (\E k \in Places' : Tells(k, x)') \/ x \in excused'
    BY <1>1, <1>2, <2>2 DEF Tells
  <2> QED BY <1>1, <2>1, <2>2
<1> QED BY <1>6, <1>7, <1>8, <1>10, <1>11, <1>12 DEF TurnsInv

LEMMA TurnsCommitsInv == ASSUME TurnsSane, TurnsInv, T!Commits PROVE TurnsInv'
<1>1. /\ pending' = FALSE /\ saved' = rows /\ savedKids' = kids
      /\ UNCHANGED <<turnOf, ledger, opening, closing, calls, queue, rows, kids, mishaps, excused>>
      /\ T!Opened' = T!Opened
  BY DEF T!Commits, T!Opened
<1>2. T!TypeOK'
  BY <1>1 DEF TurnsInv, T!TypeOK
<1>3. Untold' /\ LastWord' /\ OnePerSession'
  BY <1>1 DEF TurnsInv, Untold, LastWord, OnePerSession, Tells, About, Places
<1>4. Found' /\ ToCome' /\ T!Discoverable' /\ T!Fated'
  BY <1>1 DEF TurnsInv, Found, Rooted, ToCome, T!Discoverable, T!Fated, About, Places
<1> QED BY <1>2, <1>3, <1>4 DEF TurnsInv

LEMMA CommitFailsInv == ASSUME TurnsSane, TurnsInv, T!CommitFails PROVE TurnsInv'
<1>1. /\ pending' = FALSE /\ excused' = excused \cup T!Uncommitted
      /\ UNCHANGED <<turnOf, ledger, opening, closing, calls, queue, rows, kids, saved, savedKids>>
      /\ T!Opened' = T!Opened /\ mishaps' = mishaps + 1 /\ mishaps < MaxMishaps
  BY DEF T!CommitFails, T!Mishap, T!Opened
<1>2. T!Uncommitted \subseteq T!Opened \cup {0}
  BY DEF T!Uncommitted, TurnsInv, ToCome, T!TypeOK
<1>3. T!TypeOK'
  <2>1. mishaps' \in 0 .. MaxMishaps
    BY <1>1 DEF TurnsInv, T!TypeOK, TurnsSane
  <2> QED BY <1>1, <1>2, <2>1 DEF TurnsInv, T!TypeOK
<1>4. Untold' /\ LastWord' /\ OnePerSession'
  BY <1>1 DEF TurnsInv, Untold, LastWord, OnePerSession, Tells, About, Places
<1>5. Found' /\ ToCome' /\ T!Discoverable' /\ T!Fated'
  BY <1>1 DEF TurnsInv, Found, Rooted, ToCome, T!Discoverable, T!Fated, About, Places
<1> QED BY <1>3, <1>4, <1>5 DEF TurnsInv

LEMMA TurnsRestartsInv == ASSUME TurnsSane, TurnsInv, T!Restarts PROVE TurnsInv'
<1>1. /\ ledger' = {} /\ opening' = {} /\ closing' = {} /\ queue' = <<>>
      /\ calls' = {T!Over(k) : k \in calls}
      /\ rows' = saved /\ kids' = savedKids /\ pending' = FALSE
      /\ excused' = excused \cup {r \in T!Opened : saved[r] \notin T!Verdicts} \cup T!Uncommitted
      /\ UNCHANGED <<turnOf, saved, savedKids>> /\ T!Opened' = T!Opened
      /\ mishaps' = mishaps + 1 /\ mishaps < MaxMishaps
  BY DEF T!Restarts, T!Mishap, T!Opened
<1>2. T!Uncommitted \subseteq T!Opened \cup {0}
  BY DEF T!Uncommitted, TurnsInv, ToCome, T!TypeOK
<1>3. Places' = {}
  BY <1>1 DEF Places
<1>4. T!TypeOK'
  <2>1. mishaps' \in 0 .. MaxMishaps
    BY <1>1 DEF TurnsInv, T!TypeOK, TurnsSane
  <2>2. calls' \subseteq [call : Calls, of : T!Opened \cup {0}, done : BOOLEAN]
    BY <1>1 DEF T!Over, TurnsInv, T!TypeOK
  <2>3. excused' \subseteq T!Opened \cup {0}
    BY <1>1, <1>2 DEF TurnsInv, T!TypeOK
  <2>4. queue' \in Seq(TurnsItems')
    BY <1>1
  <2> QED BY <1>1, <2>1, <2>2, <2>3, <2>4 DEF TurnsInv, T!TypeOK, TurnsItems
<1>5. Untold' /\ LastWord' /\ OnePerSession'
  BY <1>1, <1>3 DEF TurnsInv, Untold, LastWord, OnePerSession
<1>6. Found'
  BY <1>1, <1>3 DEF TurnsInv, T!Discoverable, Found, Rooted, T!Verdicts
<1>7. ToCome' /\ T!Discoverable' /\ T!Fated'
  BY <1>1 DEF TurnsInv, ToCome, T!Discoverable, T!Fated
<1> QED BY <1>4, <1>5, <1>6, <1>7 DEF TurnsInv

LEMMA TurnsInitInv == ASSUME TurnsSane, T!Init PROVE TurnsInv
<1>1. /\ turnOf = <<>> /\ Len(turnOf) = 0 /\ T!Opened = {} /\ queue = <<>> /\ Places = {}
      /\ queue \in Seq(TurnsItems) /\ turnOf \in Seq(Turns)
  BY DEF T!Init, T!Opened, Places
<1>2. MaxRoots \in Nat /\ MaxMishaps \in Nat
  BY DEF TurnsSane
<1>3. T!TypeOK
  <2>1. Len(turnOf) <= MaxRoots /\ mishaps \in 0 .. MaxMishaps
    BY <1>1, <1>2 DEF T!Init
  <2> QED BY <1>1, <2>1 DEF T!Init, T!TypeOK, TurnsItems, T!Statuses
<1>4. Untold /\ LastWord /\ OnePerSession /\ Found
  BY <1>1 DEF T!Init, Untold, LastWord, OnePerSession, Found
<1>5. ToCome /\ T!Fated /\ T!Discoverable
  BY <1>1 DEF T!Init, ToCome, T!Fated, T!Discoverable
<1> QED BY <1>3, <1>4, <1>5 DEF TurnsInv

\* Each step keeps the invariant.
LEMMA TurnsStepInv == ASSUME TurnsSane, TurnsInv, [T!Next]_(T!vars) PROVE TurnsInv'
<1>1. CASE UNCHANGED T!vars
  <2>1. /\ UNCHANGED <<turnOf, ledger, opening, closing, calls, queue, rows, kids, saved, savedKids,
                       pending, mishaps, excused>>
        /\ T!Opened' = T!Opened
    BY <1>1 DEF T!vars, T!writerVars, T!Opened
  <2>2. T!TypeOK' /\ Untold' /\ LastWord'
    BY <2>1 DEF TurnsInv, T!TypeOK, Untold, LastWord, Tells, About, Places
  <2>3. OnePerSession' /\ Found' /\ ToCome' /\ T!Discoverable' /\ T!Fated'
    BY <2>1 DEF TurnsInv, OnePerSession, Found, Rooted, ToCome, T!Discoverable, T!Fated, About,
       Places
  <2> QED BY <2>2, <2>3 DEF TurnsInv
<1> QED BY <1>1, EntersInv, OpensInv, ClosesInv, CompletesInv, EndsInv, CallBeginsInv, CallEndsInv,
           TurnsAppliesInv, TurnsApplyFailsInv, TurnsCommitsInv, CommitFailsInv, TurnsRestartsInv
    DEF T!Next

\* No step of a state with the invariant takes a verdict back.
LEMMA StepKeeps == ASSUME TurnsSane, TurnsInv, [T!Next]_(T!vars) PROVE T!KeepsVerdicts
<1> SUFFICES ASSUME NEW r \in T!Roots, saved[r] \in T!Verdicts PROVE saved'[r] = saved[r]
  BY DEF T!KeepsVerdicts
<1>1. saved' = saved \/ saved' = rows
  BY DEF T!Next, T!vars, T!writerVars, T!Enters, T!Opens, T!Closes, T!Completes, T!Ends,
         T!CallBegins, T!CallEnds,
         T!Applies, T!ApplyFails, T!Commits, T!CommitFails, T!Restarts
<1>2. r \in T!Opened
  BY DEF TurnsInv, ToCome, T!Verdicts
<1> QED BY <1>1, <1>2 DEF TurnsInv, LastWord

LEMMA InvRooted == TurnsInv => T!Fated /\ T!Discoverable
BY DEF TurnsInv

\* No turn is left open in the store by the recorder's own doing, and a child
\* on disk can be found from its turn.
THEOREM NoneLeftOpen == TurnsSane => (T!Spec => [](T!Fated /\ T!Discoverable))
<1> SUFFICES ASSUME TurnsSane PROVE T!Spec => [](T!Fated /\ T!Discoverable)
  OBVIOUS
<1>1. T!Init => TurnsInv
  BY TurnsInitInv
<1>2. TurnsInv /\ [T!Next]_(T!vars) => TurnsInv'
  BY TurnsStepInv
<1>3. TurnsInv => T!Fated /\ T!Discoverable
  BY InvRooted
<1> QED BY <1>1, <1>2, <1>3, PTL DEF T!Spec

\* A verdict on disk is the last word.
THEOREM LastWords == TurnsSane => (T!Spec => T!VerdictStands)
<1> SUFFICES ASSUME TurnsSane PROVE T!Spec => T!VerdictStands
  OBVIOUS
<1>1. T!Init => TurnsInv
  BY TurnsInitInv
<1>2. TurnsInv /\ [T!Next]_(T!vars) => TurnsInv'
  BY TurnsStepInv
<1>3. TurnsInv /\ [T!Next]_(T!vars) => [T!KeepsVerdicts]_(T!vars)
  BY StepKeeps
<1> QED BY <1>1, <1>2, <1>3, PTL DEF T!Spec, T!VerdictStands

-----------------------------------------------------------------------------
(* The retention of traces.                                                *)

\* The bounds are numbers.
RetentionSane == /\ LastTrace \in Nat /\ MaxRows \in Nat /\ MaxTraces \in Nat
                 /\ MaxLine \in Nat /\ MaxBatch \in Nat /\ MaxLosses \in Nat

\* A place in a queue that holds the item.
Holds(q, item) == \E i \in 1 .. Len(q) : q[i] = item

\* An exchange that ended, whose resolution was not lost: behind an opening
\* that waits, its resolution waits too, and one the index shows open or is
\* about to has its resolution on the way.
Followed(x) ==
  flight[x] = "over" /\ x \notin astray =>
    /\ \A i \in 1 .. Len(line) : line[i] = R!Item("open", x) =>
         \E j \in 1 .. Len(line) : j > i /\ line[j] = R!Item("resolve", x)
    /\ index[x] = "open" \/ Holds(batch, R!Item("open", x)) =>
         Holds(line, R!Item("resolve", x)) \/ Holds(batch, R!Item("resolve", x))

RetentionInv == R!TypeOK /\ \A x \in R!Traces : Followed(x)

LEMMA ItemType ==
  /\ \A x \in R!Traces : R!Item("row", x) \in R!Items /\ R!Item("open", x) \in R!Items
                       /\ R!Item("resolve", x) \in R!Items
  /\ \A k, l, x, y : R!Item(k, x) = R!Item(l, y) => k = l /\ x = y
  /\ \A k, x : R!Item(k, x).kind = k /\ R!Item(k, x).of = x
  /\ \A i \in R!Items : i = R!Item(i.kind, i.of) /\ i.of \in R!Traces
BY DEF R!Item, R!Items

\* The rows of a batch are counted by a number.
LEMMA StoredType ==
  ASSUME R!TypeOK
  PROVE  /\ R!StoredWith \in [R!Traces -> Nat]
         /\ \A x \in R!Traces : R!StoredWith[x] >= stored[x]
<1>1. ASSUME NEW x \in R!Traces
      PROVE  Cardinality({i \in 1 .. Len(batch) : batch[i] = R!Item("row", x)}) \in Nat
  <2> DEFINE S == {i \in 1 .. Len(batch) : batch[i] = R!Item("row", x)}
  <2>1. Len(batch) \in Nat
    BY DEF R!TypeOK
  <2>2. IsFiniteSet(1 .. Len(batch))
    BY <2>1, FS_Interval
  <2>3. S \subseteq 1 .. Len(batch)
    OBVIOUS
  <2>4. IsFiniteSet(S)
    BY <2>2, <2>3, FS_Subset
  <2> QED BY <2>4, FS_CardinalityType
<1>2. ASSUME NEW x \in R!Traces
      PROVE  stored[x] \in Nat
  BY DEF R!TypeOK
<1> QED BY <1>1, <1>2, OneSize DEF R!StoredWith

LEMMA IndexType ==
  ASSUME R!TypeOK
  PROVE  R!IndexWith \in [R!Traces -> {"none", "open", "resolved", "past"}]
BY DEF R!TypeOK, R!IndexWith

LEMMA RetentionInitInv == ASSUME RetentionSane, R!Init PROVE RetentionInv
<1>1. R!TypeOK
  BY DEF RetentionSane, R!Init, R!TypeOK, R!Traces
<1>2. ASSUME NEW x \in R!Traces PROVE Followed(x)
  BY DEF R!Init, Followed
<1> QED BY <1>1, <1>2 DEF RetentionInv

\* What a submission does to the queue.
LEMMA RetentionSubmission ==
  ASSUME RetentionSane, RetentionInv, NEW item \in R!Items, R!Submits(item)
  PROVE  /\ line' \in Seq(R!Items) /\ astray' \subseteq R!Traces /\ astray \subseteq astray'
         /\ \/ /\ Len(line') = Len(line) + 1 /\ line'[Len(line) + 1] = item
               /\ \A i \in 1 .. Len(line) : line'[i] = line[i]
               /\ astray' = astray
            \/ line' = line /\ (item.kind = "resolve" => item.of \in astray')
<1>1. line \in Seq(R!Items) /\ astray \subseteq R!Traces
  BY DEF RetentionInv, R!TypeOK
<1>2. CASE Len(line) < MaxLine
  <2>1. line' = Append(line, item) /\ astray' = astray
    BY <1>2 DEF R!Submits
  <2> QED BY <1>1, <2>1
<1>3. CASE ~(Len(line) < MaxLine)
  <2>1. line' = line /\ astray' = R!Lost({item})
    BY <1>3 DEF R!Submits
  <2>2. item.of \in R!Traces
    BY DEF R!Items
  <2> QED BY <1>1, <2>1, <2>2 DEF R!Lost
<1> QED BY <1>2, <1>3

LEMMA SubmitSteps ==
  ASSUME RetentionSane, RetentionInv, NEW x \in R!Traces, R!Records(x) \/ R!Launches(x) \/ R!Resolves(x)
  PROVE  RetentionInv'
<1> DEFINE item == IF flight'[x] = flight[x] THEN R!Item("row", x)
                   ELSE IF flight[x] = "none" THEN R!Item("open", x) ELSE R!Item("resolve", x)
<1>1. /\ R!Submits(item) /\ item \in R!Items
      /\ UNCHANGED <<batch, stored, index, losses>>
      /\ sent' \in [R!Traces -> 0 .. MaxRows]
      /\ flight' \in [R!Traces -> {"none", "flying", "over"}]
      /\ \A y \in R!Traces : flight'[y] = "over" =>
           flight[y] = "over" \/ (y = x /\ item = R!Item("resolve", x))
      /\ \A y \in R!Traces : flight'[y] = "over" /\ flight[y] = "over" => item # R!Item("open", y)
  <2>1. CASE R!Records(x)
    <3>1. sent[x] \in 0 .. MaxRows /\ sent[x] < MaxRows
      BY <2>1 DEF R!Records, RetentionInv, R!TypeOK
    <3>2. sent' = [sent EXCEPT ![x] = sent[x] + 1] /\ UNCHANGED <<flight, batch, stored, index, losses>>
      BY <2>1 DEF R!Records
    <3>3. sent' \in [R!Traces -> 0 .. MaxRows]
      BY <3>1, <3>2 DEF RetentionInv, R!TypeOK, RetentionSane
    <3>4. item = R!Item("row", x) /\ R!Submits(item)
      BY <2>1, <3>2 DEF R!Records
    <3> QED BY <3>2, <3>3, <3>4, ItemType DEF RetentionInv, R!TypeOK
  <2>2. CASE R!Launches(x)
    <3>1. flight[x] = "none" /\ flight' = [flight EXCEPT ![x] = "flying"]
          /\ UNCHANGED <<sent, batch, stored, index, losses>>
      BY <2>2 DEF R!Launches
    <3>2. flight'[x] = "flying" /\ flight' \in [R!Traces -> {"none", "flying", "over"}]
      BY <3>1 DEF RetentionInv, R!TypeOK
    <3>3. item = R!Item("open", x) /\ R!Submits(item)
      BY <2>2, <3>1, <3>2 DEF R!Launches
    <3> QED BY <3>1, <3>2, <3>3, ItemType DEF RetentionInv, R!TypeOK
  <2>3. CASE R!Resolves(x)
    <3>1. flight[x] = "flying" /\ flight' = [flight EXCEPT ![x] = "over"]
          /\ UNCHANGED <<sent, batch, stored, index, losses>>
      BY <2>3 DEF R!Resolves
    <3>2. flight'[x] = "over" /\ flight' \in [R!Traces -> {"none", "flying", "over"}]
      BY <3>1 DEF RetentionInv, R!TypeOK
    <3>3. item = R!Item("resolve", x) /\ R!Submits(item)
      BY <2>3, <3>1, <3>2 DEF R!Resolves
    <3> QED BY <3>1, <3>2, <3>3, ItemType DEF RetentionInv, R!TypeOK
  <2> QED BY <2>1, <2>2, <2>3
<1> HIDE DEF item
<1>2. /\ line' \in Seq(R!Items) /\ astray' \subseteq R!Traces /\ astray \subseteq astray'
      /\ \/ /\ Len(line') = Len(line) + 1 /\ line'[Len(line) + 1] = item
            /\ \A i \in 1 .. Len(line) : line'[i] = line[i]
            /\ astray' = astray
         \/ line' = line /\ (item.kind = "resolve" => item.of \in astray')
  BY <1>1, RetentionSubmission
<1>3. R!TypeOK'
  BY <1>1, <1>2 DEF RetentionInv, R!TypeOK
<1>4. ASSUME NEW y \in R!Traces, flight'[y] = "over", y \notin astray'
      PROVE  /\ \A i \in 1 .. Len(line') : line'[i] = R!Item("open", y) =>
                  \E j \in 1 .. Len(line') : j > i /\ line'[j] = R!Item("resolve", y)
             /\ index'[y] = "open" \/ Holds(batch', R!Item("open", y)) =>
                  Holds(line', R!Item("resolve", y)) \/ Holds(batch', R!Item("resolve", y))
  <2>1. Len(line) \in Nat
    BY DEF RetentionInv, R!TypeOK
  <2>2. CASE flight[y] = "over"
    <3>1. /\ \A i \in 1 .. Len(line) : line[i] = R!Item("open", y) =>
               \E j \in 1 .. Len(line) : j > i /\ line[j] = R!Item("resolve", y)
          /\ index[y] = "open" \/ Holds(batch, R!Item("open", y)) =>
               Holds(line, R!Item("resolve", y)) \/ Holds(batch, R!Item("resolve", y))
      BY <1>2, <1>4, <2>2 DEF RetentionInv, Followed
    <3>2. item # R!Item("open", y)
      BY <1>1, <1>4, <2>2
    <3>3. batch' = batch /\ index' = index
      BY <1>1
    <3>4. CASE line' = line
      BY <3>1, <3>3, <3>4
    <3>5. CASE /\ Len(line') = Len(line) + 1 /\ line'[Len(line) + 1] = item
               /\ \A i \in 1 .. Len(line) : line'[i] = line[i]
      <4>1. \A i \in 1 .. Len(line') : i \in 1 .. Len(line) \/ line'[i] = item
        BY <2>1, <3>5
      <4>2. 1 .. Len(line) \subseteq 1 .. Len(line')
        BY <2>1, <3>5
      <4>3. ASSUME NEW i \in 1 .. Len(line'), line'[i] = R!Item("open", y)
            PROVE  \E j \in 1 .. Len(line') : j > i /\ line'[j] = R!Item("resolve", y)
        <5>1. i \in 1 .. Len(line) /\ line[i] = R!Item("open", y)
          BY <3>2, <3>5, <4>1, <4>3
        <5>2. PICK j \in 1 .. Len(line) : j > i /\ line[j] = R!Item("resolve", y)
          BY <3>1, <5>1
        <5> QED BY <3>5, <4>2, <5>2
      <4>4. Holds(line, R!Item("resolve", y)) => Holds(line', R!Item("resolve", y))
        BY <3>5, <4>2 DEF Holds
      <4> QED BY <3>1, <3>3, <4>3, <4>4
    <3> QED BY <1>2, <3>4, <3>5
  <2>3. CASE flight[y] # "over"
    <3>1. y = x /\ item = R!Item("resolve", x)
      BY <1>1, <1>4, <2>3
    <3>2. item.kind = "resolve" /\ item.of = y /\ item # R!Item("open", y)
      BY <3>1, ItemType
    <3>3. /\ Len(line') = Len(line) + 1 /\ line'[Len(line) + 1] = item
          /\ \A i \in 1 .. Len(line) : line'[i] = line[i]
      BY <1>2, <1>4, <3>2
    <3> QED BY <2>1, <3>1, <3>2, <3>3 DEF Holds
  <2> QED BY <2>2, <2>3
<1> QED BY <1>3, <1>4 DEF RetentionInv, Followed

LEMMA RetentionOtherSteps ==
  ASSUME RetentionSane, RetentionInv, NEW x \in R!Traces, R!ResolvesUnseen(x) \/ R!GraceEnds(x)
  PROVE  RetentionInv'
<1>1. R!TypeOK'
  <2>1. CASE R!ResolvesUnseen(x)
    BY <2>1 DEF R!ResolvesUnseen, R!Loss, RetentionSane, RetentionInv, R!TypeOK
  <2>2. CASE R!GraceEnds(x)
    BY <2>2 DEF R!GraceEnds, RetentionInv, R!TypeOK
  <2> QED BY <2>1, <2>2
<1>2. ASSUME NEW y \in R!Traces PROVE Followed(y)'
  <2>1. Followed(y)
    BY DEF RetentionInv
  <2>2. CASE R!ResolvesUnseen(x)
    <3>1. UNCHANGED <<line, batch, index>> /\ astray' = astray \cup {x}
          /\ (y # x => flight'[y] = flight[y])
      BY <2>2 DEF R!ResolvesUnseen, RetentionInv, R!TypeOK
    <3> QED BY <2>1, <3>1 DEF Followed, Holds
  <2>3. CASE R!GraceEnds(x)
    <3>1. UNCHANGED <<line, batch, flight, astray>> /\ (index'[y] = "open" => index[y] = "open")
      BY <2>3 DEF R!GraceEnds, RetentionInv, R!TypeOK
    <3> QED BY <2>1, <3>1 DEF Followed, Holds
  <2> QED BY <2>2, <2>3
<1> QED BY <1>1, <1>2 DEF RetentionInv

\* The head of the queue.
LEMMA HeadFacts ==
  ASSUME RetentionInv, line # <<>>
  PROVE  /\ Head(line) \in R!Items /\ Head(line) = line[1] /\ Tail(line) \in Seq(R!Items)
         /\ Len(line) \in Nat \ {0} /\ Len(Tail(line)) = Len(line) - 1
         /\ \A i \in 1 .. Len(Tail(line)) : Tail(line)[i] = line[i + 1]
BY DEF RetentionInv, R!TypeOK

LEMMA ApplySteps ==
  ASSUME RetentionSane, RetentionInv, R!Applies \/ R!ApplyFails
  PROVE  RetentionInv'
<1>1. line # <<>> /\ line' = Tail(line) /\ UNCHANGED <<sent, flight, stored, index>>
  BY DEF R!Applies, R!ApplyFails
<1>2. /\ Head(line) \in R!Items /\ Head(line) = line[1] /\ Tail(line) \in Seq(R!Items)
      /\ Len(line) \in Nat \ {0} /\ Len(line') = Len(line) - 1
      /\ \A i \in 1 .. Len(line') : line'[i] = line[i + 1]
  BY <1>1, HeadFacts
<1>3. ASSUME NEW y \in R!Traces, flight[y] = "over", y \notin astray
      PROVE  /\ \A i \in 1 .. Len(line') : line'[i] = R!Item("open", y) =>
                  \E j \in 1 .. Len(line') : j > i /\ line'[j] = R!Item("resolve", y)
             /\ Head(line) = R!Item("open", y) => Holds(line', R!Item("resolve", y))
             /\ Holds(line, R!Item("resolve", y)) =>
                  Head(line) = R!Item("resolve", y) \/ Holds(line', R!Item("resolve", y))
  <2>1. \A i \in 1 .. Len(line) : line[i] = R!Item("open", y) =>
          \E j \in 1 .. Len(line) : j > i /\ line[j] = R!Item("resolve", y)
    BY <1>3 DEF RetentionInv, Followed
  <2>2. ASSUME NEW j \in 1 .. Len(line), j > 1
        PROVE  j - 1 \in 1 .. Len(line') /\ line'[j - 1] = line[j]
    BY <1>2, <2>2
  <2>3. ASSUME NEW i \in 1 .. Len(line'), line'[i] = R!Item("open", y)
        PROVE  \E j \in 1 .. Len(line') : j > i /\ line'[j] = R!Item("resolve", y)
    <3>1. i + 1 \in 1 .. Len(line) /\ line[i + 1] = R!Item("open", y)
      BY <1>2, <2>3
    <3>2. PICK j \in 1 .. Len(line) : j > i + 1 /\ line[j] = R!Item("resolve", y)
      BY <2>1, <3>1
    <3>3. j - 1 \in 1 .. Len(line') /\ line'[j - 1] = R!Item("resolve", y) /\ j - 1 > i
      BY <2>2, <2>3, <3>2
    <3> QED BY <3>3
  <2>4. ASSUME Head(line) = R!Item("open", y) PROVE Holds(line', R!Item("resolve", y))
    <3>1. PICK j \in 1 .. Len(line) : j > 1 /\ line[j] = R!Item("resolve", y)
      BY <1>2, <2>1, <2>4
    <3> QED BY <2>2, <3>1 DEF Holds
  <2>5. ASSUME Holds(line, R!Item("resolve", y)), Head(line) # R!Item("resolve", y)
        PROVE  Holds(line', R!Item("resolve", y))
    <3>1. PICK j \in 1 .. Len(line) : line[j] = R!Item("resolve", y)
      BY <2>5 DEF Holds
    <3>2. j > 1
      BY <1>2, <2>5, <3>1
    <3> QED BY <2>2, <3>1, <3>2 DEF Holds
  <2> QED BY <2>3, <2>4, <2>5
<1>4. ASSUME NEW y \in R!Traces, flight[y] = "over", y \notin astray
      PROVE  index[y] = "open" \/ Holds(batch, R!Item("open", y)) =>
               Holds(line, R!Item("resolve", y)) \/ Holds(batch, R!Item("resolve", y))
  BY <1>4 DEF RetentionInv, Followed
<1>5. CASE R!Applies
  <2>1. batch' = Append(batch, Head(line)) /\ UNCHANGED <<losses, astray>>
    BY <1>5 DEF R!Applies
  <2>2. batch' \in Seq(R!Items) /\ Len(batch') = Len(batch) + 1 /\ Len(batch) \in Nat
        /\ batch'[Len(batch) + 1] = Head(line)
        /\ \A i \in 1 .. Len(batch) : batch'[i] = batch[i]
    BY <1>2, <2>1 DEF RetentionInv, R!TypeOK
  <2>3. \A item : Holds(batch', item) <=> Holds(batch, item) \/ item = Head(line)
    BY <2>2 DEF Holds
  <2>4. R!TypeOK'
    BY <1>1, <1>2, <2>1, <2>2 DEF RetentionInv, R!TypeOK
  <2>5. ASSUME NEW y \in R!Traces PROVE Followed(y)'
    BY <1>1, <1>3, <1>4, <2>1, <2>3 DEF Followed
  <2> QED BY <2>4, <2>5 DEF RetentionInv
<1>6. CASE R!ApplyFails
  <2>1. batch' = batch /\ astray' = R!Lost({Head(line)}) /\ losses' = losses + 1 /\ losses < MaxLosses
    BY <1>6 DEF R!ApplyFails, R!Loss
  <2>2. astray \subseteq astray' /\ astray' \subseteq R!Traces
        /\ \A y : Head(line) = R!Item("resolve", y) => y \in astray'
    BY <1>2, <2>1, ItemType DEF R!Lost, RetentionInv, R!TypeOK
  <2>3. R!TypeOK'
    <3>1. losses' \in 0 .. MaxLosses
      BY <2>1 DEF RetentionInv, R!TypeOK, RetentionSane
    <3>2. line' \in Seq(R!Items)
      BY <1>1, <1>2
    <3> QED BY <1>1, <2>1, <2>2, <3>1, <3>2 DEF RetentionInv, R!TypeOK
  <2>4. ASSUME NEW y \in R!Traces PROVE Followed(y)'
    BY <1>1, <1>3, <1>4, <2>1, <2>2 DEF Followed
  <2> QED BY <2>3, <2>4 DEF RetentionInv
<1> QED BY <1>5, <1>6

LEMMA CommitSteps ==
  ASSUME RetentionSane, RetentionInv,
         R!Commits \/ \E cutoff \in 0 .. LastTrace + 1 : R!CommitsAndPrunes(cutoff)
  PROVE  RetentionInv'
<1>1. batch' = <<>> /\ UNCHANGED <<sent, flight, line, losses, astray>>
  BY DEF R!Commits, R!CommitsAndPrunes
<1>2. R!StoredWith \in [R!Traces -> Nat]
      /\ R!IndexWith \in [R!Traces -> {"none", "open", "resolved", "past"}]
  BY StoredType, IndexType DEF RetentionInv
<1>3. /\ stored' \in [R!Traces -> Nat]
      /\ index' \in [R!Traces -> {"none", "open", "resolved", "past"}]
      /\ \A y \in R!Traces : index'[y] = "open" => R!IndexWith[y] = "open"
  BY <1>2 DEF R!Commits, R!CommitsAndPrunes
<1>4. R!TypeOK'
  BY <1>1, <1>3 DEF RetentionInv, R!TypeOK
<1>5. ASSUME NEW y \in R!Traces PROVE Followed(y)'
  <2>1. Followed(y)
    BY DEF RetentionInv
  <2>2. R!IndexWith[y] = "open" =>
          /\ ~Holds(batch, R!Item("resolve", y))
          /\ index[y] = "open" \/ Holds(batch, R!Item("open", y))
    BY DEF R!IndexWith, R!In, Holds
  <2>3. ~Holds(batch', R!Item("open", y))
    BY <1>1 DEF Holds
  <2> QED BY <1>1, <1>3, <2>1, <2>2, <2>3 DEF Followed, Holds
<1> QED BY <1>4, <1>5 DEF RetentionInv

LEMMA RestartStep == ASSUME RetentionSane, RetentionInv, R!Restarts PROVE RetentionInv'
<1>1. /\ line' = <<>> /\ batch' = <<>> /\ astray' = R!Lost(R!Ranged(line \o batch))
      /\ losses' = losses + 1 /\ losses < MaxLosses
      /\ UNCHANGED <<sent, flight, stored, index>>
  BY DEF R!Restarts, R!Loss
<1>2. line \in Seq(R!Items) /\ batch \in Seq(R!Items) /\ astray \subseteq R!Traces
  BY DEF RetentionInv, R!TypeOK
<1>3. \A item : item \in R!Ranged(line \o batch) <=> Holds(line, item) \/ Holds(batch, item)
  <2>1. Len(line \o batch) = Len(line) + Len(batch) /\ Len(line) \in Nat /\ Len(batch) \in Nat
        /\ \A i \in 1 .. Len(line) + Len(batch) :
             (line \o batch)[i] = IF i <= Len(line) THEN line[i] ELSE batch[i - Len(line)]
    BY <1>2
  <2>2. ASSUME NEW i \in 1 .. Len(batch)
        PROVE  Len(line) + i \in 1 .. Len(line) + Len(batch)
               /\ (line \o batch)[Len(line) + i] = batch[i]
    BY <2>1
  <2>3. ASSUME NEW i \in 1 .. Len(line)
        PROVE  i \in 1 .. Len(line) + Len(batch) /\ (line \o batch)[i] = line[i]
    BY <2>1
  <2>4. ASSUME NEW i \in 1 .. Len(line) + Len(batch)
        PROVE  Holds(line, (line \o batch)[i]) \/ Holds(batch, (line \o batch)[i])
    <3>1. CASE i <= Len(line)
      BY <2>1, <3>1 DEF Holds
    <3>2. CASE i > Len(line)
      <4>1. i - Len(line) \in 1 .. Len(batch) /\ (line \o batch)[i] = batch[i - Len(line)]
        BY <2>1, <3>2
      <4> QED BY <4>1 DEF Holds
    <3> QED BY <2>1, <3>1, <3>2
  <2>5. R!Ranged(line \o batch) = {(line \o batch)[i] : i \in 1 .. Len(line) + Len(batch)}
    BY <2>1 DEF R!Ranged
  <2>6. ASSUME NEW item, item \in R!Ranged(line \o batch)
        PROVE  Holds(line, item) \/ Holds(batch, item)
    BY <2>4, <2>5, <2>6
  <2>7. ASSUME NEW item, Holds(line, item) \/ Holds(batch, item)
        PROVE  item \in R!Ranged(line \o batch)
    <3>1. CASE Holds(line, item)
      BY <2>3, <2>5, <3>1 DEF Holds
    <3>2. CASE Holds(batch, item)
      BY <2>2, <2>5, <3>2 DEF Holds
    <3> QED BY <2>7, <3>1, <3>2
  <2> QED BY <2>6, <2>7
<1>4. ASSUME NEW item \in R!Ranged(line \o batch) PROVE item \in R!Items
  BY <1>2, <1>3 DEF Holds
<1>5. /\ astray \subseteq astray' /\ astray' \subseteq R!Traces
      /\ \A y \in R!Traces : Holds(line, R!Item("resolve", y)) \/ Holds(batch, R!Item("resolve", y))
                              => y \in astray'
  <2>1. astray \subseteq astray'
    BY <1>1 DEF R!Lost
  <2>2. astray' \subseteq R!Traces
    BY <1>1, <1>2, <1>4, ItemType DEF R!Lost
  <2>3. ASSUME NEW y \in R!Traces, R!Item("resolve", y) \in R!Ranged(line \o batch)
        PROVE  y \in astray'
    BY <1>1, <2>3, ItemType DEF R!Lost
  <2> QED BY <1>3, <2>1, <2>2, <2>3
<1>6. R!TypeOK'
  BY <1>1, <1>5 DEF RetentionInv, R!TypeOK, RetentionSane
<1>7. ASSUME NEW y \in R!Traces PROVE Followed(y)'
  <2>1. Followed(y)
    BY DEF RetentionInv
  <2>2. ~Holds(batch', R!Item("open", y)) /\ Len(line') = 0
    BY <1>1 DEF Holds
  <2> QED BY <1>1, <1>5, <2>1, <2>2 DEF Followed
<1> QED BY <1>6, <1>7 DEF RetentionInv

LEMMA RetentionStepInv == RetentionSane /\ RetentionInv /\ [R!Next]_(R!vars) => RetentionInv'
<1> SUFFICES ASSUME RetentionSane, RetentionInv, [R!Next]_(R!vars) PROVE RetentionInv'
  OBVIOUS
<1>1. CASE UNCHANGED R!vars
  BY <1>1 DEF R!vars, RetentionInv, R!TypeOK, Followed, Holds
<1>2. CASE R!Next
  BY <1>2, SubmitSteps, RetentionOtherSteps, ApplySteps, CommitSteps, RestartStep DEF R!Next
<1> QED BY <1>1, <1>2

LEMMA InvReclaimable == ASSUME RetentionInv PROVE R!Reclaimable
<1> SUFFICES ASSUME NEW x \in R!Traces, flight[x] = "over", index[x] = "open", x \notin astray
             PROVE  R!Item("resolve", x) \in R!Ranged(line \o batch)
  BY DEF R!Reclaimable
<1>1. Holds(line, R!Item("resolve", x)) \/ Holds(batch, R!Item("resolve", x))
  BY DEF RetentionInv, Followed
<1>2. line \in Seq(R!Items) /\ batch \in Seq(R!Items)
  BY DEF RetentionInv, R!TypeOK
<1>3. Len(line \o batch) = Len(line) + Len(batch) /\ Len(line) \in Nat /\ Len(batch) \in Nat
      /\ \A i \in 1 .. Len(line) + Len(batch) :
           (line \o batch)[i] = IF i <= Len(line) THEN line[i] ELSE batch[i - Len(line)]
  BY <1>2
<1>4. CASE Holds(line, R!Item("resolve", x))
  BY <1>3, <1>4 DEF Holds, R!Ranged
<1>5. CASE Holds(batch, R!Item("resolve", x))
  <2>1. PICK i \in 1 .. Len(batch) : batch[i] = R!Item("resolve", x)
    BY <1>5 DEF Holds
  <2>2. Len(line) + i \in 1 .. Len(line) + Len(batch)
        /\ (line \o batch)[Len(line) + i] = batch[i]
    BY <1>3
  <2> QED BY <1>3, <2>1, <2>2 DEF R!Ranged
<1> QED BY <1>1, <1>4, <1>5

\* Only retention takes rows, and what it takes is not protected.
LEMMA StepSpares == RetentionSane /\ RetentionInv /\ [R!Next]_(R!vars) => R!Spares
<1> SUFFICES ASSUME RetentionSane, RetentionInv, [R!Next]_(R!vars), NEW x \in R!Traces, stored'[x] < stored[x]
             PROVE  stored'[x] = 0 /\ index'[x] = "none"
                    /\ ~(flight[x] = "flying" /\ index[x] = "open")
  BY DEF R!Spares
<1>1. stored[x] \in Nat /\ R!StoredWith[x] \in Nat /\ R!StoredWith[x] >= stored[x]
  BY StoredType DEF RetentionInv, R!TypeOK
<1>2. stored' # stored
  BY <1>1
<1>3. ~R!Commits
  BY <1>1 DEF R!Commits
<1>4. PICK cutoff \in 0 .. LastTrace + 1 : R!CommitsAndPrunes(cutoff)
  BY <1>2, <1>3 DEF R!Next, R!vars, R!Records, R!Launches, R!Resolves, R!ResolvesUnseen,
     R!GraceEnds, R!Applies,
                    R!ApplyFails, R!Restarts
<1>5. x \in R!Pruned(cutoff)
  BY <1>1, <1>4 DEF R!CommitsAndPrunes
<1>6. stored'[x] = 0 /\ index'[x] = "none"
  BY <1>4, <1>5 DEF R!CommitsAndPrunes
<1>7. R!IndexWith[x] \notin {"open", "resolved"}
  BY <1>5 DEF R!Pruned, R!Protected
<1>8. index[x] # "open"
  BY <1>7 DEF R!IndexWith
<1> QED BY <1>6, <1>8

\* A prune takes a trace whole with its index row, and none that is in flight and
\* indexed.
THEOREM NeverInFlight == RetentionSane => (R!Spec => R!Spared)
<1> SUFFICES ASSUME RetentionSane PROVE R!Spec => R!Spared
  OBVIOUS
<1>1. R!Init => RetentionInv
  BY RetentionInitInv
<1>2. RetentionInv /\ [R!Next]_(R!vars) => RetentionInv'
  BY RetentionStepInv
<1>3. RetentionInv /\ [R!Next]_(R!vars) => [R!Spares]_(R!vars)
  BY StepSpares
<1> QED BY <1>1, <1>2, <1>3, PTL DEF R!Spec, R!Spared

\* An exchange that ended is protected only while its resolution is on the way or
\* was lost.
THEOREM NotForever == RetentionSane => (R!Spec => []R!Reclaimable)
<1> SUFFICES ASSUME RetentionSane PROVE R!Spec => []R!Reclaimable
  OBVIOUS
<1>1. R!Init => RetentionInv
  BY RetentionInitInv
<1>2. RetentionInv /\ [R!Next]_(R!vars) => RetentionInv'
  BY RetentionStepInv
<1>3. RetentionInv => R!Reclaimable
  BY InvReclaimable
<1> QED BY <1>1, <1>2, <1>3, PTL DEF R!Spec

-----------------------------------------------------------------------------
(* The sampler of metrics.                                                 *)

\* The bounds are numbers, and what the sampler writes from one heartbeat to
\* the next fits in the store.
MetricsSane ==
  /\ IsFiniteSet(Series) /\ Absent \notin Nat
  /\ MaxValue \in Nat /\ HeartbeatEvery \in Nat \ {0} /\ MaxSamples \in Nat /\ MaxFaults \in Nat
  /\ HeartbeatEvery * Cardinality(Series) <= MaxSamples

Points == [Series -> M!Values \cup {Absent}]

\* The cycles since the last heartbeat, with it; before the first a full turn.
Age == IF cycle = 0 THEN HeartbeatEvery ELSE cycle

\* What the sampler skips was a value once; the reader finds it, and the rows
\* from its snapshot on are those of the cycles since the heartbeat.
Fresh(s) ==
  last[s] # Absent =>
    /\ value[s] # Absent
    /\ sampling /\ ~unhealed =>
         /\ last[s] = M!Newest(sampled, newest)[s]
         /\ M!Behind(sampled, behind)[s] <= Age * Cardinality(Series)

MetricsInv == M!TypeOK /\ \A s \in Series : Fresh(s)

LEMMA CountType ==
  ASSUME MetricsSane, NEW points
  PROVE  M!Count(points) \in Nat /\ M!Count(points) <= Cardinality(Series) /\ Cardinality(Series) \in Nat
<1> DEFINE S == {s \in Series : points[s] # Absent}
<1>1. S \subseteq Series /\ IsFiniteSet(Series)
  BY DEF MetricsSane
<1>2. IsFiniteSet(S) /\ Cardinality(S) <= Cardinality(Series)
  BY <1>1, FS_Subset
<1>3. Cardinality(S) \in Nat /\ Cardinality(Series) \in Nat
  BY <1>1, <1>2, FS_CardinalityType
<1> QED BY <1>2, <1>3, OneSize DEF M!Count

\* The rows of k cycles, and of one more.
LEMMA Products ==
  ASSUME MetricsSane, NEW k \in 1 .. HeartbeatEvery
  PROVE  /\ k * Cardinality(Series) \in Nat
         /\ k * Cardinality(Series) + Cardinality(Series) = (k + 1) * Cardinality(Series)
         /\ k * Cardinality(Series) <= MaxSamples
         /\ Cardinality(Series) <= k * Cardinality(Series)
         /\ 1 * Cardinality(Series) = Cardinality(Series)
<1> DEFINE N == Cardinality(Series)
<1>1. N \in Nat /\ HeartbeatEvery \in Nat /\ HeartbeatEvery * N <= MaxSamples /\ MaxSamples \in Nat
  BY FS_CardinalityType DEF MetricsSane
<1> HIDE DEF N
<1>2. k * N \in Nat /\ k * N + N = (k + 1) * N
  BY <1>1
<1>3. (HeartbeatEvery - k) * N \in Nat /\ (k - 1) * N \in Nat
  BY <1>1
<1>4. HeartbeatEvery * N = k * N + (HeartbeatEvery - k) * N /\ k * N = N + (k - 1) * N
  BY <1>1
<1>5. k * N <= MaxSamples /\ N <= k * N /\ 1 * N = N
  BY <1>1, <1>2, <1>3, <1>4
<1> QED BY <1>2, <1>5 DEF N

LEMMA MetricsInitInv == ASSUME MetricsSane, M!Init PROVE MetricsInv
<1>1. M!TypeOK
  <2>1. M!Silence \in Points
    BY DEF M!Silence, Points
  <2>2. [s \in Series |-> 0] \in [Series -> Nat]
    OBVIOUS
  <2>3. 0 \in 0 .. (HeartbeatEvery - 1) /\ 0 \in 0 .. MaxFaults
    BY DEF MetricsSane
  <2> QED BY <2>1, <2>2, <2>3 DEF M!Init, M!TypeOK, Points
<1>2. ASSUME NEW s \in Series PROVE Fresh(s)
  BY DEF M!Init, M!Silence, Fresh
<1> QED BY <1>1, <1>2 DEF MetricsInv

\* What a cycle remembers, inserts and counts.
LEMMA CycleFacts ==
  ASSUME MetricsSane, MetricsInv, M!NextCycle, M!Remembers, UNCHANGED <<value, sampling>>
  PROVE  /\ last' \in Points /\ M!Sampled \in Points
         /\ cycle' \in 0 .. (HeartbeatEvery - 1)
         /\ \A s \in Series : last'[s] # Absent => value[s] # Absent
         /\ \A s \in Series : M!Sampled[s] = Absent \/ M!Sampled[s] = last'[s]
         /\ \A s \in Series : M!Sampled[s] = Absent => last'[s] = last[s]
         /\ M!Forced => \A s \in Series : last'[s] # Absent => M!Sampled[s] = last'[s]
         /\ Age \in 1 .. HeartbeatEvery
         /\ ~M!Forced => Age' = Age + 1 /\ Age' \in 1 .. HeartbeatEvery
         /\ Age' \in 1 .. HeartbeatEvery
<1>1. /\ value \in Points /\ last \in Points /\ cycle \in 0 .. (HeartbeatEvery - 1)
      /\ HeartbeatEvery \in Nat \ {0}
      /\ \A s \in Series : last[s] # Absent => value[s] # Absent
  BY DEF MetricsInv, M!TypeOK, MetricsSane, Fresh, Points
<1>2. /\ \A s \in Series : last'[s] = IF s \in M!Due THEN value[s] ELSE last[s]
      /\ \A s \in Series : M!Sampled[s] = IF s \in M!Due THEN value[s] ELSE Absent
      /\ last' \in Points /\ M!Sampled \in Points
  BY <1>1 DEF M!Remembers, M!Sampled, Points
<1>3. \A s \in Series : s \in M!Due <=> value[s] # Absent /\ (M!Forced \/ last[s] # value[s])
  BY DEF M!Due
<1>4. cycle' = (cycle + 1) % HeartbeatEvery
  BY DEF M!NextCycle
<1>5. cycle' = IF cycle + 1 = HeartbeatEvery THEN 0 ELSE cycle + 1
  <2>1. CASE cycle + 1 = HeartbeatEvery
    BY <1>1, <1>4, <2>1
  <2>2. CASE cycle + 1 < HeartbeatEvery
    BY <1>1, <1>4, <2>2
  <2> QED BY <1>1, <2>1, <2>2
<1>6. /\ cycle' \in 0 .. (HeartbeatEvery - 1)
      /\ Age \in 1 .. HeartbeatEvery /\ Age' \in 1 .. HeartbeatEvery
      /\ ~M!Forced => Age' = Age + 1
  BY <1>1, <1>5 DEF Age, M!Forced
<1> QED BY <1>1, <1>2, <1>3, <1>6

\* A store behind a snapshot: its own series begin anew, the others go on.
LEMMA BehindFacts ==
  ASSUME MetricsSane, NEW points, NEW old \in [Series -> Nat]
  PROVE  /\ M!Behind(points, old) \in [Series -> Nat]
         /\ \A s \in Series : points[s] # Absent => M!Behind(points, old)[s] <= Cardinality(Series)
         /\ \A s \in Series : M!Behind(points, old)[s] <= old[s] + Cardinality(Series)
         /\ \A s \in Series : points[s] = Absent => old[s] <= M!Behind(points, old)[s]
BY CountType DEF M!Behind

LEMMA NewestFacts ==
  ASSUME NEW points, NEW old
  PROVE  /\ \A s \in Series : points[s] # Absent => M!Newest(points, old)[s] = points[s]
         /\ \A s \in Series : points[s] = Absent => M!Newest(points, old)[s] = old[s]
         /\ points \in Points /\ old \in Points => M!Newest(points, old) \in Points
BY DEF M!Newest, Points

LEMMA SilenceFacts ==
  ASSUME MetricsSane, NEW old \in [Series -> Nat], NEW points \in Points
  PROVE  /\ M!Silence \in Points
         /\ M!Behind(M!Silence, old) = old /\ M!Newest(M!Silence, points) = points
<1>1. M!Silence \in Points /\ \A s \in Series : M!Silence[s] = Absent
  BY DEF M!Silence, Points
<1>2. M!Count(M!Silence) = 0
  <2>1. {s \in Series : M!Silence[s] # Absent} = {}
    BY <1>1
  <2> QED BY <2>1, FS_EmptySet, OneSize DEF M!Count
<1>3. M!Behind(M!Silence, old) = old
  BY <1>1, <1>2 DEF M!Behind
<1>4. M!Newest(M!Silence, points) = points
  BY <1>1 DEF M!Newest, Points
<1> QED BY <1>1, <1>3, <1>4

\* A cycle that goes through.
LEMMA CycleStep == ASSUME MetricsSane, MetricsInv, M!Cycles PROVE MetricsInv'
<1> DEFINE view == M!Newest(M!Sampled, M!Newest(sampled, newest))
           past == M!Behind(M!Sampled, M!Behind(sampled, behind))
<1>1. /\ M!NextCycle /\ M!Remembers /\ sampled' = M!Silence /\ UNCHANGED <<value, sampling, faults>>
      /\ behind' = [s \in Series |-> IF past[s] > MaxSamples THEN MaxSamples + 1 ELSE past[s]]
      /\ newest' = view \/ newest' = M!Trimmed(view, behind', MaxSamples)
      /\ unhealed' = (unhealed /\ ~M!Forced)
  BY DEF M!Cycles, M!Written, M!Counted
<1>2. /\ sampled \in Points /\ newest \in Points /\ behind \in [Series -> Nat]
      /\ value \in Points /\ sampling \in BOOLEAN /\ unhealed \in BOOLEAN /\ MaxSamples \in Nat
  BY DEF MetricsInv, M!TypeOK, Points, MetricsSane
<1>3. /\ last' \in Points /\ M!Sampled \in Points
      /\ cycle' \in 0 .. (HeartbeatEvery - 1)
      /\ \A s \in Series : last'[s] # Absent => value[s] # Absent
      /\ \A s \in Series : M!Sampled[s] = Absent \/ M!Sampled[s] = last'[s]
      /\ \A s \in Series : M!Sampled[s] = Absent => last'[s] = last[s]
      /\ M!Forced => \A s \in Series : last'[s] # Absent => M!Sampled[s] = last'[s]
      /\ Age \in 1 .. HeartbeatEvery
      /\ ~M!Forced => Age' = Age + 1 /\ Age' \in 1 .. HeartbeatEvery
      /\ Age' \in 1 .. HeartbeatEvery
  BY <1>1, CycleFacts
<1>4. M!Behind(sampled, behind) \in [Series -> Nat]
  BY <1>2, BehindFacts
<1>5. /\ past \in [Series -> Nat]
      /\ \A s \in Series : M!Sampled[s] # Absent => past[s] <= Cardinality(Series)
      /\ \A s \in Series : past[s] <= M!Behind(sampled, behind)[s] + Cardinality(Series)
  BY <1>4, BehindFacts
<1>6. M!Newest(sampled, newest) \in Points
  BY <1>2, NewestFacts
<1>7. /\ view \in Points
      /\ \A s \in Series : M!Sampled[s] # Absent => view[s] = M!Sampled[s]
      /\ \A s \in Series : M!Sampled[s] = Absent => view[s] = M!Newest(sampled, newest)[s]
  BY <1>3, <1>6, NewestFacts
<1> HIDE DEF view, past
<1>8. /\ behind' \in [Series -> Nat]
      /\ \A s \in Series : past[s] <= MaxSamples => behind'[s] = past[s]
  BY <1>1, <1>2, <1>5
<1>9. /\ newest' \in Points
      /\ \A s \in Series : past[s] <= MaxSamples => newest'[s] = view[s]
  <2>1. CASE newest' = view
    BY <1>7, <2>1
  <2>2. CASE newest' = M!Trimmed(view, behind', MaxSamples)
    <3>1. newest' = [s \in Series |-> IF behind'[s] > MaxSamples THEN Absent ELSE view[s]]
      BY <2>2 DEF M!Trimmed
    <3>2. \A s \in Series : view[s] \in M!Values \cup {Absent}
      BY <1>7 DEF Points
    <3> QED BY <1>2, <1>5, <1>8, <3>1, <3>2 DEF Points
  <2> QED BY <1>1, <2>1, <2>2
<1>10. M!Silence \in Points /\ M!Behind(M!Silence, behind') = behind' /\ M!Newest(M!Silence, newest') = newest'
  BY <1>8, <1>9, SilenceFacts
<1>11. M!TypeOK'
  BY <1>1, <1>2, <1>3, <1>8, <1>9, <1>10 DEF MetricsInv, M!TypeOK, Points
<1>12. ASSUME NEW s \in Series, last'[s] # Absent, sampling', ~unhealed'
       PROVE  past[s] <= Age' * Cardinality(Series) /\ view[s] = last'[s]
  <2>1. Cardinality(Series) \in Nat /\ past[s] \in Nat /\ M!Behind(sampled, behind)[s] \in Nat
    BY <1>4, <1>5, CountType
  <2>2. Cardinality(Series) <= Age' * Cardinality(Series) /\ Age' * Cardinality(Series) \in Nat
    BY <1>3, Products
  <2>3. CASE M!Sampled[s] # Absent
    BY <1>3, <1>5, <1>7, <2>1, <2>2, <2>3
  <2>4. CASE M!Sampled[s] = Absent
    <3>1. ~M!Forced /\ last[s] = last'[s]
      BY <1>3, <1>12, <2>4
    <3>2. ~unhealed /\ sampling
      BY <1>1, <1>12, <3>1
    <3>3. last[s] = M!Newest(sampled, newest)[s] /\ M!Behind(sampled, behind)[s] <= Age * Cardinality(Series)
      BY <1>12, <3>1, <3>2 DEF MetricsInv, Fresh
    <3>4. Age' * Cardinality(Series) = Age * Cardinality(Series) + Cardinality(Series)
          /\ Age * Cardinality(Series) \in Nat
      BY <1>3, <3>1, Products
    <3> QED BY <1>5, <1>7, <2>1, <2>2, <2>4, <3>1, <3>3, <3>4
  <2> QED BY <2>3, <2>4
<1>13. ASSUME NEW s \in Series PROVE Fresh(s)'
  <2>1. last'[s] # Absent => value'[s] # Absent
    BY <1>1, <1>3
  <2>2. ASSUME last'[s] # Absent, sampling', ~unhealed'
        PROVE  last'[s] = newest'[s] /\ behind'[s] <= Age' * Cardinality(Series)
    <3>1. past[s] <= Age' * Cardinality(Series) /\ view[s] = last'[s]
      BY <1>12, <2>2
    <3>2. Age' * Cardinality(Series) <= MaxSamples /\ Age' * Cardinality(Series) \in Nat
      BY <1>3, Products
    <3>3. past[s] <= MaxSamples
      BY <1>2, <1>5, <3>1, <3>2
    <3> QED BY <1>8, <1>9, <3>1, <3>3
  <2> QED BY <1>1, <1>10, <2>1, <2>2 DEF Fresh
<1> QED BY <1>11, <1>13 DEF MetricsInv

\* A cycle that prunes by size: whatever it takes, the next heartbeat heals it.
LEMMA OversizeStep == ASSUME MetricsSane, MetricsInv, M!CyclesOversize PROVE MetricsInv'
<1>1. /\ M!NextCycle /\ M!Remembers /\ sampled' = M!Silence
      /\ UNCHANGED <<value, sampling, faults>>
      /\ behind' = M!Counted /\ unhealed' = TRUE
  BY DEF M!CyclesOversize
<1>2. PICK left \in 0 .. MaxSamples : newest' = M!Trimmed(M!Written, M!Counted, left)
  BY DEF M!CyclesOversize
<1>3. /\ sampled \in Points /\ newest \in Points /\ behind \in [Series -> Nat]
      /\ value \in Points /\ sampling \in BOOLEAN /\ MaxSamples \in Nat
  BY DEF MetricsInv, M!TypeOK, Points, MetricsSane
<1>4. /\ last' \in Points /\ M!Sampled \in Points /\ cycle' \in 0 .. (HeartbeatEvery - 1)
      /\ \A s \in Series : last'[s] # Absent => value[s] # Absent
  BY <1>1, CycleFacts
<1>5. M!Behind(M!Sampled, M!Behind(sampled, behind)) \in [Series -> Nat]
  BY <1>3, BehindFacts
<1>6. M!Counted \in [Series -> Nat]
  BY <1>3, <1>5 DEF M!Counted
<1>7. M!Written \in Points
  BY <1>3, <1>4, NewestFacts DEF M!Written
<1>8. newest' \in Points
  <2>1. \A s \in Series : M!Written[s] \in M!Values \cup {Absent}
    BY <1>7 DEF Points
  <2> QED BY <1>2, <2>1 DEF M!Trimmed, Points
<1>9. M!Silence \in Points
  BY <1>3, SilenceFacts
<1>10. M!TypeOK'
  BY <1>1, <1>3, <1>4, <1>6, <1>8, <1>9 DEF MetricsInv, M!TypeOK, Points
<1> QED BY <1>1, <1>4, <1>10 DEF MetricsInv, Fresh

\* The cycles that raise before their rows are in, and the one after a sleep.
LEMMA FailedSteps ==
  ASSUME MetricsSane, MetricsInv, M!DefsFail \/ M!InsertFails \/ M!CyclesAfterSleep
  PROVE  MetricsInv'
<1>1. /\ value \in Points /\ last \in Points /\ sampled \in Points /\ newest \in Points
      /\ behind \in [Series -> Nat] /\ cycle \in 0 .. (HeartbeatEvery - 1)
      /\ HeartbeatEvery \in Nat \ {0} /\ sampling \in BOOLEAN
  BY DEF MetricsInv, M!TypeOK, Points, MetricsSane
<1>2. faults' \in 0 .. MaxFaults
  BY DEF M!DefsFail, M!InsertFails, M!CyclesAfterSleep, M!Fault, MetricsInv, M!TypeOK, MetricsSane
<1>3. CASE M!DefsFail
  <2>1. unhealed' = TRUE /\ cycle' = (cycle + 1) % HeartbeatEvery
        /\ UNCHANGED <<value, last, sampling, sampled, newest, behind>>
    BY <1>3 DEF M!DefsFail, M!NextCycle
  <2>2. cycle' \in 0 .. (HeartbeatEvery - 1)
    BY <1>1, <2>1
  <2>3. M!TypeOK'
    BY <1>2, <2>1, <2>2 DEF MetricsInv, M!TypeOK
  <2> QED BY <2>1, <2>3 DEF MetricsInv, Fresh
<1>4. CASE M!InsertFails \/ M!CyclesAfterSleep
  <2>1. M!NextCycle /\ M!Remembers /\ UNCHANGED <<value, sampling>>
    BY <1>4 DEF M!InsertFails, M!CyclesAfterSleep
  <2>2. /\ last' \in Points /\ M!Sampled \in Points
        /\ cycle' \in 0 .. (HeartbeatEvery - 1)
        /\ \A s \in Series : last'[s] # Absent => value[s] # Absent
        /\ M!Forced => \A s \in Series : last'[s] # Absent => M!Sampled[s] = last'[s]
        /\ Age' \in 1 .. HeartbeatEvery
    BY <2>1, CycleFacts
  <2>3. CASE M!InsertFails
    <3>1. unhealed' = TRUE /\ UNCHANGED <<sampled, newest, behind>>
      BY <2>3 DEF M!InsertFails
    <3>2. M!TypeOK'
      BY <1>2, <2>1, <2>2, <3>1 DEF MetricsInv, M!TypeOK, Points
    <3> QED BY <2>1, <2>2, <3>1, <3>2 DEF MetricsInv, Fresh
  <2>4. CASE M!CyclesAfterSleep
    <3>1. /\ unhealed' = ~M!Forced /\ sampled' = M!Silence /\ newest' = M!Sampled
          /\ behind' = [s \in Series |-> M!Count(M!Sampled)]
      BY <2>4 DEF M!CyclesAfterSleep
    <3>2. M!Count(M!Sampled) \in Nat /\ M!Count(M!Sampled) <= Cardinality(Series)
          /\ Cardinality(Series) \in Nat
      BY CountType
    <3>3. behind' \in [Series -> Nat] /\ \A s \in Series : behind'[s] = M!Count(M!Sampled)
      BY <3>1, <3>2
    <3>4. M!Silence \in Points /\ M!Behind(M!Silence, behind') = behind'
          /\ M!Newest(M!Silence, newest') = newest'
      BY <2>2, <3>1, <3>3, SilenceFacts
    <3>5. M!TypeOK'
      <4>1. unhealed' \in BOOLEAN
        BY <3>1 DEF M!Forced
      <4> QED BY <1>1, <1>2, <2>1, <2>2, <3>1, <3>3, <3>4, <4>1 DEF MetricsInv, M!TypeOK, Points
    <3>6. Cardinality(Series) <= Age' * Cardinality(Series) /\ Age' * Cardinality(Series) \in Nat
      BY <2>2, Products
    <3>7. ASSUME NEW s \in Series PROVE Fresh(s)'
      <4>1. behind'[s] <= Age' * Cardinality(Series)
        BY <3>2, <3>3, <3>6
      <4> QED BY <2>1, <2>2, <3>1, <3>4, <4>1 DEF Fresh
    <3> QED BY <3>5, <3>7 DEF MetricsInv
  <2> QED BY <1>4, <2>3, <2>4
<1> QED BY <1>3, <1>4

\* A cycle whose commit raises: its rows are behind those that wait.
LEMMA WaitingStep == ASSUME MetricsSane, MetricsInv, M!CommitFails PROVE MetricsInv'
<1>1. /\ M!NextCycle /\ M!Remembers /\ sampled' = M!Newest(M!Sampled, sampled)
      /\ UNCHANGED <<value, sampling, newest, behind, unhealed>>
  BY DEF M!CommitFails
<1>2. /\ sampled \in Points /\ newest \in Points /\ behind \in [Series -> Nat]
      /\ value \in Points
  BY DEF MetricsInv, M!TypeOK, Points
<1>3. faults' \in 0 .. MaxFaults
  BY DEF M!CommitFails, M!Fault, MetricsInv, M!TypeOK, MetricsSane
<1>4. /\ last' \in Points /\ M!Sampled \in Points
      /\ cycle' \in 0 .. (HeartbeatEvery - 1)
      /\ \A s \in Series : last'[s] # Absent => value[s] # Absent
      /\ \A s \in Series : M!Sampled[s] = Absent \/ M!Sampled[s] = last'[s]
      /\ \A s \in Series : M!Sampled[s] = Absent => last'[s] = last[s]
      /\ M!Forced => \A s \in Series : last'[s] # Absent => M!Sampled[s] = last'[s]
      /\ Age \in 1 .. HeartbeatEvery
      /\ ~M!Forced => Age' = Age + 1 /\ Age' \in 1 .. HeartbeatEvery
      /\ Age' \in 1 .. HeartbeatEvery
  BY <1>1, CycleFacts
<1>5. /\ sampled' \in Points
      /\ \A s \in Series : M!Sampled[s] # Absent => sampled'[s] = M!Sampled[s]
      /\ \A s \in Series : M!Sampled[s] = Absent => sampled'[s] = sampled[s]
  BY <1>1, <1>2, <1>4, NewestFacts
<1>6. M!TypeOK'
  BY <1>1, <1>3, <1>4, <1>5 DEF MetricsInv, M!TypeOK, Points
<1>7. /\ \A s \in Series : sampled'[s] # Absent => M!Behind(sampled', behind)[s] <= Cardinality(Series)
      /\ \A s \in Series : M!Behind(sampled', behind)[s] <= behind[s] + Cardinality(Series)
      /\ M!Behind(sampled', behind) \in [Series -> Nat]
  BY <1>2, BehindFacts
<1>8. /\ \A s \in Series : sampled[s] = Absent => behind[s] <= M!Behind(sampled, behind)[s]
      /\ M!Behind(sampled, behind) \in [Series -> Nat]
  BY <1>2, BehindFacts
<1>9. /\ \A s \in Series : sampled'[s] # Absent => M!Newest(sampled', newest)[s] = sampled'[s]
      /\ \A s \in Series : sampled'[s] = Absent => M!Newest(sampled', newest)[s] = newest[s]
      /\ \A s \in Series : sampled[s] # Absent => M!Newest(sampled, newest)[s] = sampled[s]
      /\ \A s \in Series : sampled[s] = Absent => M!Newest(sampled, newest)[s] = newest[s]
  BY NewestFacts
<1>10. ASSUME NEW s \in Series, last'[s] # Absent, sampling, ~unhealed
       PROVE  /\ last'[s] = M!Newest(sampled', newest)[s]
              /\ M!Behind(sampled', behind)[s] <= Age' * Cardinality(Series)
  <2>1. /\ Cardinality(Series) \in Nat /\ behind[s] \in Nat /\ M!Behind(sampled, behind)[s] \in Nat
        /\ M!Behind(sampled', behind)[s] \in Nat
    BY <1>2, <1>7, <1>8, CountType
  <2>2. Cardinality(Series) <= Age' * Cardinality(Series) /\ Age' * Cardinality(Series) \in Nat
    BY <1>4, Products
  <2>3. CASE M!Sampled[s] # Absent
    BY <1>4, <1>5, <1>7, <1>9, <2>1, <2>2, <2>3
  <2>4. CASE M!Sampled[s] = Absent
    <3>1. ~M!Forced /\ last[s] = last'[s]
      BY <1>4, <1>10, <2>4
    <3>2. last[s] = M!Newest(sampled, newest)[s] /\ M!Behind(sampled, behind)[s] <= Age * Cardinality(Series)
      BY <1>10, <3>1 DEF MetricsInv, Fresh
    <3>3. Age' * Cardinality(Series) = Age * Cardinality(Series) + Cardinality(Series)
          /\ Age * Cardinality(Series) \in Nat
      BY <1>4, <3>1, Products
    <3>4. CASE sampled[s] # Absent
      BY <1>5, <1>7, <1>9, <2>1, <2>2, <2>4, <3>1, <3>2, <3>4
    <3>5. CASE sampled[s] = Absent
      BY <1>5, <1>7, <1>8, <1>9, <2>1, <2>4, <3>1, <3>2, <3>3, <3>5
    <3> QED BY <3>4, <3>5
  <2> QED BY <2>3, <2>4
<1>11. ASSUME NEW s \in Series PROVE Fresh(s)'
  BY <1>1, <1>4, <1>10 DEF Fresh
<1> QED BY <1>6, <1>11 DEF MetricsInv

LEMMA MetricsOtherSteps ==
  ASSUME MetricsSane, MetricsInv,
         \/ M!Starts \/ M!Stops \/ M!Restarts
         \/ \E s \in Series, v \in M!Values : M!Emits(s, v)
  PROVE  MetricsInv'
<1>1. /\ sampled \in Points /\ newest \in Points /\ behind \in [Series -> Nat]
      /\ value \in Points /\ last \in Points
  BY DEF MetricsInv, M!TypeOK, Points
<1>2. M!Silence \in Points /\ \A s \in Series : M!Silence[s] = Absent
  BY DEF M!Silence, Points
<1>3. CASE M!Starts
  <2>1. sampling' = TRUE /\ last' = M!Silence /\ cycle' = 0
        /\ UNCHANGED <<value, sampled, newest, behind, faults, unhealed>>
    BY <1>3 DEF M!Starts
  <2>2. M!TypeOK'
    BY <1>2, <2>1 DEF MetricsInv, M!TypeOK, Points, MetricsSane
  <2> QED BY <1>2, <2>1, <2>2 DEF MetricsInv, Fresh
<1>4. CASE M!Stops
  <2>1. sampling' = FALSE /\ sampled' = M!Silence /\ newest' = M!Newest(sampled, newest)
        /\ behind' = M!Behind(sampled, behind) /\ UNCHANGED <<value, last, cycle, faults, unhealed>>
    BY <1>4 DEF M!Stops
  <2>2. newest' \in Points /\ behind' \in [Series -> Nat]
    BY <1>1, <2>1, NewestFacts, BehindFacts
  <2>3. M!TypeOK'
    BY <1>2, <2>1, <2>2 DEF MetricsInv, M!TypeOK, Points
  <2> QED BY <2>1, <2>3 DEF MetricsInv, Fresh
<1>5. CASE M!Restarts
  <2>1. /\ value' = M!Silence /\ last' = M!Silence /\ cycle' = 0 /\ sampling' = FALSE
        /\ sampled' = M!Silence /\ newest' = M!Silence /\ behind' = [s \in Series |-> 0]
        /\ unhealed' = FALSE /\ faults' \in 0 .. MaxFaults
    BY <1>5 DEF M!Restarts, M!Fault, MetricsInv, M!TypeOK, MetricsSane
  <2>2. behind' \in [Series -> Nat] /\ 0 \in 0 .. (HeartbeatEvery - 1)
    BY <2>1 DEF MetricsSane
  <2>3. M!TypeOK'
    BY <1>2, <2>1, <2>2 DEF M!TypeOK, Points
  <2> QED BY <1>2, <2>1, <2>3 DEF MetricsInv, Fresh
<1>6. ASSUME NEW s \in Series, NEW v \in M!Values, M!Emits(s, v) PROVE MetricsInv'
  <2>1. value' = [value EXCEPT ![s] = v]
        /\ UNCHANGED <<last, cycle, sampling, sampled, newest, behind, faults, unhealed>>
    BY <1>6 DEF M!Emits
  <2>2. value' \in Points /\ \A r \in Series : value[r] # Absent => value'[r] # Absent
    BY <1>1, <2>1 DEF Points, M!Values, MetricsSane
  <2>3. M!TypeOK'
    BY <2>1, <2>2 DEF MetricsInv, M!TypeOK, Points
  <2>4. ASSUME NEW r \in Series PROVE Fresh(r)'
    BY <2>1, <2>2 DEF MetricsInv, Fresh, Age
  <2> QED BY <2>3, <2>4 DEF MetricsInv
<1> QED BY <1>3, <1>4, <1>5, <1>6

LEMMA MetricsStepInv == MetricsSane /\ MetricsInv /\ [M!Next]_(M!vars) => MetricsInv'
<1> SUFFICES ASSUME MetricsSane, MetricsInv, [M!Next]_(M!vars) PROVE MetricsInv'
  OBVIOUS
<1>1. CASE UNCHANGED M!vars
  BY <1>1 DEF M!vars, MetricsInv, M!TypeOK, Fresh, Age
<1>2. CASE M!Next
  BY <1>2, CycleStep, OversizeStep, FailedSteps, WaitingStep, MetricsOtherSteps DEF M!Next
<1> QED BY <1>1, <1>2

\* What the sampler would skip as unchanged is the newest that a reader finds, for
\* every store whose rows hold a turn of heartbeats; not after a failed cycle or
\* one that pruned by size, until a heartbeat goes through that does not.
THEOREM WhatIsSkippedIsThere == MetricsSane => (M!Spec => []M!Believed)
<1> SUFFICES ASSUME MetricsSane PROVE M!Spec => []M!Believed
  OBVIOUS
<1>1. M!Init => MetricsInv
  BY MetricsInitInv
<1>2. MetricsInv /\ [M!Next]_(M!vars) => MetricsInv'
  BY MetricsStepInv
<1>3. MetricsInv => M!Believed
  BY DEF MetricsInv, Fresh, M!Believed
<1> QED BY <1>1, <1>2, <1>3, PTL DEF M!Spec
=============================================================================
