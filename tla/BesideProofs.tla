---------------------------- MODULE BesideProofs ----------------------------
(***************************************************************************)
(* What runs beside the heartbeat, proved: the soul, and then every other  *)
(* part of MCBeside, from the proofs of the part.  The proofs of a part    *)
(* are about its own variables; here they are read with x1 to x15 in their *)
(* place, shown to be about the same steps, and put together.              *)
(***************************************************************************)
EXTENDS MCBeside, TLAPS

-----------------------------------------------------------------------------
(* The soul.                                                               *)

-----------------------------------------------------------------------------
(* The inductive invariant. *)

\* What the row is stamped with, and what the owner puts back, is in the
\* lineage: so "our own last write" never needs to be kept again.
Stamped ==
  /\ sha # None => lineage[sha] # None
  /\ owner # Idle => lineage[owner.new] # None

\* A writer at its bookkeeping: its text, and the one it replaced.
InFlight ==
  /\ being # Idle => /\ being.new \in Words /\ being.old \in Docs
                     /\ "being" \in hands[being.new]
  /\ owner # Idle => owner.new \in Docs /\ owner.old \in Docs \ {owner.new}

\* Every text came from a hand; one that is not recorded as the being's came
\* from another hand, unless the being's own record of it is under way or cut.
Handed ==
  /\ \A d \in Words : d \in {disk, being.old, owner.old} => hands[d] # {}
  /\ \A d \in Words : lineage[d] # None => hands[d] # {}
  /\ \A d \in Words : hands[d] # {} /\ lineage[d] # "being" =>
       "human" \in hands[d] \/ d \in cut \/ d = being.new
  /\ \A d \in Docs : lineage[d] = "being" => d \in Words /\ "being" \in hands[d]

\* Who is still to keep a text that is not in the lineage.
Keepable ==
  \A d \in owed : \/ lineage[d] # None
                  \/ d = being.old /\ being.old # being.new
                  \/ d = owner.old

SoulInv == TypeOK /\ Stamped /\ InFlight /\ Handed /\ Keepable /\ Felt

LEMMA Distinct ==
  /\ None \notin Docs /\ None \notin Authors
  /\ \A d \in Words : d \notin Unauthored /\ d \in Docs
  BY DocsAssumption DEF Docs, Unauthored

\* An idle writer has no text; a busy one has two.
LEMMA PendingShape ==
  ASSUME NEW w \in Pending
  PROVE  IF w = Idle THEN w.new = None /\ w.old = None
                     ELSE w \in [new : Docs, old : Docs]
  BY DEF Pending, Idle

-----------------------------------------------------------------------------
(* What keeping the replaced text does to the lineage. *)

LEMMA KeptLemma ==
  ASSUME TypeOK, NEW w \in Pending, w # Idle
  PROVE  /\ Kept(w) \in [Docs -> Authors \cup {None}]
         /\ \A d \in Docs : d # w.old => Kept(w)[d] = lineage[d]
         /\ \A d \in Docs : lineage[d] # None => Kept(w)[d] # None
         /\ \A d \in Docs : Kept(w)[d] = "being" <=> lineage[d] = "being"
<1>1. w.old \in Docs /\ w.new \in Docs
  BY PendingShape
<1> QED BY <1>1, Distinct DEF TypeOK, Kept, Authors

\* A replaced text of somebody's is in the lineage afterwards.
LEMMA KeptKeeps ==
  ASSUME TypeOK, Stamped, NEW w \in Pending, w # Idle,
         w.old \in Words, w.old # w.new
  PROVE  Kept(w)[w.old] # None
<1>1. w.old \in Docs /\ w.old \notin Unauthored
  BY Distinct
<1>2. CASE w.old = sha
  BY <1>1, <1>2, Distinct DEF Stamped, Kept
<1>3. CASE lineage[w.old] = "being"
  BY <1>1, <1>3, Distinct DEF Kept, Authors
<1>4. CASE w.old # sha /\ lineage[w.old] # "being"
  BY <1>1, <1>4, Distinct DEF TypeOK, Kept, Authors
<1> QED BY <1>2, <1>3, <1>4
-----------------------------------------------------------------------------
(* Every step keeps the invariant. *)

LEMMA TroubleType ==
  ASSUME TypeOK, Trouble
  PROVE  trouble' \in 0 .. MaxTrouble
  BY MaxTroubleAssumption DEF TypeOK, Trouble

LEMMA IdleType == Idle \in Pending
  BY DEF Pending

LEMMA HumanSavesInv ==
  ASSUME SoulInv, NEW d \in Words \cup {Seed}, HumanSaves(d)
  PROVE  SoulInv'
<1> USE DEF SoulInv
<1>1. TypeOK'
  BY TroubleType DEF HumanSaves, rowVars, TypeOK, Docs, Hands
<1>2. Stamped'
  BY Distinct DEF HumanSaves, Trouble, rowVars, Stamped, TypeOK
<1>3. InFlight'
  BY Distinct DEF HumanSaves, Trouble, rowVars, InFlight, TypeOK
<1>4. Handed'
  BY Distinct DEF HumanSaves, Trouble, rowVars, Handed, TypeOK, Docs, Idle
<1>5. Keepable'
  BY Distinct DEF HumanSaves, Trouble, rowVars, Keepable, TypeOK, Idle
<1>6. Felt'
  BY DEF HumanSaves, Trouble, rowVars, Felt
<1> QED BY <1>1, <1>2, <1>3, <1>4, <1>5, <1>6

LEMMA BeingWritesInv ==
  ASSUME SoulInv, NEW d \in Words, BeingWrites(d)
  PROVE  SoulInv'
<1> USE DEF SoulInv
<1>1. TypeOK'
  BY Distinct DEF BeingWrites, Replaces, rowVars, TypeOK, Pending, Idle, Docs, Hands
<1>2. Stamped'
  BY Distinct DEF BeingWrites, Replaces, rowVars, Stamped, TypeOK
<1>3. InFlight'
  BY Distinct DEF BeingWrites, Replaces, rowVars, InFlight, TypeOK
<1>4. Handed'
  BY Distinct DEF BeingWrites, Replaces, rowVars, Handed, TypeOK, Docs, Idle
<1>5. Keepable'
  BY Distinct DEF BeingWrites, Replaces, rowVars, Keepable, TypeOK, Idle
<1>6. Felt'
  BY DEF BeingWrites, Replaces, rowVars, Felt
<1> QED BY <1>1, <1>2, <1>3, <1>4, <1>5, <1>6

LEMMA OwnerRevertsInv ==
  ASSUME SoulInv, NEW d \in Docs, OwnerReverts(d)
  PROVE  SoulInv'
<1> USE DEF SoulInv
<1>1. TypeOK'
  BY Distinct DEF OwnerReverts, Replaces, rowVars, TypeOK, Pending, Idle, Docs, Hands
<1>2. Stamped'
  BY Distinct DEF OwnerReverts, Replaces, rowVars, Stamped, TypeOK
<1>3. InFlight'
  BY Distinct DEF OwnerReverts, Replaces, rowVars, InFlight, TypeOK
<1>4. Handed'
  BY Distinct DEF OwnerReverts, Replaces, rowVars, Handed, TypeOK, Docs, Idle
<1>5. Keepable'
  BY Distinct DEF OwnerReverts, Replaces, rowVars, Keepable, TypeOK, Idle
<1>6. Felt'
  BY DEF OwnerReverts, Replaces, rowVars, Felt
<1> QED BY <1>1, <1>2, <1>3, <1>4, <1>5, <1>6

LEMMA NoticeInv ==
  ASSUME SoulInv, Composes \/ Tells
  PROVE  SoulInv'
<1> USE DEF SoulInv
<1>1. TypeOK'
  BY Distinct DEF Composes, Tells, rowVars, ghostVars, TypeOK, Pending, Idle, Docs, Hands
<1>2. Stamped'
  BY Distinct DEF Composes, Tells, rowVars, ghostVars, Stamped, TypeOK
<1>3. InFlight'
  BY Distinct DEF Composes, Tells, rowVars, ghostVars, InFlight, TypeOK
<1>4. Handed'
  BY Distinct DEF Composes, Tells, rowVars, ghostVars, Handed, TypeOK, Docs, Idle
<1>5. Keepable'
  BY Distinct DEF Composes, Tells, rowVars, ghostVars, Keepable, TypeOK, Idle
<1>6. Felt'
  BY DEF Composes, Tells, rowVars, ghostVars, Felt
<1> QED BY <1>1, <1>2, <1>3, <1>4, <1>5, <1>6

LEMMA BootInv ==
  ASSUME SoulInv, Registers \/ Seeds
  PROVE  SoulInv'
<1> USE DEF SoulInv
<1>1. TypeOK'
  BY Distinct DEF Registers, Seeds, rowVars, ghostVars, TypeOK, Docs, Authors
<1>2. Stamped'
  BY Distinct, DocsAssumption DEF Registers, Seeds, rowVars, Stamped, InFlight, TypeOK, Docs,
     Authors
<1>3. InFlight'
  BY Distinct, DocsAssumption DEF Registers, Seeds, rowVars, ghostVars, InFlight, TypeOK
<1>4. Handed'
  BY Distinct, DocsAssumption DEF Registers, Seeds, rowVars, ghostVars, Handed, TypeOK, Docs, Idle
<1>5. Keepable'
  BY Distinct, DocsAssumption DEF Registers, Seeds, rowVars, ghostVars, Keepable, TypeOK, Idle
<1>6. Felt'
  BY DEF Registers, Seeds, rowVars, ghostVars, Felt
<1> QED BY <1>1, <1>2, <1>3, <1>4, <1>5, <1>6

LEMMA ResetsInv ==
  ASSUME SoulInv, Resets
  PROVE  SoulInv'
<1> USE DEF SoulInv
<1>1. TypeOK'
  BY TroubleType DEF Resets, rowVars, TypeOK
<1>2. Stamped'
  BY Distinct DEF Resets, Trouble, rowVars, ghostVars, Stamped, TypeOK
<1>3. InFlight'
  BY Distinct DEF Resets, Trouble, rowVars, ghostVars, InFlight, TypeOK
<1>4. Handed'
  BY Distinct DEF Resets, Trouble, rowVars, ghostVars, Handed, TypeOK, Docs, Idle
<1>5. Keepable'
  BY Distinct DEF Resets, Trouble, rowVars, ghostVars, Keepable, TypeOK, Idle
<1>6. Felt'
  BY DEF Resets, Trouble, rowVars, ghostVars, Felt
<1> QED BY <1>1, <1>2, <1>3, <1>4, <1>5, <1>6

LEMMA CrashInv ==
  ASSUME SoulInv, Crash
  PROVE  SoulInv'
<1> USE DEF SoulInv
<1>1. TypeOK'
  BY TroubleType, IdleType DEF Crash, rowVars, TypeOK
<1>2. Stamped'
  BY Distinct DEF Crash, Trouble, rowVars, ghostVars, Stamped, TypeOK
<1>3. InFlight'
  BY Distinct DEF Crash, Trouble, rowVars, ghostVars, InFlight, TypeOK
<1>4. Handed'
  BY Distinct DEF Crash, Trouble, rowVars, ghostVars, Handed, TypeOK, Docs, Idle
<1>5. Keepable'
  BY Distinct DEF Crash, Trouble, rowVars, ghostVars, Keepable, TypeOK, Idle
<1>6. Felt'
  BY DEF Crash, Trouble, rowVars, ghostVars, Felt
<1> QED BY <1>1, <1>2, <1>3, <1>4, <1>5, <1>6

\* What a writer's bookkeeping makes of the lineage.
LEMMA Books ==
  ASSUME SoulInv, NEW w \in {being, owner}, w # Idle
  PROVE  /\ Kept(w) \in [Docs -> Authors \cup {None}]
         /\ \A d \in Docs : d # w.old => Kept(w)[d] = lineage[d]
         /\ \A d \in Docs : lineage[d] # None => Kept(w)[d] # None
         /\ \A d \in Docs : Kept(w)[d] = "being" <=> lineage[d] = "being"
         /\ w.old \in Words /\ w.old # w.new => Kept(w)[w.old] # None
         /\ w.old \in Docs /\ w.new \in Docs
<1>1. w \in Pending
  BY DEF SoulInv, TypeOK
<1> QED BY <1>1, KeptLemma, KeptKeeps, PendingShape DEF SoulInv

\* The lineage a writer of the being leaves behind, whether it recorded or not.
LEMMA BeingBooksInv ==
  ASSUME SoulInv, being # Idle, being' = Idle,
         NEW recorded \in BOOLEAN,
         lineage' = IF recorded THEN [Kept(being) EXCEPT ![being.new] = "being"]
                                ELSE Kept(being),
         ~recorded => being.new \in cut',
         cut \subseteq cut',
         UNCHANGED <<disk, owner, hands, owed>>
  PROVE  lineage' \in [Docs -> Authors \cup {None}] /\ Handed' /\ Keepable'
<1> USE DEF SoulInv
<1>1. being.new \in Words /\ being.new \in Docs /\ "being" \in hands[being.new]
  BY Distinct DEF InFlight
<1>2. lineage' \in [Docs -> Authors \cup {None}]
  BY Books, <1>1 DEF Authors
<1>3. /\ \A d \in Docs : lineage[d] # None => lineage'[d] # None
      /\ \A d \in Docs : lineage'[d] = "being" =>
           lineage[d] = "being" \/ d = being.new
      /\ \A d \in Docs : lineage[d] = "being" => lineage'[d] = "being"
      /\ recorded => lineage'[being.new] = "being"
  BY Books, <1>1, Distinct DEF Authors
<1>4. \A d \in Words : lineage'[d] # None => hands[d] # {}
  <2> SUFFICES ASSUME NEW d \in Words, lineage'[d] # None PROVE hands[d] # {}
    OBVIOUS
  <2>1. CASE d = being.new \/ d = being.old
    BY <1>1, <2>1 DEF Handed
  <2>2. CASE ~(d = being.new \/ d = being.old)
    <3>1. lineage[d] # None
      BY Books, <2>2, <1>1, Distinct
    <3> QED BY <3>1 DEF Handed
  <2> QED BY <2>1, <2>2
<1>5. \A d \in Words : hands[d] # {} /\ lineage'[d] # "being" =>
        "human" \in hands[d] \/ d \in cut'
  BY <1>1, <1>3, Distinct DEF Handed
<1>6. Handed'
  BY <1>1, <1>2, <1>3, <1>4, <1>5, Distinct DEF Handed, Idle
<1>7. Keepable'
  <2> SUFFICES ASSUME NEW d \in owed
               PROVE  lineage'[d] # None \/ d = owner.old
    BY DEF Keepable
  <2>1. d \in Words /\ d \in Docs
    BY Distinct DEF TypeOK
  <2>2. CASE d = being.old /\ being.old # being.new
    <3>1. Kept(being)[d] # None
      BY <2>1, <2>2, Books
    <3> QED BY <3>1, <2>2, <1>1, <2>1, Books, Distinct DEF Authors
  <2>3. CASE lineage[d] # None
    BY <2>3, <1>3, <2>1
  <2> QED BY <2>2, <2>3 DEF Keepable
<1> QED BY <1>2, <1>6, <1>7

LEMMA BeingRecordsInv ==
  ASSUME SoulInv, BeingRecords
  PROVE  SoulInv'
<1> USE DEF SoulInv
<1>1. being # Idle /\ being.new \in Docs /\ being' = Idle
  BY Distinct DEF InFlight, BeingRecords
<1>2. lineage' \in [Docs -> Authors \cup {None}] /\ Handed' /\ Keepable'
  BY BeingBooksInv DEF BeingRecords, ghostVars
<1>3. TypeOK'
  BY <1>1, <1>2, IdleType DEF BeingRecords, ghostVars, TypeOK
<1>4. \A d \in Docs : lineage[d] # None => lineage'[d] # None
  BY <1>1, Books, Distinct DEF BeingRecords, Authors
<1>5. lineage'[being.new] # None
  BY <1>1, Books, Distinct DEF BeingRecords, Authors
<1>6. Stamped' /\ InFlight'
  BY <1>1, <1>4, <1>5 DEF Stamped, InFlight, BeingRecords, ghostVars
<1>7. Felt'
  BY DEF Felt, BeingRecords, ghostVars
<1> QED BY <1>2, <1>3, <1>6, <1>7

LEMMA BeingStopsInv ==
  ASSUME SoulInv, NEW done \in Steps \ {"stamped"}, BeingStops(done)
  PROVE  SoulInv'
<1> USE DEF SoulInv
<1>1. being # Idle /\ being.new \in Words /\ being.new \in Docs /\ being' = Idle
  BY Distinct DEF InFlight, BeingStops
<1>2. lineage' \in [Docs -> Authors \cup {None}] /\ Handed' /\ Keepable'
  <2>1. CASE done = "nothing"
    <3>1. lineage' = lineage /\ owed' = owed \ {being.old}
          /\ cut' = cut \cup {being.new} /\ UNCHANGED <<disk, owner, hands>>
      BY <2>1 DEF BeingStops
    <3>2. Handed'
      BY <3>1, <1>1, Distinct DEF Handed, Idle
    <3> QED BY <3>1, <3>2, <1>1 DEF Keepable, TypeOK
  <2>2. CASE done = "kept"
    <3>1. lineage' = Kept(being) /\ owed' = owed /\ being.new \in cut'
          /\ cut \subseteq cut' /\ UNCHANGED <<disk, owner, hands>>
      BY <2>2 DEF BeingStops
    <3> QED BY <3>1, <1>1, BeingBooksInv
  <2>3. CASE done = "recorded"
    <3>1. lineage' = [Kept(being) EXCEPT ![being.new] = "being"] /\ owed' = owed
          /\ cut' = cut /\ UNCHANGED <<disk, owner, hands>>
      BY <2>3 DEF BeingStops
    <3> QED BY <3>1, <1>1, BeingBooksInv
  <2> QED BY <2>1, <2>2, <2>3 DEF Steps
<1>3. TypeOK'
  BY <1>1, <1>2, IdleType, TroubleType DEF BeingStops, rowVars, TypeOK
<1>4. \A d \in Docs : lineage[d] # None => lineage'[d] # None
  BY <1>1, Books, Distinct DEF BeingStops, Authors, Steps
<1>5. Stamped' /\ InFlight'
  BY <1>1, <1>4 DEF Stamped, InFlight, BeingStops, rowVars, TypeOK
<1>6. Felt'
  BY DEF Felt, BeingStops, rowVars
<1> QED BY <1>2, <1>3, <1>5, <1>6

\* The lineage that soul revert leaves behind.
LEMMA OwnerBooksInv ==
  ASSUME SoulInv, owner # Idle, owner' = Idle,
         lineage' = Kept(owner),
         UNCHANGED <<disk, being, hands, owed, cut>>
  PROVE  lineage' \in [Docs -> Authors \cup {None}] /\ Handed' /\ Keepable'
<1> USE DEF SoulInv
<1>1. owner.old \in Docs /\ owner.old # owner.new
  BY DEF InFlight
<1>2. lineage' \in [Docs -> Authors \cup {None}]
  BY Books
<1>3. /\ \A d \in Docs : lineage[d] # None => lineage'[d] # None
      /\ \A d \in Docs : lineage'[d] = "being" <=> lineage[d] = "being"
  BY Books
<1>4. \A d \in Words : lineage'[d] # None => hands[d] # {}
  <2> SUFFICES ASSUME NEW d \in Words, lineage'[d] # None PROVE hands[d] # {}
    OBVIOUS
  <2>1. CASE d = owner.old
    BY <2>1 DEF Handed
  <2>2. CASE d # owner.old
    BY <2>2, Books, Distinct DEF Handed
  <2> QED BY <2>1, <2>2
<1>5. Handed'
  BY <1>3, <1>4, Distinct DEF Handed, Idle
<1>6. Keepable'
  <2> SUFFICES ASSUME NEW d \in owed
               PROVE  lineage'[d] # None \/ (d = being.old /\ being.old # being.new)
    BY DEF Keepable
  <2>1. d \in Words /\ d \in Docs
    BY Distinct DEF TypeOK
  <2>2. CASE d = owner.old
    <3>1. Kept(owner)[owner.old] # None
      BY <2>1, <2>2, <1>1, Books
    <3> QED BY <2>2, <3>1
  <2>3. CASE lineage[d] # None
    BY <2>3, <1>3, <2>1
  <2>4. CASE d = being.old /\ being.old # being.new
    BY <2>4
  <2> QED BY <2>2, <2>3, <2>4 DEF Keepable
<1> QED BY <1>2, <1>5, <1>6

LEMMA OwnerRecordsInv ==
  ASSUME SoulInv, OwnerRecords
  PROVE  SoulInv'
<1> USE DEF SoulInv
<1>1. owner # Idle /\ owner.new \in Docs /\ lineage[owner.new] # None /\ owner' = Idle
  BY DEF InFlight, OwnerRecords, Stamped
<1>2. lineage' \in [Docs -> Authors \cup {None}] /\ Handed' /\ Keepable'
  BY OwnerBooksInv DEF OwnerRecords
<1>3. TypeOK'
  BY <1>1, <1>2, IdleType DEF OwnerRecords, Rewritten, TypeOK
<1>4. Stamped' /\ InFlight'
  BY <1>1, Books DEF Stamped, InFlight, OwnerRecords
<1>5. Felt'
  BY DEF Felt, OwnerRecords, Rewritten
<1> QED BY <1>2, <1>3, <1>4, <1>5

LEMMA OwnerStopsInv ==
  ASSUME SoulInv, NEW done \in Steps \ {"recorded"}, OwnerStops(done)
  PROVE  SoulInv'
<1> USE DEF SoulInv
<1>1. owner # Idle /\ owner.new \in Docs /\ lineage[owner.new] # None /\ owner' = Idle
  BY DEF InFlight, OwnerStops, Stamped
<1>2. lineage' \in [Docs -> Authors \cup {None}] /\ Handed' /\ Keepable'
  <2>1. CASE done = "nothing"
    <3>1. lineage' = lineage /\ owed' = owed \ {owner.old}
          /\ UNCHANGED <<disk, being, hands, cut>>
      BY <2>1 DEF OwnerStops
    <3>2. Handed'
      BY <3>1, <1>1, Distinct DEF Handed, Idle
    <3> QED BY <3>1, <3>2, <1>1 DEF Keepable, TypeOK
  <2>2. CASE done # "nothing"
    <3>1. lineage' = Kept(owner) /\ owed' = owed /\ UNCHANGED <<disk, being, hands, cut>>
      BY <2>2 DEF OwnerStops
    <3> QED BY <3>1, <1>1, OwnerBooksInv
  <2> QED BY <2>1, <2>2
<1>3. UNCHANGED <<sha, due, telling, unheard>> \/ (sha' = owner.new /\ Unstamped)
  BY DEF OwnerStops
<1>4. TypeOK'
  <2>1. /\ sha' \in Docs \cup {None} /\ due' \in BOOLEAN
        /\ telling' \in {"no", "composed", "overtaken"}
        /\ unheard' \in {"no", "yes", "slipped"}
    BY <1>3, <1>1 DEF Unstamped, TypeOK
  <2>2. owed' \subseteq Words
    BY DEF OwnerStops, TypeOK
  <2> QED BY <1>1, <1>2, <2>1, <2>2, IdleType, TroubleType DEF OwnerStops, TypeOK
<1>5. \A d \in Docs : lineage[d] # None => lineage'[d] # None
  BY <1>1, Books DEF OwnerStops
<1>6. Stamped' /\ InFlight'
  BY <1>1, <1>3, <1>5 DEF Stamped, InFlight, OwnerStops, Unstamped, TypeOK
<1>7. Felt'
  BY <1>3 DEF Felt, Unstamped
<1> QED BY <1>2, <1>4, <1>6, <1>7

\* Adopting the text on disk.
LEMMA AdoptedInv ==
  ASSUME SoulInv, lineage' = Adopted,
         UNCHANGED <<disk, being, owner, hands, owed, cut>>
  PROVE  /\ lineage' \in [Docs -> Authors \cup {None}]
         /\ lineage'[disk] # None
         /\ \A d \in Docs : lineage[d] # None => lineage'[d] = lineage[d]
         /\ Handed' /\ Keepable'
<1> USE DEF SoulInv
<1>1. disk \in Docs
  BY DEF TypeOK
<1>2. lineage' \in [Docs -> Authors \cup {None}]
  BY DEF Adopted, TypeOK, Authors
<1>3. /\ lineage'[disk] # None
      /\ \A d \in Docs : lineage[d] # None => lineage'[d] = lineage[d]
      /\ \A d \in Docs : d # disk => lineage'[d] = lineage[d]
      /\ \A d \in Docs : lineage'[d] = "being" <=> lineage[d] = "being"
  BY <1>1, Distinct DEF Adopted, TypeOK, Authors
<1>4. Handed'
  BY <1>3, Distinct DEF Handed
<1>5. Keepable'
  BY <1>3, Distinct DEF Keepable, TypeOK
<1> QED BY <1>2, <1>3, <1>4, <1>5

LEMMA ConnectsInv ==
  ASSUME SoulInv, Connects \/ \E done \in Steps : ConnectsBadly(done)
  PROVE  SoulInv'
<1> USE DEF SoulInv
<1>1. /\ UNCHANGED <<disk, born, being, owner, hands, owed, cut>>
      /\ phase' = "up" /\ trouble' \in 0 .. MaxTrouble
      /\ lineage' \in {lineage, Adopted}
      /\ sha' = sha \/ (sha' = disk /\ lineage' = Adopted)
      /\ \/ UNCHANGED <<due, telling, unheard>>
         \/ Rewritten \/ Unstamped
  BY TroubleType DEF Connects, ConnectsBadly, TypeOK
<1>2. /\ lineage' \in [Docs -> Authors \cup {None}] /\ Handed' /\ Keepable'
      /\ \A d \in Docs : lineage[d] # None => lineage'[d] # None
  <2>1. CASE lineage' = lineage
    BY <2>1, <1>1 DEF Handed, Keepable, TypeOK
  <2>2. CASE lineage' = Adopted
    BY <2>2, <1>1, AdoptedInv
  <2> QED BY <1>1, <2>1, <2>2
<1>3. TypeOK'
  <2>1. /\ due' \in BOOLEAN /\ telling' \in {"no", "composed", "overtaken"}
        /\ unheard' \in {"no", "yes", "slipped"}
    BY <1>1 DEF Rewritten, Unstamped, TypeOK
  <2>2. sha' \in Docs \cup {None}
    BY <1>1 DEF TypeOK
  <2> QED BY <1>1, <1>2, <2>1, <2>2 DEF TypeOK
<1>4. Stamped'
  <2>1. sha' # None => lineage'[sha'] # None
    BY <1>1, <1>2, AdoptedInv DEF Stamped, TypeOK
  <2> QED BY <2>1, <1>1, <1>2 DEF Stamped, InFlight
<1>5. InFlight'
  BY <1>1 DEF InFlight
<1>6. Felt'
  BY <1>1 DEF Felt, Rewritten, Unstamped
<1> QED BY <1>2, <1>3, <1>4, <1>5, <1>6

-----------------------------------------------------------------------------
(* The theorems. *)

LEMMA InitInv == Init => SoulInv
<1> SUFFICES ASSUME Init PROVE SoulInv
  OBVIOUS
<1>1. TypeOK
  <2>1. hands \in [Words -> SUBSET Hands] /\ lineage \in [Docs -> Authors \cup {None}]
    BY DEF Init, Hands
  <2>2. trouble \in 0 .. MaxTrouble
    BY MaxTroubleAssumption DEF Init
  <2> QED BY <2>1, <2>2, IdleType DEF Init, TypeOK, Docs
<1>2. Stamped /\ InFlight /\ Keepable /\ Felt
  BY DEF Init, Stamped, InFlight, Keepable, Felt, Idle
<1>3. Handed
  BY Distinct DEF Init, Handed, Idle, Authors
<1> QED BY <1>1, <1>2, <1>3 DEF SoulInv

LEMMA StepInv == SoulInv /\ [Next]_vars => SoulInv'
<1> SUFFICES ASSUME SoulInv, [Next]_vars PROVE SoulInv'
  OBVIOUS
<1>1. CASE UNCHANGED vars
  BY <1>1 DEF SoulInv, vars, rowVars, ghostVars, TypeOK, Stamped, InFlight,
              Handed, Keepable, Felt
<1>2. CASE Next
  BY <1>2, HumanSavesInv, BeingWritesInv, OwnerRevertsInv, NoticeInv, BootInv,
     ResetsInv, CrashInv, BeingRecordsInv, BeingStopsInv, OwnerRecordsInv,
     OwnerStopsInv, ConnectsInv DEF Next, Steps
<1> QED BY <1>1, <1>2

\* The strengthening of what is proved of the soul: what the soul file, the
\* lineage and the row owe each other between any two steps of their writers.
THEOREM Invariance == Spec => []SoulInv
  BY InitInv, StepInv, PTL DEF Spec

\* The types.
THEOREM WellTyped == Spec => []TypeOK
<1>1. SoulInv => TypeOK
  BY DEF SoulInv
<1> QED BY <1>1, Invariance, PTL

\* No words are lost under a write of ours whose bookkeeping was not stopped.
THEOREM NothingLostInWrites == Spec => []Recoverable
<1>1. SoulInv => Recoverable
  BY DEF SoulInv, Keepable, Recoverable
<1> QED BY <1>1, Invariance, PTL

\* Nobody is credited with words they did not write.
THEOREM CreditWhereDue == Spec => []Credited
<1>1. SoulInv => Credited
  BY Distinct DEF SoulInv, Handed, Credited, TypeOK, Authors
<1> QED BY <1>1, Invariance, PTL

\* A rewrite by another hand stays due until it is told or slips.
THEOREM RewriteFelt == Spec => []Felt
<1>1. SoulInv => Felt
  BY DEF SoulInv
<1> QED BY <1>1, Invariance, PTL

\* The lineage forgets nothing and takes no words from the being.
THEOREM LineageRemembers == Spec => Remembered
<1>1. ASSUME SoulInv, [Next]_vars, NEW d \in Docs
      PROVE  /\ lineage[d] # None => lineage'[d] # None
             /\ lineage[d] = "being" => lineage'[d] = "being"
  <2>1. CASE lineage' = lineage
    BY <2>1
  <2>2. CASE being # Idle /\ (BeingRecords \/ \E k \in Steps \ {"stamped"} : BeingStops(k))
    <3>1. being.new \in Docs
      BY <1>1, <2>2, Books
    <3>2. lineage' \in {lineage, Kept(being), [Kept(being) EXCEPT ![being.new] = "being"]}
      BY <2>2 DEF BeingRecords, BeingStops, Steps
    <3> QED BY <1>1, <2>2, <3>1, <3>2, Books, Distinct DEF Authors
  <2>3. CASE owner # Idle /\ (OwnerRecords \/ \E k \in Steps : OwnerStops(k))
    BY <1>1, <2>3, Books DEF OwnerRecords, OwnerStops
  <2>4. CASE lineage' = Adopted
    BY <1>1, <2>4, Distinct DEF Adopted, SoulInv, TypeOK, Authors
  <2>5. CASE Seeds
    BY <1>1, <2>5, DocsAssumption, Distinct DEF Seeds, SoulInv, TypeOK, Handed, Authors
  <2> QED BY <1>1, <2>1, <2>2, <2>3, <2>4, <2>5
          DEF Next, vars, HumanSaves, BeingWrites, BeingRecords, BeingStops,
              OwnerReverts, OwnerRecords, OwnerStops, Composes, Tells, Registers,
              Connects, ConnectsBadly, Resets, Crash
<1>2. SoulInv /\ [Next]_vars =>
        [\A d \in Docs : /\ lineage[d] # None => lineage'[d] # None
                         /\ lineage[d] = "being" => lineage'[d] = "being"]_vars
  BY <1>1
<1> QED BY <1>2, Invariance, PTL DEF Spec, Remembered

-----------------------------------------------------------------------------
(* The other parts, and their proofs.                                      *)

OP == INSTANCE ObservabilityProofs WITH
  turnOf <- x1, ledger <- x2, opening <- x3, closing <- x4, calls <- x5, queue <- x6,
  rows <- x7, kids <- x8, saved <- x9, savedKids <- x10, pending <- x11, mishaps <- x12,
  excused <- x13,
  reg <- x1, refs <- x2, hold <- x3, thread <- x4, releasing <- x5, inbox <- x6, txn <- x7,
  counter <- x8, events <- x9, misses <- x10, logged <- x11, early <- x12, clashed <- x13,
  failed <- x14, landed <- x15,
  sent <- x1, flight <- x2, line <- x3, batch <- x4, stored <- x5, index <- x6, losses <- x7,
  astray <- x8,
  value <- x1, last <- x2, cycle <- x3, sampling <- x4, sampled <- x5, newest <- x6,
  behind <- x7, faults <- x8, unhealed <- x9
HP == INSTANCE HostingProofs WITH
  stage <- x1, health <- x2, blamed <- x3, record <- x4, running <- x5, started <- x6,
  current <- x7, shuttingDown <- x8, fatal <- x9, attached <- x10, hosted <- x11,
  starts <- x12,
  file <- x1, copies <- x2, at <- x3, pending <- x4, kept <- x5, held <- x6, written <- x7,
  raced <- x8, interrupted <- x9, condemnedYet <- x10, discarded <- x11, mishaps <- x12,
  builds <- x13,
  stamp <- x1, soulAt <- x2, session <- x3, agent <- x4, turn <- x5, impulse <- x6,
  born <- x7, promised <- x8, alien <- x9
CP == INSTANCE ContactProofs WITH
  learned <- x1, fit <- x2, ring <- x3, frame <- x4, owed <- x5, thought <- x6,
  turn <- x7, turns <- x8, doubled <- x9,
  now <- x1, arrived <- x2, u <- x3, tickedAt <- x4, heardAt <- x5, born <- x6,
  failures <- x7, feltAt <- x8, since <- x9, numb <- x10, again <- x11, faults <- x12,
  clock <- x1, anchor <- x2, declinedAt <- x3, declines <- x4, actedAt <- x5,
  unanswered <- x6, log <- x7, pending <- x8, desire <- x9, composing <- x10, answer <- x11,
  launches <- x12, said <- x13

\* A behaviour stays with the part it began with.
Parts == {"soul", "turns", "store", "retention", "metrics", "supervision",
          "migration", "ambient", "intake", "pacing", "waking"}
LEMMA PartStays ==
  /\ BesideInit => part \in Parts
  /\ [BesideNext]_everything => part' = part
<1>1. BesideInit => part \in Parts
  BY DEF BesideInit, Parts
<1>2. [BesideNext]_everything => part' = part
  BY DEF BesideNext, everything, Moves, Soulful, Turning, Storing, Retaining, Measuring,
         Hosting, Migrating, Holding, Hearing, Reaching, Awaking
<1> QED BY <1>1, <1>2

\* Every part but the soul leaves the soul alone.
LEMMA SoulMoves ==
  /\ BesideInit => Init
  /\ [BesideNext]_everything => [Next]_vars
<1>1. BesideInit => Init
  BY DEF BesideInit, AtRest
<1>2. BesideNext => Next \/ UNCHANGED vars
  BY DEF BesideNext, Next, Moves, Soulful, Turning, Storing, Retaining, Measuring, Hosting,
         Migrating,
         Holding, Hearing, Reaching, Awaking
<1>3. UNCHANGED everything => UNCHANGED vars
  BY DEF everything
<1> QED BY <1>1, <1>2, <1>3

\* A step of a behaviour about one part is a step of that part.
LEMMA TurnsMoves ==
  ASSUME part = "turns"
  PROVE  /\ BesideInit => T!Init
         /\ [BesideNext]_everything => [T!Next]_(T!vars)
<1>1. BesideInit => T!Init
  BY DEF BesideInit
<1>2. BesideNext => T!Next
  BY DEF BesideNext, T!Next, Moves, Soulful, Turning, Storing, Retaining, Measuring, Hosting,
         Migrating,
         Holding, Hearing, Reaching, Awaking
<1>3. UNCHANGED everything => UNCHANGED T!vars
  BY DEF everything, shared, T!vars, T!writerVars
<1> QED BY <1>1, <1>2, <1>3

LEMMA StoreMoves ==
  ASSUME part = "store"
  PROVE  /\ BesideInit => W!Init
         /\ [BesideNext]_everything => [W!Next]_(W!vars)
<1>1. BesideInit => W!Init
  BY DEF BesideInit
<1>2. BesideNext => W!Next
  BY DEF BesideNext, W!Next, Moves, Soulful, Turning, Storing, Retaining, Measuring, Hosting,
         Migrating,
         Holding, Hearing, Reaching, Awaking
<1>3. UNCHANGED everything => UNCHANGED W!vars
  BY DEF everything, shared, W!vars, W!ghostVars, W!registryVars
<1> QED BY <1>1, <1>2, <1>3

LEMMA RetentionMoves ==
  ASSUME part = "retention"
  PROVE  /\ BesideInit => R!Init
         /\ [BesideNext]_everything => [R!Next]_(R!vars)
<1>1. BesideInit => R!Init
  BY DEF BesideInit
<1>2. BesideNext => R!Next
  BY DEF BesideNext, R!Next, Moves, Soulful, Turning, Storing, Retaining, Measuring, Hosting,
         Migrating,
         Holding, Hearing, Reaching, Awaking
<1>3. UNCHANGED everything => UNCHANGED R!vars
  BY DEF everything, shared, R!vars
<1> QED BY <1>1, <1>2, <1>3

LEMMA MetricsMoves ==
  ASSUME part = "metrics"
  PROVE  /\ BesideInit => M!Init
         /\ [BesideNext]_everything => [M!Next]_(M!vars)
<1>1. BesideInit => M!Init
  BY DEF BesideInit
<1>2. BesideNext => M!Next
  BY DEF BesideNext, M!Next, Moves, Soulful, Turning, Storing, Retaining, Measuring, Hosting,
         Migrating,
         Holding, Hearing, Reaching, Awaking
<1>3. UNCHANGED everything => UNCHANGED M!vars
  BY DEF everything, shared, M!vars
<1> QED BY <1>1, <1>2, <1>3

LEMMA SupervisionMoves ==
  ASSUME part = "supervision"
  PROVE  /\ BesideInit => V!Init
         /\ [BesideNext]_everything => [V!Next]_(V!vars)
<1>1. BesideInit => V!Init
  BY DEF BesideInit
<1>2. BesideNext => V!Next
  BY DEF BesideNext, V!Next, Moves, Soulful, Turning, Storing, Retaining, Measuring, Hosting,
         Migrating,
         Holding, Hearing, Reaching, Awaking
<1>3. UNCHANGED everything => UNCHANGED V!vars
  BY DEF everything, shared, V!vars
<1> QED BY <1>1, <1>2, <1>3

LEMMA MigrationMoves ==
  ASSUME part = "migration"
  PROVE  /\ BesideInit => G!Init
         /\ [BesideNext]_everything => [G!Next]_(G!vars)
<1>1. BesideInit => G!Init
  BY DEF BesideInit
<1>2. BesideNext => G!Next
  BY DEF BesideNext, G!Next, Moves, Soulful, Turning, Storing, Retaining, Measuring, Hosting,
         Migrating,
         Holding, Hearing, Reaching, Awaking
<1>3. UNCHANGED everything => UNCHANGED G!vars
  BY DEF everything, shared, G!vars
<1> QED BY <1>1, <1>2, <1>3

LEMMA AmbientMoves ==
  ASSUME part = "ambient"
  PROVE  /\ BesideInit => A!Init
         /\ [BesideNext]_everything => [A!Next]_(A!vars)
<1>1. BesideInit => A!Init
  BY DEF BesideInit
<1>2. BesideNext => A!Next
  BY DEF BesideNext, A!Next, Moves, Soulful, Turning, Storing, Retaining, Measuring, Hosting,
         Migrating,
         Holding, Hearing, Reaching, Awaking
<1>3. UNCHANGED everything => UNCHANGED A!vars
  BY DEF everything, shared, A!vars
<1> QED BY <1>1, <1>2, <1>3

LEMMA IntakeMoves ==
  ASSUME part = "intake"
  PROVE  /\ BesideInit => I!Init
         /\ [BesideNext]_everything => [I!Next]_(I!vars)
<1>1. BesideInit => I!Init
  BY DEF BesideInit
<1>2. BesideNext => I!Next
  BY DEF BesideNext, I!Next, Moves, Soulful, Turning, Storing, Retaining, Measuring, Hosting,
         Migrating,
         Holding, Hearing, Reaching, Awaking
<1>3. UNCHANGED everything => UNCHANGED I!vars
  BY DEF everything, shared, I!vars
<1> QED BY <1>1, <1>2, <1>3

LEMMA PacingMoves ==
  ASSUME part = "pacing"
  PROVE  /\ BesideInit => P!Init
         /\ [BesideNext]_everything => [P!Next]_(P!vars)
<1>1. BesideInit => P!Init
  BY DEF BesideInit
<1>2. BesideNext => P!Next
  BY DEF BesideNext, P!Next, Moves, Soulful, Turning, Storing, Retaining, Measuring, Hosting,
         Migrating,
         Holding, Hearing, Reaching, Awaking
<1>3. UNCHANGED everything => UNCHANGED P!vars
  BY DEF everything, shared, P!vars
<1> QED BY <1>1, <1>2, <1>3

LEMMA WakingMoves ==
  ASSUME part = "waking"
  PROVE  /\ BesideInit => K!Init
         /\ [BesideNext]_everything => [K!Next]_(K!vars)
<1>1. BesideInit => K!Init
  BY DEF BesideInit
<1>2. BesideNext => K!Next
  BY DEF BesideNext, K!Next, Moves, Soulful, Turning, Storing, Retaining, Measuring, Hosting,
         Migrating,
         Holding, Hearing, Reaching, Awaking
<1>3. UNCHANGED everything => UNCHANGED K!vars
  BY DEF everything, shared, K!vars
<1> QED BY <1>1, <1>2, <1>3

-----------------------------------------------------------------------------
(* The proofs of a part are about the part.                                *)

LEMMA TurnsSame ==
  /\ (OP!T!Init <=> T!Init)
  /\ ([OP!T!Next]_(OP!T!vars) <=> [T!Next]_(T!vars))
  /\ (OP!T!TypeOK <=> T!TypeOK)
  /\ (OP!T!Fated <=> T!Fated)
  /\ (OP!T!Discoverable <=> T!Discoverable)
  /\ (OP!T!KeepsVerdicts <=> T!KeepsVerdicts)
<1>1. OP!T!Init <=> T!Init
  BY DEF OP!T!Init, OP!T!Roots, T!Init, T!Roots
<1>2. OP!T!TypeOK <=> T!TypeOK
  BY DEF OP!T!TypeOK, OP!T!Opened, OP!T!Roots, OP!T!Statuses, OP!T!Verdicts, T!TypeOK, T!Opened,
         T!Roots, T!Statuses, T!Verdicts
<1>3. OP!T!Fated <=> T!Fated
  BY DEF OP!T!Fated, OP!T!Opened, OP!T!Verdicts, T!Fated, T!Opened, T!Verdicts
<1>4. OP!T!Discoverable <=> T!Discoverable
  BY DEF OP!T!Discoverable, T!Discoverable
<1>5. OP!T!KeepsVerdicts <=> T!KeepsVerdicts
  BY DEF OP!T!KeepsVerdicts, OP!T!Roots, OP!T!Verdicts, T!KeepsVerdicts, T!Roots, T!Verdicts
<1>6. OP!T!Next <=> T!Next
  BY DEF OP!T!Next, OP!T!Applies, OP!T!ApplyFails, OP!T!CallBegins, OP!T!CallEnds, OP!T!Closes,
         OP!T!CommitFails, OP!T!Commits, OP!T!Completes, OP!T!Ends, OP!T!Enters, OP!T!Opens,
         OP!T!Restarts, OP!T!Mishap, OP!T!writerVars, OP!T!LockFree, OP!T!Parent, OP!T!Child,
         OP!T!Over, OP!T!Refused, OP!T!Submitted, OP!T!Without, OP!T!Uncommitted, OP!T!Root,
         OP!T!Stale, OP!T!Survivors, OP!T!Opened, OP!T!Verdicts, OP!T!Roots, OP!T!Cardinality,
         T!Next, T!Applies, T!ApplyFails, T!CallBegins, T!CallEnds, T!Closes, T!CommitFails,
         T!Commits, T!Completes, T!Ends, T!Enters, T!Opens, T!Restarts, T!Mishap, T!writerVars,
         T!LockFree, T!Parent, T!Child, T!Over, T!Refused, T!Submitted, T!Without, T!Uncommitted,
         T!Root, T!Stale, T!Survivors, T!Opened, T!Verdicts, T!Roots, T!Cardinality
<1>7. UNCHANGED OP!T!vars <=> UNCHANGED T!vars
  BY DEF OP!T!vars, OP!T!writerVars, T!vars, T!writerVars
<1> QED BY <1>1, <1>2, <1>3, <1>4, <1>5, <1>6, <1>7

LEMMA StoreSame ==
  /\ (OP!Init <=> W!Init)
  /\ ([OP!Next]_(OP!vars) <=> [W!Next]_(W!vars))
  /\ (OP!TypeOK <=> W!TypeOK)
  /\ (OP!HeldRuns <=> W!HeldRuns)
  /\ (OP!Accounted <=> W!Accounted)
<1>1. OP!Init <=> W!Init
  BY DEF OP!Init, OP!Writers, W!Init, W!Writers
<1>2. OP!TypeOK <=> W!TypeOK
  BY DEF OP!TypeOK, OP!Events, OP!Writers, W!TypeOK, W!Events, W!Writers
<1>3. OP!HeldRuns <=> W!HeldRuns
  BY DEF OP!HeldRuns, OP!Mark, OP!Queued, W!HeldRuns, W!Mark, W!Queued
<1>4. OP!Accounted <=> W!Accounted
  BY DEF OP!Accounted, OP!Evs, OP!Queued, OP!Writers, W!Accounted, W!Evs, W!Queued, W!Writers
<1>5. OP!Next <=> W!Next
  BY DEF OP!Next, OP!Acquires, OP!Applies, OP!ApplyFails, OP!Commits, OP!Finishes, OP!Logs,
         OP!ReleaseGoesOn, OP!Releases, OP!Restarts, OP!StartFails, OP!Starts, OP!Writers,
         OP!Alive, OP!ghostVars, OP!Taken, OP!Takes, OP!Writable, OP!registryVars, OP!Evs,
         OP!Miss, OP!CommitsTxn, OP!Event, OP!Events, OP!Given, OP!Put, OP!Mark, OP!Forgets,
         OP!Queued, OP!HighestId, OP!RowIds, W!Next, W!Acquires, W!Applies, W!ApplyFails,
         W!Commits, W!Finishes, W!Logs, W!ReleaseGoesOn, W!Releases, W!Restarts, W!StartFails,
         W!Starts, W!Writers, W!Alive, W!ghostVars, W!Taken, W!Takes, W!Writable, W!registryVars,
         W!Evs, W!Miss, W!CommitsTxn, W!Event, W!Events, W!Given, W!Put, W!Mark, W!Forgets,
         W!Queued, W!HighestId, W!RowIds
<1>6. UNCHANGED OP!vars <=> UNCHANGED W!vars
  BY DEF OP!vars, OP!ghostVars, OP!registryVars, W!vars, W!ghostVars, W!registryVars
<1> QED BY <1>1, <1>2, <1>3, <1>4, <1>5, <1>6

LEMMA RetentionSame ==
  /\ (OP!R!Init <=> R!Init)
  /\ ([OP!R!Next]_(OP!R!vars) <=> [R!Next]_(R!vars))
  /\ (OP!R!TypeOK <=> R!TypeOK)
  /\ (OP!R!Reclaimable <=> R!Reclaimable)
  /\ (OP!R!Spares <=> R!Spares)
<1>1. OP!R!Init <=> R!Init
  BY DEF OP!R!Init, OP!R!Traces, R!Init, R!Traces
<1>2. OP!R!TypeOK <=> R!TypeOK
  BY DEF OP!R!TypeOK, OP!R!Items, OP!R!Traces, R!TypeOK, R!Items, R!Traces
<1>3. OP!R!Reclaimable <=> R!Reclaimable
  BY DEF OP!R!Reclaimable, OP!R!Item, OP!R!Ranged, OP!R!Traces, R!Reclaimable, R!Item, R!Ranged,
         R!Traces
<1>4. OP!R!Spares <=> R!Spares
  BY DEF OP!R!Spares, OP!R!Traces, R!Spares, R!Traces
<1>5. OP!R!Next <=> R!Next
  BY DEF OP!R!Next, OP!R!Applies, OP!R!ApplyFails, OP!R!Commits, OP!R!CommitsAndPrunes,
         OP!R!GraceEnds, OP!R!Launches, OP!R!Records, OP!R!Resolves, OP!R!ResolvesUnseen,
         OP!R!Restarts, OP!R!Traces, OP!R!Loss, OP!R!Lost, OP!R!IndexWith, OP!R!StoredWith,
         OP!R!CountMet, OP!R!Pruned, OP!R!Item, OP!R!Submits, OP!R!Ranged, OP!R!In,
         OP!R!Cardinality, OP!R!Protected, OP!R!Started, R!Next, R!Applies, R!ApplyFails,
         R!Commits, R!CommitsAndPrunes, R!GraceEnds, R!Launches, R!Records, R!Resolves,
         R!ResolvesUnseen, R!Restarts, R!Traces, R!Loss, R!Lost, R!IndexWith, R!StoredWith,
         R!CountMet, R!Pruned, R!Item, R!Submits, R!Ranged, R!In, R!Cardinality, R!Protected,
         R!Started
<1>6. UNCHANGED OP!R!vars <=> UNCHANGED R!vars
  BY DEF OP!R!vars, R!vars
<1> QED BY <1>1, <1>2, <1>3, <1>4, <1>5, <1>6

LEMMA MetricsSame ==
  /\ (OP!M!Init <=> M!Init)
  /\ ([OP!M!Next]_(OP!M!vars) <=> [M!Next]_(M!vars))
  /\ (OP!M!TypeOK <=> M!TypeOK)
  /\ (OP!M!Believed <=> M!Believed)
<1>1. OP!M!Init <=> M!Init
  BY DEF OP!M!Init, OP!M!Silence, M!Init, M!Silence
<1>2. OP!M!TypeOK <=> M!TypeOK
  BY DEF OP!M!TypeOK, OP!M!Values, M!TypeOK, M!Values
<1>3. OP!M!Believed <=> M!Believed
  BY DEF OP!M!Believed, OP!M!Newest, M!Believed, M!Newest
<1>4. OP!M!Next <=> M!Next
  BY DEF OP!M!Next, OP!M!CommitFails, OP!M!Cycles, OP!M!CyclesOversize, OP!M!Written,
         OP!M!Counted, OP!M!CyclesAfterSleep, OP!M!DefsFail,
         OP!M!Emits, OP!M!InsertFails, OP!M!Restarts, OP!M!Starts, OP!M!Stops, OP!M!Fault,
         OP!M!Newest, OP!M!NextCycle, OP!M!Remembers, OP!M!Sampled, OP!M!Behind, OP!M!Forced,
         OP!M!Silence, OP!M!Trimmed, OP!M!Count, OP!M!Values, OP!M!Due,
         OP!M!Cardinality, M!Next, M!CommitFails, M!Cycles, M!CyclesOversize,
         M!Written, M!Counted, M!CyclesAfterSleep, M!DefsFail, M!Emits, M!InsertFails, M!Restarts, M!Starts, M!Stops, M!Fault, M!Newest, M!NextCycle,
         M!Remembers, M!Sampled, M!Behind, M!Forced, M!Silence, M!Trimmed, M!Count,
         M!Values, M!Due, M!Cardinality
<1>5. UNCHANGED OP!M!vars <=> UNCHANGED M!vars
  BY DEF OP!M!vars, M!vars
<1> QED BY <1>1, <1>2, <1>3, <1>4, <1>5

LEMMA SupervisionSame ==
  /\ (HP!V!Init <=> V!Init)
  /\ ([HP!V!Next]_(HP!V!vars) <=> [V!Next]_(V!vars))
  /\ (HP!V!TypeOK <=> V!TypeOK)
  /\ (HP!V!Honest <=> V!Honest)
<1>1. HP!V!Init <=> V!Init
  BY DEF HP!V!Init, V!Init
<1>2. HP!V!TypeOK <=> V!TypeOK
  BY DEF HP!V!TypeOK, HP!V!BrainStates, HP!V!Stages, HP!V!Steps, V!TypeOK, V!BrainStates,
         V!Stages, V!Steps
<1>3. HP!V!Honest <=> V!Honest
  BY DEF HP!V!Honest, HP!V!Explained, HP!V!NoSilentDeath, HP!V!Shown, V!Honest, V!Explained,
         V!NoSilentDeath, V!Shown
<1>4. HP!V!Next <=> V!Next
  BY DEF HP!V!Next, HP!V!Connects, HP!V!Dies, HP!V!Disconnects, HP!V!Exits, HP!V!LoopFails,
         HP!V!OpensBuffer, HP!V!RegistersCommand, HP!V!Starts, HP!V!UnwiredFails, HP!V!WireFails,
         HP!V!WiresAmbient, HP!V!WiresObservers, HP!V!WiresPlatform, HP!V!WiresTools,
         HP!V!WriterFails, HP!V!Enters, HP!V!LoopStarts, HP!V!MarkConnected, HP!V!MayConnect,
         HP!V!OnDeath, HP!V!adapterVars, HP!V!MarkBootFailed, HP!V!Advances, HP!V!Steps,
         HP!V!MarkBootOk, HP!V!Files, HP!V!RecordLoopDeath, HP!V!Suppressed, HP!V!After, V!Next,
         V!Connects, V!Dies, V!Disconnects, V!Exits, V!LoopFails, V!OpensBuffer,
         V!RegistersCommand, V!Starts, V!UnwiredFails, V!WireFails, V!WiresAmbient,
         V!WiresObservers, V!WiresPlatform, V!WiresTools, V!WriterFails, V!Enters, V!LoopStarts,
         V!MarkConnected, V!MayConnect, V!OnDeath, V!adapterVars, V!MarkBootFailed, V!Advances,
         V!Steps, V!MarkBootOk, V!Files, V!RecordLoopDeath, V!Suppressed, V!After
<1>5. UNCHANGED HP!V!vars <=> UNCHANGED V!vars
  BY DEF HP!V!vars, V!vars
<1> QED BY <1>1, <1>2, <1>3, <1>4, <1>5

LEMMA MigrationSame ==
  /\ (HP!Init <=> G!Init)
  /\ ([HP!Next]_(HP!vars) <=> [G!Next]_(G!vars))
  /\ (HP!TypeOK <=> G!TypeOK)
  /\ (HP!Preserved <=> G!Preserved)
<1>1. HP!Init <=> G!Init
  BY DEF HP!Init, HP!NoFile, G!Init, G!NoFile
<1>2. HP!TypeOK <=> G!TypeOK
  BY DEF HP!TypeOK, HP!Cardinality, HP!Files, HP!Places, HP!Versions, HP!Shapes, G!TypeOK,
         G!Cardinality, G!Files, G!Places, G!Versions, G!Shapes
<1>3. HP!Preserved <=> G!Preserved
  BY DEF HP!Preserved, HP!NeverTheLast, HP!Whole, HP!Somewhere, G!Preserved, G!NeverTheLast,
         G!Whole, G!Somewhere
<1>4. HP!Next <=> G!Next
  BY DEF HP!Next, HP!BacksUp, HP!CheckFails, HP!Checks, HP!Corrupts, HP!Crashes, HP!Creates,
         HP!Drops, HP!GivesUp, HP!Lists, HP!MovesAside, HP!Reads, HP!Refills, HP!Refuses,
         HP!RestoreBegins, HP!RestoreEnds, HP!Skips, HP!StepFails, HP!Versions, HP!Writes,
         HP!Backed, HP!Goes, HP!others, HP!jobs, HP!histories, HP!Leaves, HP!IsNext, HP!Marks,
         HP!Rebuild, HP!Shared, HP!NoFile, HP!Working, G!Next, G!BacksUp, G!CheckFails, G!Checks,
         G!Corrupts, G!Crashes, G!Creates, G!Drops, G!GivesUp, G!Lists, G!MovesAside, G!Reads,
         G!Refills, G!Refuses, G!RestoreBegins, G!RestoreEnds, G!Skips, G!StepFails, G!Versions,
         G!Writes, G!Backed, G!Goes, G!others, G!jobs, G!histories, G!Leaves, G!IsNext, G!Marks,
         G!Rebuild, G!Shared, G!NoFile, G!Working
<1>5. UNCHANGED HP!vars <=> UNCHANGED G!vars
  BY DEF HP!vars, G!vars
<1> QED BY <1>1, <1>2, <1>3, <1>4, <1>5

LEMMA AmbientSame ==
  /\ (CP!Init <=> A!Init)
  /\ ([CP!Next]_(CP!vars) <=> [A!Next]_(A!vars))
  /\ (CP!TypeOK <=> A!TypeOK)
  /\ (CP!NotSilenced <=> A!NotSilenced)
  /\ (CP!StaysClosed <=> A!StaysClosed)
<1>1. CP!Init <=> A!Init
  BY DEF CP!Init, CP!Commitments, CP!Idle, CP!NoFrame, A!Init, A!Commitments, A!Idle, A!NoFrame
<1>2. CP!TypeOK <=> A!TypeOK
  BY DEF CP!TypeOK, CP!Activities, CP!Beliefs, CP!CommitmentStates, CP!Commitments,
         CP!IsInjective, CP!NoFrame, CP!Creating, CP!Idle, CP!Looked, CP!Picked, CP!Talks,
         CP!Closed, A!TypeOK, A!Activities, A!Beliefs, A!CommitmentStates, A!Commitments,
         A!IsInjective, A!NoFrame, A!Creating, A!Idle, A!Looked, A!Picked, A!Talks, A!Closed
<1>3. CP!NotSilenced <=> A!NotSilenced
  BY DEF CP!NotSilenced, CP!Newest, CP!Uncrowded, CP!Cardinality, CP!Beliefs, CP!FetchSize,
         CP!Limit, A!NotSilenced, A!Newest, A!Uncrowded, A!Cardinality, A!Beliefs, A!FetchSize,
         A!Limit
<1>4. CP!StaysClosed <=> A!StaysClosed
  BY DEF CP!StaysClosed, CP!Closed, CP!Commitments, A!StaysClosed, A!Closed, A!Commitments
<1>5. CP!Next <=> A!Next
  BY DEF CP!Next, CP!Closed, CP!Commitments, CP!Creates, CP!FrameCommits, CP!FrameLoads,
         CP!FrameRaises, CP!Commits, CP!Crystallizes, CP!ThoughtComes, CP!ThoughtEnds, CP!Seeded,
         A!FrameRaises, A!Commits, A!Crystallizes, A!ThoughtComes, A!ThoughtEnds, A!Seeded,
         CP!Learns, CP!LooksAtRing, CP!LooksFor, CP!Moves, CP!PicksBeliefs, CP!StampsAndShows,
         CP!TurnEnds, CP!Does, CP!Talks, CP!NoFrame, CP!Idle, CP!Looked, CP!Range, CP!Creating,
         CP!MayCreate, CP!Picked, CP!Picks, CP!ReadActiveCommitments, CP!RingWith, CP!Salient,
         CP!Limit, CP!Newest, CP!ReadActiveBeliefs, CP!Capped, CP!NewestFirst, CP!Cardinality,
         CP!Beliefs, CP!FetchSize, CP!Descending, A!Next, A!Closed, A!Commitments, A!Creates,
         A!FrameCommits, A!FrameLoads, A!Learns, A!LooksAtRing, A!LooksFor, A!Moves,
         A!PicksBeliefs, A!StampsAndShows, A!TurnEnds, A!Does, A!Talks, A!NoFrame, A!Idle,
         A!Looked, A!Range, A!Creating, A!MayCreate, A!Picked, A!Picks, A!ReadActiveCommitments,
         A!RingWith, A!Salient, A!Limit, A!Newest, A!ReadActiveBeliefs, A!Capped, A!NewestFirst,
         A!Cardinality, A!Beliefs, A!FetchSize, A!Descending
<1>6. UNCHANGED CP!vars <=> UNCHANGED A!vars
  BY DEF CP!vars, A!vars
<1> QED BY <1>1, <1>2, <1>3, <1>4, <1>5, <1>6

LEMMA IntakeSame ==
  /\ (CP!I!Init <=> I!Init)
  /\ ([CP!I!Next]_(CP!I!vars) <=> [I!Next]_(I!vars))
  /\ (CP!I!TypeOK <=> I!TypeOK)
  /\ (CP!I!Sensed <=> I!Sensed)
<1>1. CP!I!Init <=> I!Init
  BY DEF CP!I!Init, CP!I!Components, CP!I!Never, I!Init, I!Components, I!Never
<1>2. CP!I!TypeOK <=> I!TypeOK
  BY DEF CP!I!TypeOK, CP!I!Components, CP!I!Entries, CP!I!Never, I!TypeOK, I!Components,
         I!Entries, I!Never
<1>3. CP!I!Sensed <=> I!Sensed
  BY DEF CP!I!Sensed, CP!I!FeltOnce, CP!I!Landed, I!Sensed, I!FeltOnce, I!Landed
<1>4. CP!I!Next <=> I!Next
  BY DEF CP!I!Next, CP!I!Beat, CP!I!BeatAborts, CP!I!Births, CP!I!Inbound, CP!I!Outs,
         CP!I!OwnerSets, CP!I!Passes, CP!I!Resets, CP!I!Restarts, CP!I!Broken, CP!I!Components,
         CP!I!Counts, CP!I!Fails, CP!I!Frame, CP!I!NoId, CP!I!Cardinality, CP!I!Never,
         CP!I!Fresh, CP!I!Level, CP!I!Notes, CP!I!Remembers, CP!I!Remembered, CP!I!Least,
         CP!I!Less, CP!I!Silence, CP!I!Felt, CP!I!Recorded, CP!I!Live, CP!I!Full, CP!I!Swept,
         I!Next, I!Beat, I!BeatAborts, I!Births, I!Inbound, I!Outs, I!OwnerSets, I!Passes,
         I!Resets, I!Restarts, I!Broken, I!Components, I!Counts, I!Fails, I!Frame, I!NoId,
         I!Cardinality, I!Never, I!Fresh, I!Level, I!Notes, I!Remembers, I!Remembered, I!Least,
         I!Less, I!Silence, I!Felt, I!Recorded, I!Live, I!Full, I!Swept
<1>5. UNCHANGED CP!I!vars <=> UNCHANGED I!vars
  BY DEF CP!I!vars, I!vars
<1> QED BY <1>1, <1>2, <1>3, <1>4, <1>5

LEMMA PacingSame ==
  /\ (CP!P!Init <=> P!Init)
  /\ ([CP!P!Next]_(CP!P!vars) <=> [P!Next]_(P!vars))
  /\ (CP!P!TypeOK <=> P!TypeOK)
  /\ (CP!P!Spaced <=> P!Spaced)
<1>1. CP!P!Init <=> P!Init
  BY DEF CP!P!Init, CP!P!Never, CP!P!NoLaunch, P!Init, P!Never, P!NoLaunch
<1>2. CP!P!TypeOK <=> P!TypeOK
  BY DEF CP!P!TypeOK, CP!P!Launched, CP!P!Never, CP!P!NoLaunch, P!TypeOK, P!Launched, P!Never,
         P!NoLaunch
<1>3. CP!P!Spaced <=> P!Spaced
  BY DEF CP!P!Spaced, P!Spaced
<1>4. CP!P!Next <=> P!Next
  BY DEF CP!P!Next, CP!P!ForceWake, CP!P!Holds, CP!P!Inbound, CP!P!Launches, CP!P!Passes,
         CP!P!ReadsSent, CP!P!ReadsSilent, CP!P!ReadsStale, CP!P!Resets, CP!P!Satiate,
         CP!P!TurnEnds, CP!P!TurnLost, CP!P!Wakes, CP!P!AllowSend, CP!P!Never, CP!P!NoLaunch,
         CP!P!Launching, CP!P!RecordSend, CP!P!Resolves, CP!P!Stale, CP!P!Quiet, CP!P!MayWake,
         CP!P!Cardinality, CP!P!Clear, CP!P!Recent, CP!P!Interval, CP!P!Past, CP!P!Least, P!Next,
         P!ForceWake, P!Holds, P!Inbound, P!Launches, P!Passes, P!ReadsSent, P!ReadsSilent,
         P!ReadsStale, P!Resets, P!Satiate, P!TurnEnds, P!TurnLost, P!Wakes, P!AllowSend,
         P!Never, P!NoLaunch, P!Launching, P!RecordSend, P!Resolves, P!Stale, P!Quiet, P!MayWake,
         P!Cardinality, P!Clear, P!Recent, P!Interval, P!Past, P!Least
<1>5. UNCHANGED CP!P!vars <=> UNCHANGED P!vars
  BY DEF CP!P!vars, P!vars
<1> QED BY <1>1, <1>2, <1>3, <1>4, <1>5

LEMMA WakingSame ==
  /\ (HP!K!Init <=> K!Init)
  /\ ([HP!K!Next]_(HP!K!vars) <=> [K!Next]_(K!vars))
  /\ (HP!K!TypeOK <=> K!TypeOK)
  /\ (HP!K!Voiced <=> K!Voiced)
<1>1. HP!K!Init <=> K!Init
  BY DEF HP!K!Init, HP!K!NoImpulse, HP!K!NoPrompt, HP!K!NoSession, HP!K!NoTurn, HP!K!Session,
         K!Init, K!NoImpulse, K!NoPrompt, K!NoSession, K!NoTurn, K!Session
<1>2. HP!K!TypeOK <=> K!TypeOK
  BY DEF HP!K!TypeOK, HP!K!NoSession, HP!K!NoTurn, HP!K!Prompts, HP!K!Times, HP!K!NoPrompt,
         K!TypeOK, K!NoSession, K!NoTurn, K!Prompts, K!Times, K!NoPrompt
<1>3. HP!K!Voiced <=> K!Voiced
  BY DEF HP!K!Voiced, HP!K!Homecoming, HP!K!OwnRitual, HP!K!NoTurn, K!Voiced, K!Homecoming,
         K!OwnRitual, K!NoTurn
<1>4. HP!K!Next <=> K!Next
  BY DEF HP!K!Next, HP!K!BirthTick, HP!K!Edits, HP!K!FallsAsleep, HP!K!FallsQuiet,
         HP!K!HearsImpulse, HP!K!HostSwitches, HP!K!HumanSpeaks, HP!K!ImpulseRuns, HP!K!Injects,
         HP!K!NewCommand, HP!K!Outcomes, HP!K!OwnerReverts, HP!K!Restarts, HP!K!TurnEnds,
         HP!K!WritesSoul, HP!K!EndSession, HP!K!NoImpulse, HP!K!NoPrompt, HP!K!Stale,
         HP!K!Outdated, K!Outdated,
         HP!K!Writes, HP!K!NoSession, HP!K!Handed, HP!K!NoTurn, HP!K!Session, HP!K!Starts,
         K!Next, K!BirthTick, K!Edits, K!FallsAsleep, K!FallsQuiet, K!HearsImpulse,
         K!HostSwitches, K!HumanSpeaks, K!ImpulseRuns, K!Injects, K!NewCommand, K!Outcomes,
         K!OwnerReverts, K!Restarts, K!TurnEnds, K!WritesSoul, K!EndSession, K!NoImpulse,
         K!NoPrompt, K!Stale, K!Writes, K!NoSession, K!Handed, K!NoTurn, K!Session, K!Starts
<1>5. UNCHANGED HP!K!vars <=> UNCHANGED K!vars
  BY DEF HP!K!vars, K!vars
<1> QED BY <1>1, <1>2, <1>3, <1>4, <1>5

-----------------------------------------------------------------------------
(* What each part keeps, whatever the sizes.                               *)

LEMMA TurnsKeeps ==
  ASSUME part = "turns"
  PROVE  /\ BesideInit => OP!TurnsInv
         /\ OP!TurnsInv /\ [BesideNext]_everything => OP!TurnsInv' /\ T!KeepsVerdicts
         /\ OP!TurnsInv => T!TypeOK /\ T!Fated /\ T!Discoverable
<1>1. OP!TurnsSane
  BY TurnsAssumption DEF OP!TurnsSane
<1>2. BesideInit => OP!TurnsInv
  BY <1>1, TurnsMoves, TurnsSame, OP!TurnsInitInv
<1>3. OP!TurnsInv /\ [BesideNext]_everything => OP!TurnsInv' /\ T!KeepsVerdicts
  BY <1>1, TurnsMoves, TurnsSame, OP!TurnsStepInv, OP!StepKeeps
<1>4. OP!TurnsInv => T!TypeOK /\ T!Fated /\ T!Discoverable
  BY <1>1, TurnsSame, OP!InvRooted DEF OP!TurnsInv
<1> QED BY <1>2, <1>3, <1>4

LEMMA StoreKeeps ==
  ASSUME part = "store"
  PROVE  /\ BesideInit => OP!StoreInv
         /\ OP!StoreInv /\ [BesideNext]_everything => OP!StoreInv'
         /\ OP!StoreInv => W!TypeOK /\ W!HeldRuns /\ W!Accounted
<1>1. OP!TraceStoreSane
  BY TraceStoreAssumption DEF OP!TraceStoreSane, OP!IsFiniteSet, IsFiniteSet
<1>2. BesideInit => OP!StoreInv
  BY <1>1, StoreMoves, StoreSame, OP!TraceStoreInitInv
<1>3. OP!StoreInv /\ [BesideNext]_everything => OP!StoreInv'
  BY <1>1, StoreMoves, StoreSame, OP!TraceStoreStepInv
<1>4. OP!StoreInv => W!TypeOK /\ W!HeldRuns /\ W!Accounted
  BY <1>1, StoreSame, OP!InvHeldRuns, OP!InvAccounted DEF OP!StoreInv
<1> QED BY <1>2, <1>3, <1>4

LEMMA RetentionKeeps ==
  ASSUME part = "retention"
  PROVE  /\ BesideInit => OP!RetentionInv
         /\ OP!RetentionInv /\ [BesideNext]_everything => OP!RetentionInv' /\ R!Spares
         /\ OP!RetentionInv => R!TypeOK /\ R!Reclaimable
<1>1. OP!RetentionSane
  BY RetentionAssumption DEF OP!RetentionSane
<1>2. BesideInit => OP!RetentionInv
  BY <1>1, RetentionMoves, RetentionSame, OP!RetentionInitInv
<1>3. OP!RetentionInv /\ [BesideNext]_everything => OP!RetentionInv' /\ R!Spares
  BY <1>1, RetentionMoves, RetentionSame, OP!RetentionStepInv, OP!StepSpares
<1>4. OP!RetentionInv => R!TypeOK /\ R!Reclaimable
  BY <1>1, RetentionSame, OP!InvReclaimable DEF OP!RetentionInv
<1> QED BY <1>2, <1>3, <1>4

LEMMA MetricsKeeps ==
  ASSUME part = "metrics"
  PROVE  /\ BesideInit => OP!MetricsInv
         /\ OP!MetricsInv /\ [BesideNext]_everything => OP!MetricsInv'
         /\ OP!MetricsInv => M!TypeOK /\ M!Believed
<1>1. OP!MetricsSane
  BY MetricsAssumption DEF OP!MetricsSane, OP!IsFiniteSet, IsFiniteSet, OP!Cardinality, Cardinality
<1>2. BesideInit => OP!MetricsInv
  BY <1>1, MetricsMoves, MetricsSame, OP!MetricsInitInv
<1>3. OP!MetricsInv /\ [BesideNext]_everything => OP!MetricsInv'
  BY <1>1, MetricsMoves, MetricsSame, OP!MetricsStepInv
<1>4. OP!MetricsInv => M!TypeOK /\ M!Believed
  BY <1>1, MetricsSame DEF OP!MetricsInv, OP!Fresh, OP!M!Believed
<1> QED BY <1>2, <1>3, <1>4

LEMMA SupervisionKeeps ==
  ASSUME part = "supervision"
  PROVE  /\ BesideInit => HP!IInv
         /\ HP!IInv /\ [BesideNext]_everything => HP!IInv'
         /\ HP!IInv => V!TypeOK /\ V!Honest
<1>1. HP!SupervisionSane
  BY SupervisionAssumption DEF HP!SupervisionSane
<1>2. BesideInit => HP!IInv
  BY <1>1, SupervisionMoves, SupervisionSame, HP!SupervisionInitInv
<1>3. HP!IInv /\ [BesideNext]_everything => HP!IInv'
  BY <1>1, SupervisionMoves, SupervisionSame, HP!SupervisionStepInv
<1>4. HP!IInv => V!TypeOK /\ V!Honest
  BY <1>1, SupervisionSame, HP!InvHonest DEF HP!IInv
<1> QED BY <1>2, <1>3, <1>4

LEMMA MigrationKeeps ==
  ASSUME part = "migration"
  PROVE  /\ BesideInit => HP!MigrationInv /\ HP!Bounded
         /\ HP!MigrationInv /\ HP!Bounded /\ [BesideNext]_everything => HP!MigrationInv' /\ HP!Bounded'
         /\ HP!MigrationInv /\ HP!Bounded => G!TypeOK /\ G!Preserved
<1>1. HP!MigrationSane
  BY MigrationAssumption DEF HP!MigrationSane
<1>2. BesideInit => HP!MigrationInv /\ HP!Bounded
  BY <1>1, MigrationMoves, MigrationSame, HP!MigrationInitInv, HP!TypesInv
<1>3. HP!MigrationInv /\ HP!Bounded /\ [BesideNext]_everything => HP!MigrationInv' /\ HP!Bounded'
  BY <1>1, MigrationMoves, MigrationSame, HP!MigrationStepInv, HP!TypesInv
<1>4. HP!MigrationInv /\ HP!Bounded => G!TypeOK /\ G!Preserved
  BY <1>1, MigrationSame, HP!InvPreserved, HP!TypesInv
<1> QED BY <1>2, <1>3, <1>4

LEMMA AmbientKeeps ==
  ASSUME part = "ambient"
  PROVE  /\ BesideInit => CP!AmbientInv
         /\ CP!AmbientInv /\ [BesideNext]_everything => CP!AmbientInv' /\ A!NotSilenced /\ A!StaysClosed
         /\ CP!AmbientInv => A!TypeOK
<1>1. CP!AmbientSane
  BY AmbientAssumption DEF CP!AmbientSane
<1>2. BesideInit => CP!AmbientInv
  BY <1>1, AmbientMoves, AmbientSame, CP!AmbientInitInv
<1>3. CP!AmbientInv /\ [BesideNext]_everything => CP!AmbientInv' /\ A!NotSilenced /\ A!StaysClosed
  BY <1>1, AmbientMoves, AmbientSame, CP!AmbientStepInv
<1>4. CP!AmbientInv => A!TypeOK
  BY <1>1, AmbientSame DEF CP!AmbientInv
<1> QED BY <1>2, <1>3, <1>4

LEMMA IntakeKeeps ==
  ASSUME part = "intake"
  PROVE  /\ BesideInit => CP!IntakeInv
         /\ CP!IntakeInv /\ [BesideNext]_everything => CP!IntakeInv'
         /\ CP!IntakeInv => I!TypeOK /\ I!Sensed
<1>1. CP!IntakeSane
  BY IntakeAssumption DEF CP!IntakeSane, CP!I!NoId
<1>2. BesideInit => CP!IntakeInv
  BY <1>1, IntakeMoves, IntakeSame, CP!IntakeInitInv
<1>3. CP!IntakeInv /\ [BesideNext]_everything => CP!IntakeInv'
  BY <1>1, IntakeMoves, IntakeSame, CP!IntakeStepInv
<1>4. CP!IntakeInv => I!TypeOK /\ I!Sensed
  BY <1>1, IntakeSame, CP!InvSensed DEF CP!IntakeInv
<1> QED BY <1>2, <1>3, <1>4

LEMMA PacingKeeps ==
  ASSUME part = "pacing"
  PROVE  /\ BesideInit => CP!PacingInv
         /\ CP!PacingInv /\ [BesideNext]_everything => CP!PacingInv'
         /\ CP!PacingInv => P!TypeOK /\ P!Spaced
<1>1. CP!PacingSane
  BY PacingAssumption DEF CP!PacingSane
<1>2. BesideInit => CP!PacingInv
  BY <1>1, PacingMoves, PacingSame, CP!PacingInitInv
<1>3. CP!PacingInv /\ [BesideNext]_everything => CP!PacingInv'
  BY <1>1, PacingMoves, PacingSame, CP!PacingStepInv
<1>4. CP!PacingInv => P!TypeOK /\ P!Spaced
  BY <1>1, PacingSame DEF CP!PacingInv
<1> QED BY <1>2, <1>3, <1>4

LEMMA WakingKeeps ==
  ASSUME part = "waking"
  PROVE  /\ BesideInit => HP!WakingInv
         /\ HP!WakingInv /\ [BesideNext]_everything => HP!WakingInv'
         /\ HP!WakingInv => K!TypeOK /\ K!Voiced
<1>1. HP!WakingSane
  BY WakingAssumption DEF HP!WakingSane
<1>2. BesideInit => HP!WakingInv
  BY <1>1, WakingMoves, WakingSame, HP!WakingInitInv
<1>3. HP!WakingInv /\ [BesideNext]_everything => HP!WakingInv'
  BY <1>1, WakingMoves, WakingSame, HP!WakingStepInv
<1>4. HP!WakingInv => K!TypeOK /\ K!Voiced
  BY <1>1, WakingSame DEF HP!WakingInv
<1> QED BY <1>2, <1>3, <1>4

-----------------------------------------------------------------------------
(* All of them.                                                            *)

\* The invariant of the part that moves, and of the soul that stands still.
BesideInv ==
  /\ part \in Parts /\ SoulInv
  /\ part = "turns" => OP!TurnsInv
  /\ part = "store" => OP!StoreInv
  /\ part = "retention" => OP!RetentionInv
  /\ part = "metrics" => OP!MetricsInv
  /\ part = "supervision" => HP!IInv
  /\ part = "migration" => HP!MigrationInv /\ HP!Bounded
  /\ part = "ambient" => CP!AmbientInv
  /\ part = "intake" => CP!IntakeInv
  /\ part = "pacing" => CP!PacingInv
  /\ part = "waking" => HP!WakingInv

LEMMA BesideInitInv == BesideInit => BesideInv
<1>1. BesideInit => part \in Parts /\ SoulInv
  BY PartStays, SoulMoves, InitInv
<1>2. BesideInit /\ part = "turns" => OP!TurnsInv
  BY TurnsKeeps
<1>3. BesideInit /\ part = "store" => OP!StoreInv
  BY StoreKeeps
<1>4. BesideInit /\ part = "retention" => OP!RetentionInv
  BY RetentionKeeps
<1>5. BesideInit /\ part = "metrics" => OP!MetricsInv
  BY MetricsKeeps
<1>6. BesideInit /\ part = "supervision" => HP!IInv
  BY SupervisionKeeps
<1>7. BesideInit /\ part = "migration" => HP!MigrationInv /\ HP!Bounded
  BY MigrationKeeps
<1>8. BesideInit /\ part = "ambient" => CP!AmbientInv
  BY AmbientKeeps
<1>9. BesideInit /\ part = "intake" => CP!IntakeInv
  BY IntakeKeeps
<1>10. BesideInit /\ part = "pacing" => CP!PacingInv
  BY PacingKeeps
<1>11. BesideInit /\ part = "waking" => HP!WakingInv
  BY WakingKeeps
<1> QED BY <1>1, <1>2, <1>3, <1>4, <1>5, <1>6, <1>7, <1>8, <1>9, <1>10, <1>11 DEF BesideInv

LEMMA BesideStepInv == BesideInv /\ [BesideNext]_everything => BesideInv'
<1> SUFFICES ASSUME BesideInv, [BesideNext]_everything PROVE BesideInv'
  OBVIOUS
<1>1. part' = part /\ part \in Parts /\ SoulInv'
  BY PartStays, SoulMoves, StepInv DEF BesideInv
<1>2. part = "turns" => OP!TurnsInv'
  BY TurnsKeeps DEF BesideInv
<1>3. part = "store" => OP!StoreInv'
  BY StoreKeeps DEF BesideInv
<1>4. part = "retention" => OP!RetentionInv'
  BY RetentionKeeps DEF BesideInv
<1>5. part = "metrics" => OP!MetricsInv'
  BY MetricsKeeps DEF BesideInv
<1>6. part = "supervision" => HP!IInv'
  BY SupervisionKeeps DEF BesideInv
<1>7. part = "migration" => HP!MigrationInv' /\ HP!Bounded'
  BY MigrationKeeps DEF BesideInv
<1>8. part = "ambient" => CP!AmbientInv'
  BY AmbientKeeps DEF BesideInv
<1>9. part = "intake" => CP!IntakeInv'
  BY IntakeKeeps DEF BesideInv
<1>10. part = "pacing" => CP!PacingInv'
  BY PacingKeeps DEF BesideInv
<1>11. part = "waking" => HP!WakingInv'
  BY WakingKeeps DEF BesideInv
<1> QED BY <1>1, <1>2, <1>3, <1>4, <1>5, <1>6, <1>7, <1>8, <1>9, <1>10, <1>11 DEF BesideInv

\* Every part of a behaviour keeps its own inductive invariant, and the soul its.
THEOREM BesideInvariance == BesideSpec => []BesideInv
BY BesideInitInv, BesideStepInv, PTL DEF BesideSpec

\* What runs beside the heartbeat leaves the soul as it is: what is proved of
\* the soul holds beside the rest.
THEOREM SoulBeside ==
  BesideSpec => []Recoverable /\ []Credited /\ []Felt /\ Remembered
<1>1. BesideSpec => Spec
  BY SoulMoves, PTL DEF BesideSpec, Spec
<1> QED BY <1>1, NothingLostInWrites, CreditWhereDue, RewriteFelt, LineageRemembers, PTL

\* Every part keeps to its types.
THEOREM WellTypedBeside == BesideSpec => []Types
<1>1. BesideInv => Types
  <2> SUFFICES ASSUME BesideInv PROVE Types
    OBVIOUS
  <2>1. part = "soul" => TypeOK
    BY DEF BesideInv, SoulInv
  <2>2. part = "turns" => T!TypeOK
    BY TurnsKeeps DEF BesideInv
  <2>3. part = "store" => W!TypeOK
    BY StoreKeeps DEF BesideInv
  <2>4. part = "retention" => R!TypeOK
    BY RetentionKeeps DEF BesideInv
  <2>5. part = "metrics" => M!TypeOK
    BY MetricsKeeps DEF BesideInv
  <2>6. part = "supervision" => V!TypeOK
    BY SupervisionKeeps DEF BesideInv
  <2>7. part = "migration" => G!TypeOK
    BY MigrationKeeps DEF BesideInv
  <2>8. part = "ambient" => A!TypeOK
    BY AmbientKeeps DEF BesideInv
  <2>9. part = "intake" => I!TypeOK
    BY IntakeKeeps DEF BesideInv
  <2>10. part = "pacing" => P!TypeOK
    BY PacingKeeps DEF BesideInv
  <2>11. part = "waking" => K!TypeOK
    BY WakingKeeps DEF BesideInv
  <2> QED BY <2>1, <2>2, <2>3, <2>4, <2>5, <2>6, <2>7, <2>8, <2>9, <2>10, <2>11 DEF BesideInv,
             Parts, Types
<1> QED BY <1>1, BesideInvariance, PTL

\* Turns: every root in the trace store that carries no verdict is on its way to
\* one or excused, and a child on disk has its root there too.
THEOREM RootsFated == BesideSpec => []WellRooted
<1>1. BesideInv => WellRooted
  BY TurnsKeeps DEF BesideInv, WellRooted
<1> QED BY <1>1, BesideInvariance, PTL

\* Turns: the verdict a root has on disk is the last word on it.
THEOREM VerdictsStand == BesideSpec => VerdictStands
<1>1. BesideInv /\ [BesideNext]_everything => [part = "turns" => T!KeepsVerdicts]_everything
  BY TurnsKeeps DEF BesideInv
<1> QED BY <1>1, BesideInvariance, PTL DEF BesideSpec, VerdictStands

\* TraceStore: a writer that is held is not stopped, and what the human log
\* shows is in the store or accounted for.  Retention: an exchange that ended
\* does not stay protected.
THEOREM StoreWellKept == BesideSpec => []WellKept
<1>1. BesideInv => WellKept
  BY StoreKeeps, RetentionKeeps DEF BesideInv, WellKept
<1> QED BY <1>1, BesideInvariance, PTL

\* Retention: a prune takes a trace whole with its index row, and none that is in
\* flight and indexed.
THEOREM InFlightSpared == BesideSpec => Spared
<1>1. BesideInv /\ [BesideNext]_everything => [part = "retention" => R!Spares]_everything
  BY RetentionKeeps DEF BesideInv
<1> QED BY <1>1, BesideInvariance, PTL DEF BesideSpec, Spared

\* Metrics: a value the sampler would skip as unchanged is the newest a reader
\* finds, through failed cycles and pruning by rows; not after a failed cycle or
\* one that pruned by size, until a heartbeat goes through.
THEOREM SkippedIsThere == BesideSpec => []Believed
<1>1. BesideInv => Believed
  BY MetricsKeeps DEF BesideInv, Believed
<1> QED BY <1>1, BesideInvariance, PTL

\* Supervision: no brain dies in silence, and no failed boot goes unexplained.
THEOREM NoSilentDeath == BesideSpec => []Honest
<1>1. BesideInv => Honest
  BY SupervisionKeeps DEF BesideInv, Honest
<1> QED BY <1>1, BesideInvariance, PTL

\* Migration: no crash, failed step or corrupt file destroys the last copy of a
\* row, and a failed migration leaves the live file as it was.
THEOREM RowsPreserved == BesideSpec => []Preserved
<1>1. BesideInv => Preserved
  BY MigrationKeeps DEF BesideInv, Preserved
<1> QED BY <1>1, BesideInvariance, PTL

\* Ambient: however full the cooldown ring is, a turn picks the newest beliefs
\* that are fit and not in it, unless unfit rows crowd the fetch; and what was
\* closed or deferred stays so, unless two turns were creating it at once or its
\* retired thought was seeded anew and crystallized.
THEOREM NeverSilenced == BesideSpec => Faithful
<1>1. BesideInv /\ [BesideNext]_everything =>
        [part = "ambient" => A!NotSilenced /\ A!StaysClosed]_everything
  BY AmbientKeeps DEF BesideInv
<1> QED BY <1>1, BesideInvariance, PTL DEF BesideSpec, Faithful

\* Intake: what the human says reaches the drive, and reaches it once.
THEOREM HeardOnce == BesideSpec => []Sensed
<1>1. BesideInv => Sensed
  BY IntakeKeeps DEF BesideInv, Sensed
<1> QED BY <1>1, BesideInvariance, PTL

\* Pacing: the texts that were read back keep the daily cap and the gap.
THEOREM WithinCapAndGap == BesideSpec => []Spaced
<1>1. BesideInv => Spaced
  BY PacingKeeps DEF BesideInv, Spaced
<1> QED BY <1>1, BesideInvariance, PTL

\* Waking: the being is born, and comes back, in its own voice, but for what the
\* host could not tell, keep apart or end, and what was written in between.
THEOREM InItsOwnVoice == BesideSpec => []Voiced
<1>1. BesideInv => Voiced
  BY WakingKeeps DEF BesideInv, Voiced
<1> QED BY <1>1, BesideInvariance, PTL

=============================================================================
