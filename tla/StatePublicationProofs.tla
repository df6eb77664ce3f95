------------------------ MODULE StatePublicationProofs ------------------------
(***************************************************************************)
(* Proofs about StatePublication for any sets of owners, keys and digests: *)
(* type correctness, the promise behind a successful reply, that           *)
(* publication implements the table of published facts, and how far the    *)
(* docstrings of claims and their renewals hold.                           *)
(***************************************************************************)
EXTENDS StatePublication, TLAPS

-----------------------------------------------------------------------------
(***************************************************************************)
(* Type correctness, one step per action.                                  *)
(***************************************************************************)

\* A reply is recorded as its owner's latest.
LEMMA ReplyType ==
  ASSUME TypeOK, NEW o \in Owners
  PROVE  /\ \A op \in {"one_shot", "stage"}, k \in Keys, d \in Digests :
              Reply(o, op, k, d, "refused_conflict") => last' \in [Owners -> Replies]
         /\ \A k \in Keys, d \in Digests, res \in {"published_new", "converged"} :
              Told(o, k, d, res) => last' \in [Owners -> Replies]
         /\ \A res \in {"staged_new", "staged_adopted", "staged_active", "refused_conflict",
                        "refused_quarantined", "busy", "error", "renewed", "not_ours"} :
              Answer(o, res) => last' \in [Owners -> Replies]
BY DEF TypeOK, Told, Answer, Reply, Replies

\* The rows and events the actions build are rows and events of the schema.
LEMMA RowTypes ==
  ASSUME TypeOK, NEW o \in Owners, NEW k \in Keys, NEW d \in Digests
  PROVE  /\ PublishedRow(d) \in Rows
         /\ StagingRow(d, o) \in Rows
         /\ Event(k, d) \in Events
BY DEF TypeOK, PublishedRow, StagingRow, Event, Rows, Events

\* The initial rows, absent or quarantined, are rows of the schema.
LEMMA InitType == Init => TypeOK
<1> SUFFICES ASSUME Init PROVE TypeOK
  OBVIOUS
<1>1. AbsentRow \in Rows /\ \A d \in Digests : QuarantinedRow(d) \in Rows
  BY DEF AbsentRow, QuarantinedRow, Rows
<1>2. row \in [Keys -> Rows]
  BY <1>1 DEF Init
<1>3. last \in [Owners -> Replies]
  BY DEF Init, Replies
<1> QED
  BY <1>2, <1>3 DEF Init, TypeOK

\* publish_one_shot keeps the types.
LEMMA OneShotType ==
  ASSUME TypeOK, NEW o \in Owners, NEW k \in Keys, NEW d \in Digests,
         PublishOneShot(o, k, d)
  PROVE  TypeOK'
<1>1. PublishedRow(d) \in Rows /\ Event(k, d) \in Events
  BY RowTypes
<1>2. row' \in [Keys -> Rows]
  BY <1>1 DEF TypeOK, PublishOneShot, OneShotNew, OneShotPublished, OneShotQuarantined,
              OneShotStaging
<1>3. events' \subseteq Events
  BY <1>1 DEF TypeOK, PublishOneShot, OneShotNew, OneShotPublished, OneShotQuarantined,
              OneShotStaging, Record
<1>4. last' \in [Owners -> Replies]
  BY ReplyType DEF PublishOneShot, OneShotNew, OneShotPublished, OneShotQuarantined,
                   OneShotStaging
<1> QED
  BY <1>2, <1>3, <1>4 DEF TypeOK, PublishOneShot

\* publish_staged_completion keeps the types.
LEMMA CompletionType ==
  ASSUME TypeOK, NEW o \in Owners, NEW k \in Keys, NEW d \in Digests,
         PublishStagedCompletion(o, k, d)
  PROVE  TypeOK'
<1>1. Event(k, d) \in Events
  BY RowTypes
<1>2. row' \in [Keys -> Rows]
  <2>1. row[k].digest = d => PublishedRow(row[k].digest) \in Rows
    BY RowTypes
  <2> QED
    BY <2>1 DEF TypeOK, PublishStagedCompletion, CompleteUnstaged, CompleteStaging
<1>3. events' \subseteq Events
  BY <1>1 DEF TypeOK, PublishStagedCompletion, CompleteUnstaged, CompleteStaging, Record
<1>4. last' \in [Owners -> Replies]
  BY ReplyType DEF PublishStagedCompletion, CompleteUnstaged, CompleteStaging
<1> QED
  BY <1>2, <1>3, <1>4 DEF TypeOK, PublishStagedCompletion

\* stage_claim keeps the types.
LEMMA StageType ==
  ASSUME TypeOK, NEW o \in Owners, NEW k \in Keys, NEW d \in Digests,
         StageClaim(o, k, d)
  PROVE  TypeOK'
<1>1. StagingRow(d, o) \in Rows /\ Event(k, d) \in Events
  BY RowTypes
<1>2. row' \in [Keys -> Rows]
  BY <1>1 DEF TypeOK, StageClaim, StageNew, StagePublished, StageQuarantined, StageTakeover
<1>3. pending' \in [Owners -> SUBSET Events]
  BY <1>1 DEF TypeOK, StageClaim, StageNew, StagePublished, StageQuarantined, StageTakeover
<1>4. last' \in [Owners -> Replies]
  BY ReplyType DEF StageClaim, StageNew, StagePublished, StageQuarantined, StageTakeover
<1>5. renewing' \in [Owners -> Keys \cup {None, Gone}]
  BY DEF TypeOK, StageClaim, StageNew, StagePublished, StageQuarantined, StageTakeover, ReusesId
<1> QED
  BY <1>2, <1>3, <1>4, <1>5 DEF TypeOK, StageClaim

\* heartbeat_claim keeps the types.
LEMMA HeartbeatType ==
  ASSUME TypeOK, NEW o \in Owners, NEW k \in Keys,
         HeartbeatRead(o, k) \/ HeartbeatUpdate(o, k)
  PROVE  TypeOK'
<1>1. CASE HeartbeatRead(o, k)
  <2>1. last' \in [Owners -> Replies]
    BY <1>1, ReplyType DEF HeartbeatRead, TypeOK
  <2>2. renewing' \in [Owners -> Keys \cup {None, Gone}]
    BY <1>1 DEF HeartbeatRead, TypeOK
  <2> QED
    BY <1>1, <2>1, <2>2 DEF HeartbeatRead, TypeOK
<1>2. CASE HeartbeatUpdate(o, k)
  <2>1. last' \in [Owners -> Replies]
    BY <1>2, ReplyType DEF HeartbeatUpdate
  <2>2. row' \in [Keys -> Rows]
    BY <1>2 DEF HeartbeatUpdate, TypeOK, Rows
  <2> QED
    BY <1>2, <2>1, <2>2 DEF HeartbeatUpdate, HeartbeatCommit, TypeOK
<1> QED
  BY <1>1, <1>2

\* The calls that only fail keep the types.
LEMMA FailureType ==
  ASSUME TypeOK, NEW o \in Owners,
         HeartbeatLocked(o) \/ Busy(o) \/ NestedBegin(o) \/ CloseConnection(o)
  PROVE  TypeOK'
<1>1. CASE HeartbeatLocked(o)
  <2>2. last' \in [Owners -> Replies]
    BY <1>1, ReplyType DEF HeartbeatLocked
  <2>3. renewing' \in [Owners -> Keys \cup {None, Gone}]
    BY <1>1 DEF HeartbeatLocked, TypeOK
  <2> QED
    BY <1>1, <2>2, <2>3 DEF HeartbeatLocked, TypeOK
<1>2. CASE Busy(o)
  <2>1. last' \in [Owners -> Replies]
    BY <1>2, ReplyType DEF Busy
  <2> QED
    BY <1>2, <2>1 DEF Busy, TypeOK
<1>3. CASE NestedBegin(o)
  <2>1. last' \in [Owners -> Replies]
    BY <1>3, ReplyType DEF NestedBegin
  <2> QED
    BY <1>3, <2>1 DEF NestedBegin, TypeOK
<1>4. CASE CloseConnection(o)
  BY <1>4 DEF CloseConnection, TypeOK
<1> QED
  BY <1>1, <1>2, <1>3, <1>4

\* The collector keeps the types.
LEMMA CollectorType == ASSUME TypeOK, AnalyzeGC \/ ApplyGC PROVE TypeOK'
<1>1. CASE AnalyzeGC
  BY <1>1 DEF AnalyzeGC, TypeOK
<1>2. CASE ApplyGC
  <2>1. AbsentRow \in Rows
    BY DEF AbsentRow, Rows
  <2>2. row' \in [Keys -> Rows] /\ renewing' \in [Owners -> Keys \cup {None, Gone}]
    BY <1>2, <2>1 DEF ApplyGC, TypeOK
  <2> QED
    BY <1>2, <2>2 DEF ApplyGC, TypeOK
<1> QED
  BY <1>1, <1>2

\* Every step keeps the types.
LEMMA NextType == TypeOK /\ [Next]_vars => TypeOK'
<1> SUFFICES ASSUME TypeOK, [Next]_vars PROVE TypeOK'
  OBVIOUS
<1>1. ASSUME NEW k \in Keys, ExpireLease(k) PROVE TypeOK'
  BY <1>1 DEF ExpireLease, TypeOK, Rows
<1>2. CASE UNCHANGED vars
  BY <1>2 DEF vars, TypeOK
<1>3. ASSUME NEW o \in Owners, HeartbeatGone(o) PROVE TypeOK'
  <2>1. last' \in [Owners -> Replies]
    BY <1>3, ReplyType DEF HeartbeatGone
  <2> QED
    BY <1>3, <2>1 DEF HeartbeatGone, HeartbeatCommit, TypeOK
<1> QED
  BY <1>1, <1>2, <1>3, OneShotType, CompletionType, StageType, HeartbeatType, FailureType,
     CollectorType DEF Next

\* Type correctness of the publication table and of every connection.
THEOREM TypeCorrect == Spec => []TypeOK
<1> QED
  BY InitType, NextType, PTL DEF Spec

-----------------------------------------------------------------------------
(***************************************************************************)
(* How a step may change one row.  Everything else follows from this.      *)
(***************************************************************************)
SameContent(k) == row'[k].publication = row[k].publication /\ row'[k].digest = row[k].digest

Publishes(k, d) ==
  /\ row[k].publication \in {"absent", "staging"}
  /\ row[k].publication = "staging" => row[k].digest = d
  /\ row' = [row EXCEPT ![k] = PublishedRow(d)]

Claims(o, k, d) ==
  /\ row[k].publication \in {"absent", "staging"}
  /\ row' = [row EXCEPT ![k] = StagingRow(d, o)]

\* A step publishes one unpublished row, or claims one, or keeps the contents
\* of every row (a renewal or an expiry touches the lease only), or is the
\* collector's.
LEMMA RowSteps ==
  ASSUME TypeOK, [Next]_vars
  PROVE  \/ \A k \in Keys : SameContent(k)
         \/ \E k \in Keys, d \in Digests : Publishes(k, d)
         \/ \E o \in Owners, k \in Keys, d \in Digests : Claims(o, k, d)
         \/ ApplyGC
<1> USE DEF SameContent
<1>1. ASSUME NEW o \in Owners, NEW k \in Keys, NEW d \in Digests, PublishOneShot(o, k, d)
      PROVE  UNCHANGED row \/ Publishes(k, d)
  BY <1>1 DEF PublishOneShot, OneShotNew, OneShotPublished, OneShotQuarantined,
              OneShotStaging, Publishes
<1>2. ASSUME NEW o \in Owners, NEW k \in Keys, NEW d \in Digests,
             PublishStagedCompletion(o, k, d)
      PROVE  UNCHANGED row \/ Publishes(k, d)
  BY <1>2 DEF PublishStagedCompletion, CompleteUnstaged, CompleteStaging, Publishes
<1>3. ASSUME NEW o \in Owners, NEW k \in Keys, NEW d \in Digests, StageClaim(o, k, d)
      PROVE  UNCHANGED row \/ Claims(o, k, d)
  BY <1>3 DEF StageClaim, StageNew, StagePublished, StageQuarantined, StageTakeover, Claims
<1>4. ASSUME NEW o \in Owners, NEW k \in Keys, HeartbeatRead(o, k) \/ HeartbeatUpdate(o, k)
      PROVE  \A q \in Keys : SameContent(q)
  BY <1>4 DEF HeartbeatRead, HeartbeatUpdate, TypeOK, Rows
<1>5. ASSUME NEW o \in Owners,
             \/ HeartbeatGone(o) \/ HeartbeatLocked(o) \/ Busy(o) \/ NestedBegin(o)
             \/ CloseConnection(o)
      PROVE  UNCHANGED row
  BY <1>5 DEF HeartbeatGone, HeartbeatLocked, Busy, NestedBegin, CloseConnection
<1>6. ASSUME NEW k \in Keys, ExpireLease(k)
      PROVE  \A q \in Keys : SameContent(q)
  BY <1>6 DEF ExpireLease, TypeOK, Rows
<1>7. CASE UNCHANGED vars \/ AnalyzeGC
  BY <1>7 DEF vars, AnalyzeGC
<1> QED
  BY <1>1, <1>2, <1>3, <1>4, <1>5, <1>6, <1>7 DEF Next

\* A published row keeps its publication and its digest in every step but a sweep of it.
LEMMA PublishedStays ==
  ASSUME TypeOK, [Next]_vars, NEW k \in Keys, row[k].publication = "published"
  PROVE  SameContent(k) \/ Sweeps(k)
<1>1. ASSUME NEW q \in Keys, NEW d \in Digests, Publishes(q, d) PROVE SameContent(k)
  BY <1>1 DEF Publishes, SameContent, TypeOK
<1>2. ASSUME NEW o \in Owners, NEW q \in Keys, NEW d \in Digests, Claims(o, q, d)
      PROVE  SameContent(k)
  BY <1>2 DEF Claims, SameContent, TypeOK
<1>3. CASE ApplyGC
  BY <1>3 DEF ApplyGC, Sweeps, SameContent
<1> QED
  BY <1>1, <1>2, <1>3, RowSteps

-----------------------------------------------------------------------------
(***************************************************************************)
(* Publication implements the table of published facts.                    *)
(***************************************************************************)

\* Publishing an unpublished row is a Choose of the table of published facts.
LEMMA PublishIsChoose ==
  ASSUME TypeOK, NEW k \in Keys, NEW d \in Digests, Publishes(k, d), UNCHANGED doomed
  PROVE  Abstract!Choose(k, d)
<1>1. published[k] = None
  BY DEF published, Publishes
<1>2. \A q \in Keys : row'[q] = IF q = k THEN PublishedRow(d) ELSE row[q]
  BY DEF Publishes, TypeOK
<1>3. published' = [published EXCEPT ![k] = d]
  <2>1. published' = [q \in Keys |-> IF row'[q].publication = "published"
                                       THEN row'[q].digest ELSE None]
    BY DEF published
  <2>2. [published EXCEPT ![k] = d] = [q \in Keys |-> IF q = k THEN d ELSE published[q]]
    BY DEF published
  <2>3. ASSUME NEW q \in Keys
        PROVE  (IF row'[q].publication = "published" THEN row'[q].digest ELSE None)
                 = (IF q = k THEN d ELSE published[q])
    BY <1>2 DEF published, PublishedRow
  <2> QED
    BY <2>1, <2>2, <2>3, Zenon
<1> QED
  BY <1>1, <1>3 DEF Abstract!Choose

\* A claim shows nothing to the readers of the published facts.
LEMMA ClaimIsStutter ==
  ASSUME TypeOK, NEW o \in Owners, NEW k \in Keys, NEW d \in Digests, Claims(o, k, d)
  PROVE  published' = published
<1>1. \A q \in Keys : row'[q] = IF q = k THEN StagingRow(d, o) ELSE row[q]
  BY DEF Claims, TypeOK
<1> QED
  BY <1>1 DEF published, StagingRow, Claims

\* A sweep withdraws published facts, of keys that the analysis names.
LEMMA ApplyIsWithdraw == ASSUME TypeOK, ApplyGC PROVE Abstract!Withdraw
<1>1. PICK swept \in SUBSET doomed :
         row' = [k \in Keys |-> IF k \in swept THEN AbsentRow ELSE row[k]]
  BY DEF ApplyGC
<1>2. published' = [k \in Keys |-> IF row'[k].publication = "published"
                                     THEN row'[k].digest ELSE None]
  BY DEF published
<1>3. ASSUME NEW k \in Keys
      PROVE  (IF row'[k].publication = "published" THEN row'[k].digest ELSE None)
               = (IF k \in swept THEN None ELSE published[k])
  BY <1>1 DEF published, AbsentRow
<1>4. published' = [k \in Keys |-> IF k \in swept THEN None ELSE published[k]]
  BY <1>2, <1>3, Zenon
<1> QED
  BY <1>4 DEF Abstract!Withdraw, ApplyGC

\* Only the collector's analysis changes what is condemned.
LEMMA DoomedSteps ==
  ASSUME [Next]_vars
  PROVE  UNCHANGED doomed \/ AnalyzeGC
BY DEF Next, vars, PublishOneShot, PublishStagedCompletion, StageClaim, HeartbeatRead,
       HeartbeatUpdate, HeartbeatCommit, HeartbeatGone, HeartbeatLocked, Busy, NestedBegin,
       CloseConnection, ExpireLease, ApplyGC

\* The refinement, for any number of processes, keys and digests: INV-1, "a published
\* state is immutable", while it is there, and only the collector withdraws it.
THEOREM PublicationRefinement == Spec => ImplementsPublishedFacts
<1>1. Init => Abstract!Init
  <2> SUFFICES ASSUME Init PROVE published = [k \in Keys |-> None]
    BY DEF Abstract!Init, Init
  <2>1. \A k \in Keys : row[k].publication # "published"
    BY DEF Init, AbsentRow, QuarantinedRow
  <2> QED
    BY <2>1 DEF published
<1>2. TypeOK /\ [Next]_vars => [Abstract!Next]_Abstract!facts
  <2> SUFFICES ASSUME TypeOK, [Next]_vars PROVE [Abstract!Next]_Abstract!facts
    OBVIOUS
  <2> USE DEF Abstract!facts
  <2>1. CASE AnalyzeGC
    BY <2>1 DEF AnalyzeGC, Abstract!Next, Abstract!Condemn, published
  <2>2. CASE UNCHANGED doomed /\ \A k \in Keys : SameContent(k)
    BY <2>2 DEF published, SameContent
  <2>3. CASE UNCHANGED doomed /\ \E k \in Keys, d \in Digests : Publishes(k, d)
    BY <2>3, PublishIsChoose DEF Abstract!Next
  <2>4. CASE UNCHANGED doomed /\ \E o \in Owners, k \in Keys, d \in Digests : Claims(o, k, d)
    BY <2>4, ClaimIsStutter
  <2>5. CASE ApplyGC
    BY <2>5, ApplyIsWithdraw DEF Abstract!Next
  <2> QED
    BY <2>1, <2>2, <2>3, <2>4, <2>5, RowSteps, DoomedSteps
<1> QED
  BY <1>1, <1>2, TypeCorrect, PTL DEF Spec, ImplementsPublishedFacts, Abstract!Spec

-----------------------------------------------------------------------------
(***************************************************************************)
(* A successful reply stands.                                              *)
(***************************************************************************)
\* What a call answers is true when it answers.
LEMMA ReplyTrue ==
  ASSUME TypeOK, Next, NEW o \in Owners, last'[o] # last[o]
  PROVE  Stands(o)'
<1>1. ASSUME NEW p \in Owners, NEW k \in Keys, NEW d \in Digests, PublishOneShot(p, k, d)
      PROVE  Stands(o)'
  BY <1>1 DEF PublishOneShot, OneShotNew, OneShotPublished, OneShotQuarantined,
              OneShotStaging, Reply, Told, Answer, Stands, TypeOK, PublishedRow
<1>2. ASSUME NEW p \in Owners, NEW k \in Keys, NEW d \in Digests,
             PublishStagedCompletion(p, k, d)
      PROVE  Stands(o)'
  BY <1>2 DEF PublishStagedCompletion, CompleteUnstaged, CompleteStaging, Reply, Told, Answer, Stands,
              TypeOK, PublishedRow
<1>3. ASSUME NEW p \in Owners, NEW k \in Keys, NEW d \in Digests, StageClaim(p, k, d)
      PROVE  Stands(o)'
  BY <1>3 DEF StageClaim, StageNew, StagePublished, StageQuarantined, StageTakeover, Reply,
              Told, Answer, Stands, TypeOK
<1>4. ASSUME NEW p \in Owners, NEW k \in Keys, HeartbeatRead(p, k) \/ HeartbeatUpdate(p, k)
      PROVE  Stands(o)'
  BY <1>4 DEF HeartbeatRead, HeartbeatUpdate, Reply, Told, Answer, Stands, TypeOK
<1>5. ASSUME NEW p \in Owners,
             HeartbeatGone(p) \/ HeartbeatLocked(p) \/ Busy(p) \/ NestedBegin(p)
             \/ CloseConnection(p)
      PROVE  Stands(o)'
  BY <1>5 DEF HeartbeatGone, HeartbeatLocked, Busy, NestedBegin, CloseConnection, Reply, Told, Answer, Stands, TypeOK
<1>6. ASSUME AnalyzeGC \/ ApplyGC \/ \E k \in Keys : ExpireLease(k) PROVE FALSE
  BY <1>6 DEF ExpireLease, AnalyzeGC, ApplyGC
<1> QED
  BY <1>1, <1>2, <1>3, <1>4, <1>5, <1>6 DEF Next

\* A process that was told its facts are published may rely on it until the collector
\* applies an analysis that names the key, and all processes told so under one key since
\* the latest sweep of it hold the same facts.
THEOREM SuccessIsStable == Spec => SuccessStands
<1> DEFINE Kept(o) == /\ last'[o] # last[o] => Stands(o)'
                      /\ Stands(o) => Stands(o)' \/ Sweeps(last[o].key)
<1>1. TypeOK /\ [Next]_vars => \A o \in Owners : Kept(o)
  <2> SUFFICES ASSUME TypeOK, [Next]_vars, NEW o \in Owners PROVE Kept(o)
    OBVIOUS
  <2>1. CASE last'[o] # last[o]
    <3>1. Next
      BY <2>1 DEF vars
    <3> QED
      BY <2>1, <3>1, ReplyTrue
  <2>2. CASE last'[o] = last[o]
    BY <2>2, PublishedStays DEF Stands, SameContent
  <2> QED
    BY <2>1, <2>2
<1> QED
  BY <1>1, TypeCorrect, PTL DEF Spec, SuccessStands

-----------------------------------------------------------------------------
(***************************************************************************)
(* Claims.                                                                 *)
(***************************************************************************)

\* A claim is published with the digest it was claimed for, whoever completes
\* it and however often it changed hands.
THEOREM ClaimsNotDiverted == Spec => NoDivergentAdoption
<1> DEFINE Adopts(k) == row[k].publication = "staging" /\ row'[k].publication = "published"
                           => row'[k].digest = row[k].digest
<1>1. TypeOK /\ [Next]_vars => \A k \in Keys : Adopts(k)
  <2> SUFFICES ASSUME TypeOK, [Next]_vars, NEW k \in Keys PROVE Adopts(k)
    OBVIOUS
  <2>1. CASE \A q \in Keys : SameContent(q)
    BY <2>1 DEF SameContent
  <2>2. ASSUME NEW q \in Keys, NEW d \in Digests, Publishes(q, d) PROVE Adopts(k)
    BY <2>2 DEF Publishes, PublishedRow, TypeOK
  <2>3. ASSUME NEW o \in Owners, NEW q \in Keys, NEW d \in Digests, Claims(o, q, d)
        PROVE  Adopts(k)
    BY <2>3 DEF Claims, StagingRow, TypeOK
  <2>4. CASE ApplyGC
    BY <2>4 DEF ApplyGC, AbsentRow
  <2> QED
    BY <2>1, <2>2, <2>3, <2>4, RowSteps
<1> QED
  BY <1>1, TypeCorrect, PTL DEF Spec, NoDivergentAdoption

\* A live claim changes hands only by a renewal, and goes away only by a sweep of a key
\* that the analysis names: whoever else steps leaves it to its owner, or is the owner
\* that publishes it.
THEOREM LiveClaimsAreRespected == Spec => LiveClaimRespected
<1> DEFINE Respected(k) ==
      Claimed(k) => KeepsClaim(k) \/ Sweeps(k) \/ \E o \in Owners : HeartbeatUpdate(o, k)
<1>1. TypeOK /\ [Next]_vars => \A k \in Keys : Respected(k)
  <2> SUFFICES ASSUME TypeOK, [Next]_vars, NEW k \in Keys, Claimed(k),
                      \A o \in Owners : ~HeartbeatUpdate(o, k), ~Sweeps(k)
               PROVE  KeepsClaim(k)
    OBVIOUS
  <2> USE DEF Claimed, KeepsClaim
  <2>1. CASE row'[k].publication = row[k].publication /\ row'[k].owner = row[k].owner
    BY <2>1
  <2>2. ASSUME NEW o \in Owners, NEW q \in Keys, NEW d \in Digests, PublishOneShot(o, q, d)
        PROVE  KeepsClaim(k)
    BY <2>2 DEF PublishOneShot, OneShotNew, OneShotPublished, OneShotQuarantined, OneShotStaging,
                ForeignActive, Mine, Reply, Told, Answer, PublishedRow, TypeOK
  <2>3. ASSUME NEW o \in Owners, NEW q \in Keys, NEW d \in Digests, PublishStagedCompletion(o, q, d)
        PROVE  KeepsClaim(k)
    BY <2>3 DEF PublishStagedCompletion, CompleteUnstaged, CompleteStaging, ForeignActive, Mine,
                Reply, Told, Answer, PublishedRow, TypeOK
  <2>4. ASSUME NEW o \in Owners, NEW q \in Keys, NEW d \in Digests, StageClaim(o, q, d)
        PROVE  KeepsClaim(k)
    BY <2>4 DEF StageClaim, StageNew, StagePublished, StageQuarantined, StageTakeover,
                ForeignActive, Mine, StagingRow, TypeOK
  <2>5. ASSUME NEW o \in Owners, NEW q \in Keys, HeartbeatUpdate(o, q) PROVE KeepsClaim(k)
    <3>1. q # k
      BY <2>5
    <3> QED
      BY <2>1, <2>5, <3>1 DEF HeartbeatUpdate, TypeOK
  <2>6. ASSUME NEW q \in Keys, ExpireLease(q) PROVE KeepsClaim(k)
    BY <2>6 DEF ExpireLease, TypeOK, Rows
  <2>7. CASE UNCHANGED row
    BY <2>1, <2>7
  <2>8. CASE ApplyGC
    BY <2>1, <2>8 DEF ApplyGC, Sweeps
  <2> QED
    BY <2>2, <2>3, <2>4, <2>5, <2>6, <2>7, <2>8
       DEF Next, vars, HeartbeatRead, HeartbeatGone, HeartbeatLocked, Busy, NestedBegin,
           CloseConnection, AnalyzeGC
<1> QED
  BY <1>1, TypeCorrect, PTL DEF Spec, LiveClaimRespected

-----------------------------------------------------------------------------
(***************************************************************************)
(* Conflicts.                                                              *)
(***************************************************************************)
Recorded(o) ==
  last[o].op = "one_shot" /\ last[o].res = "refused_conflict" =>
     \E e \in events : e.key = last[o].key /\ e.candidate = last[o].digest /\ e.existing # e.candidate

\* Integrity events are never removed.
LEMMA EventsStay == ASSUME [Next]_vars PROVE events \subseteq events'
<1>1. ASSUME NEW o \in Owners, NEW k \in Keys, NEW d \in Digests,
             PublishOneShot(o, k, d) \/ PublishStagedCompletion(o, k, d) \/ StageClaim(o, k, d)
      PROVE  events \subseteq events'
  BY <1>1 DEF PublishOneShot, OneShotNew, OneShotPublished, OneShotQuarantined, OneShotStaging,
              PublishStagedCompletion, CompleteUnstaged, CompleteStaging, StageClaim, Record
<1>2. ASSUME NEW o \in Owners, NEW k \in Keys, HeartbeatRead(o, k) \/ HeartbeatUpdate(o, k)
      PROVE  events \subseteq events'
  BY <1>2 DEF HeartbeatRead, HeartbeatUpdate, HeartbeatCommit
<1>3. ASSUME NEW o \in Owners,
             \/ HeartbeatGone(o) \/ HeartbeatLocked(o) \/ Busy(o) \/ NestedBegin(o)
             \/ CloseConnection(o)
      PROVE  events \subseteq events'
  BY <1>3 DEF HeartbeatGone, HeartbeatCommit, HeartbeatLocked, Busy, NestedBegin, CloseConnection
<1>4. ASSUME AnalyzeGC \/ ApplyGC \/ \E k \in Keys : ExpireLease(k)
      PROVE  events \subseteq events'
  BY <1>4 DEF ExpireLease, AnalyzeGC, ApplyGC
<1> QED
  BY <1>1, <1>2, <1>3, <1>4 DEF Next, vars

\* Of all the calls only publish_one_shot answers a one-shot conflict, and it has
\* recorded the event by then.
LEMMA ConflictAnswered ==
  ASSUME TypeOK, Next, NEW o \in Owners, last'[o] # last[o]
  PROVE  Recorded(o)'
<1>1. ASSUME NEW p \in Owners, NEW k \in Keys, NEW d \in Digests, PublishOneShot(p, k, d)
      PROVE  Recorded(o)'
  <2>1. p = o
    BY <1>1 DEF PublishOneShot, OneShotNew, OneShotPublished, OneShotQuarantined, OneShotStaging,
                Reply, Told, Answer, TypeOK
  <2>2. last'[o].res = "refused_conflict" =>
           /\ last'[o].key = k /\ last'[o].digest = d
           /\ row[k].digest # d
           /\ Record(Event(k, d))
    BY <1>1, <2>1 DEF PublishOneShot, OneShotNew, OneShotPublished, OneShotQuarantined,
                      OneShotStaging, Reply, Told, Answer, TypeOK
  <2>3. /\ Event(k, d).key = k /\ Event(k, d).candidate = d
        /\ Event(k, d).existing = row[k].digest
    BY DEF Event
  <2>4. ASSUME last'[o].res = "refused_conflict"
        PROVE  \E e \in events' : e.key = k /\ e.candidate = d /\ e.existing # e.candidate
    <3>1. Event(k, d) \in events' /\ row[k].digest # d
      BY <2>2, <2>4 DEF Record
    <3> QED
      BY <2>3, <3>1
  <2> QED
    BY <2>2, <2>4 DEF Recorded
<1>2. ASSUME NEW p \in Owners, NEW k \in Keys, NEW d \in Digests,
             PublishStagedCompletion(p, k, d) \/ StageClaim(p, k, d)
      PROVE  last'[o].op # "one_shot"
  BY <1>2 DEF PublishStagedCompletion, CompleteUnstaged, CompleteStaging, StageClaim, StageNew,
              StagePublished, StageQuarantined, StageTakeover, Reply, Told, Answer, TypeOK
<1>3. ASSUME NEW p \in Owners, NEW k \in Keys, HeartbeatRead(p, k) \/ HeartbeatUpdate(p, k)
      PROVE  last'[o].op # "one_shot"
  BY <1>3 DEF HeartbeatRead, HeartbeatUpdate, Reply, Told, Answer, TypeOK
<1>4. ASSUME NEW p \in Owners,
             \/ HeartbeatGone(p) \/ HeartbeatLocked(p) \/ Busy(p) \/ NestedBegin(p)
             \/ CloseConnection(p)
      PROVE  last'[o].res # "refused_conflict"
  BY <1>4 DEF HeartbeatGone, HeartbeatLocked, Busy, NestedBegin, CloseConnection, Reply, Told, Answer, TypeOK
<1>5. ASSUME AnalyzeGC \/ ApplyGC \/ \E k \in Keys : ExpireLease(k) PROVE FALSE
  BY <1>5 DEF ExpireLease, AnalyzeGC, ApplyGC
<1> QED
  BY <1>1, <1>2, <1>3, <1>4, <1>5 DEF Next, Recorded

\* W-1 on the production path: every conflict that publish_one_shot refuses has
\* its integrity event, for any number of processes.
THEOREM ConflictsAreRecorded == Spec => []OneShotConflictRecorded
<1> DEFINE IInv == TypeOK /\ \A o \in Owners : Recorded(o)
<1>1. Init => IInv
  BY InitType DEF Init, Recorded
<1>2. IInv /\ [Next]_vars => IInv'
  <2> SUFFICES ASSUME IInv, [Next]_vars, NEW o \in Owners PROVE Recorded(o)'
    BY NextType
  <2>1. CASE last'[o] # last[o]
    <3>1. Next
      BY <2>1 DEF vars
    <3> QED
      BY <2>1, <3>1, ConflictAnswered
  <2>2. CASE last'[o] = last[o]
    BY <2>2, EventsStay DEF Recorded
  <2> QED
    BY <2>1, <2>2
<1>3. IInv => OneShotConflictRecorded
  BY DEF Recorded, OneShotConflictRecorded
<1> QED
  BY <1>1, <1>2, <1>3, PTL DEF Spec

-----------------------------------------------------------------------------
(***************************************************************************)
(* How far the docstrings of stage_claim and heartbeat_claim hold.         *)
(***************************************************************************)

\* The event of a refused claim is committed, or waits in the owner's connection.
StageHeld(o) ==
  last[o].op = "stage" /\ last[o].res = "refused_conflict" =>
     \E e \in events \cup pending[o] :
        e.key = last[o].key /\ e.candidate = last[o].digest /\ e.existing # e.candidate

\* What a connection has written and not committed is committed, stays or is rolled back.
LEMMA PendingSteps ==
  ASSUME TypeOK, [Next]_vars, NEW o \in Owners
  PROVE  \/ events \cup pending[o] \subseteq events' \cup pending'[o]
         \/ NestedBegin(o)
         \/ CloseConnection(o)
<1>1. ASSUME NEW p \in Owners, NEW k \in Keys, NEW d \in Digests,
             PublishOneShot(p, k, d) \/ PublishStagedCompletion(p, k, d)
      PROVE  UNCHANGED pending
  BY <1>1 DEF PublishOneShot, PublishStagedCompletion
<1>2. ASSUME NEW p \in Owners, NEW k \in Keys, NEW d \in Digests, StageClaim(p, k, d)
      PROVE  pending[o] \subseteq pending'[o]
  BY <1>2 DEF StageClaim, StageNew, StagePublished, StageQuarantined, StageTakeover, TypeOK
<1>3. ASSUME NEW p \in Owners, NEW k \in Keys, HeartbeatRead(p, k) \/ HeartbeatUpdate(p, k)
      PROVE  pending[o] \subseteq events' \cup pending'[o]
  BY <1>3 DEF HeartbeatRead, HeartbeatUpdate, HeartbeatCommit, TypeOK
<1>9. ASSUME NEW p \in Owners, HeartbeatGone(p) PROVE pending[o] \subseteq events' \cup pending'[o]
  BY <1>9 DEF HeartbeatGone, HeartbeatCommit, TypeOK
<1>4. ASSUME NEW p \in Owners, HeartbeatLocked(p) \/ Busy(p) PROVE UNCHANGED pending
  BY <1>4 DEF HeartbeatLocked, Busy
<1>5. ASSUME NEW p \in Owners \ {o}, NestedBegin(p) \/ CloseConnection(p)
      PROVE  pending'[o] = pending[o]
  BY <1>5 DEF NestedBegin, CloseConnection, TypeOK
<1>6. ASSUME AnalyzeGC \/ ApplyGC \/ \E k \in Keys : ExpireLease(k) PROVE UNCHANGED pending
  BY <1>6 DEF ExpireLease, AnalyzeGC, ApplyGC
<1>7. CASE UNCHANGED vars
  BY <1>7 DEF vars
<1>8. events \subseteq events'
  BY EventsStay
<1> QED
  BY <1>1, <1>2, <1>3, <1>4, <1>5, <1>6, <1>7, <1>8, <1>9 DEF Next

\* stage_claim has the event of its refusal in its connection when it answers.
LEMMA StageAnswered ==
  ASSUME TypeOK, Next, NEW o \in Owners, last'[o] # last[o]
  PROVE  StageHeld(o)'
<1>1. ASSUME NEW p \in Owners, NEW k \in Keys, NEW d \in Digests, StageClaim(p, k, d)
      PROVE  StageHeld(o)'
  <2>1. p = o
    BY <1>1 DEF StageClaim, StageNew, StagePublished, StageQuarantined, StageTakeover, Reply,
                Told, Answer, TypeOK
  <2>2. last'[o].res = "refused_conflict" =>
           /\ last'[o].key = k /\ last'[o].digest = d
           /\ row[k].digest # d
           /\ pending' = [pending EXCEPT ![o] = @ \cup {Event(k, d)}]
    BY <1>1, <2>1 DEF StageClaim, StageNew, StagePublished, StageQuarantined, StageTakeover, Reply,
                      Told, Answer, TypeOK
  <2>3. /\ Event(k, d).key = k /\ Event(k, d).candidate = d
        /\ Event(k, d).existing = row[k].digest
    BY DEF Event
  <2>4. last'[o].res = "refused_conflict" => Event(k, d) \in pending'[o]
    BY <2>2 DEF TypeOK
  <2> QED
    BY <2>2, <2>3, <2>4 DEF StageHeld
<1>2. ASSUME NEW p \in Owners, NEW k \in Keys, NEW d \in Digests,
             PublishOneShot(p, k, d) \/ PublishStagedCompletion(p, k, d)
      PROVE  last'[o].op # "stage"
  BY <1>2 DEF PublishOneShot, OneShotNew, OneShotPublished, OneShotQuarantined, OneShotStaging,
              PublishStagedCompletion, CompleteUnstaged, CompleteStaging, Reply, Told, Answer, TypeOK
<1>3. ASSUME NEW p \in Owners, NEW k \in Keys, HeartbeatRead(p, k) \/ HeartbeatUpdate(p, k)
      PROVE  last'[o].op # "stage"
  BY <1>3 DEF HeartbeatRead, HeartbeatUpdate, Reply, Told, Answer, TypeOK
<1>4. ASSUME NEW p \in Owners,
             \/ HeartbeatGone(p) \/ HeartbeatLocked(p) \/ Busy(p) \/ NestedBegin(p)
             \/ CloseConnection(p)
      PROVE  last'[o].res # "refused_conflict"
  BY <1>4 DEF HeartbeatGone, HeartbeatLocked, Busy, NestedBegin, CloseConnection, Reply, Told, Answer, TypeOK
<1>5. ASSUME AnalyzeGC \/ ApplyGC \/ \E k \in Keys : ExpireLease(k) PROVE FALSE
  BY <1>5 DEF ExpireLease, AnalyzeGC, ApplyGC
<1> QED
  BY <1>1, <1>2, <1>3, <1>4, <1>5 DEF Next, StageHeld

\* The event that stage_claim owes for a refused conflict is there, committed or not,
\* until the very connection is closed (publish.py, the INSERT after the commit): nothing
\* that another process or a later call does can lose it.
THEOREM ConflictsAreLostByClosing ==
  Spec => [][\A o \in Owners : StageHeld(o) /\ ~StageHeld(o)' => CloseConnection(o)]_vars
<1>1. ASSUME TypeOK, [Next]_vars, NEW o \in Owners, StageHeld(o), ~CloseConnection(o)
      PROVE  StageHeld(o)'
  <2>1. CASE last'[o] # last[o]
    <3>1. Next
      BY <1>1, <2>1 DEF vars
    <3> QED
      BY <1>1, <2>1, <3>1, StageAnswered
  <2>2. CASE last'[o] = last[o] /\ events \cup pending[o] \subseteq events' \cup pending'[o]
    BY <1>1, <2>2 DEF StageHeld
  <2>3. CASE NestedBegin(o)
    BY <1>1, <2>3 DEF NestedBegin, Answer, Reply, StageHeld, TypeOK
  <2> QED
    BY <1>1, <2>1, <2>2, <2>3, PendingSteps
<1>2. TypeOK /\ [Next]_vars =>
         [\A o \in Owners : StageHeld(o) /\ ~StageHeld(o)' => CloseConnection(o)]_vars
  BY <1>1
<1> QED
  BY <1>2, TypeCorrect, PTL DEF Spec

\* At most one connection has uncommitted rows: they hold the write lock of the file.
OneWriter == \A o, p \in Owners : InTransaction(o) /\ InTransaction(p) => o = p

LEMMA OneWriterStep == ASSUME TypeOK, OneWriter, [Next]_vars PROVE OneWriter'
<1> USE DEF OneWriter, InTransaction
<1>1. ASSUME NEW p \in Owners, NEW k \in Keys, NEW d \in Digests, StageClaim(p, k, d)
      PROVE  OneWriter'
  <2>1. \A q \in Owners : pending[q] = {}
    BY <1>1 DEF StageClaim, Begin, LockedByOther
  <2>2. \A q \in Owners : q # p => pending'[q] = pending[q]
    BY <1>1 DEF StageClaim, StageNew, StagePublished, StageQuarantined, StageTakeover, TypeOK
  <2> QED
    BY <2>1, <2>2
<1>2. ASSUME \A q \in Owners : pending'[q] = pending[q] \/ pending'[q] = {}
      PROVE  OneWriter'
  BY <1>2
<1>3. ASSUME NEW p \in Owners, HeartbeatCommit(p)
      PROVE  \A q \in Owners : pending'[q] = pending[q] \/ pending'[q] = {}
  BY <1>3 DEF HeartbeatCommit, TypeOK
<1>4. ASSUME NEW p \in Owners, NestedBegin(p) \/ CloseConnection(p)
      PROVE  \A q \in Owners : pending'[q] = pending[q] \/ pending'[q] = {}
  BY <1>4 DEF NestedBegin, CloseConnection, TypeOK
<1>5. CASE UNCHANGED pending
  BY <1>2, <1>5
<1> QED
  BY <1>1, <1>2, <1>3, <1>4, <1>5
     DEF Next, vars, PublishOneShot, PublishStagedCompletion, HeartbeatRead, HeartbeatUpdate,
         HeartbeatGone, HeartbeatLocked, Busy, ExpireLease, AnalyzeGC, ApplyGC

\* Until the connection of a refused claim commits or closes, it stops everybody: no row
\* is claimed, renewed, published or swept and no event is committed, whatever the processes
\* call; leases go on running out (publish.py, the INSERT after the commit).
THEOREM OpenTransactionStopsTheStore ==
  Spec => [][\A o \in Owners : InTransaction(o) /\ InTransaction(o)' =>
               /\ events' = events
               /\ row' = row \/ \E k \in Keys : ExpireLease(k)]_vars
<1> DEFINE Stops(o) == /\ events' = events
                       /\ row' = row \/ \E k \in Keys : ExpireLease(k)
<1>1. ASSUME TypeOK, OneWriter, [Next]_vars, NEW o \in Owners, InTransaction(o), InTransaction(o)'
      PROVE  Stops(o)
  <2>1. \A p \in Owners : ~Begin(p)
    BY <1>1 DEF Begin, LockedByOther
  <2>2. ASSUME NEW p \in Owners, HeartbeatCommit(p), ~LockedByOther(p) PROVE FALSE
    <3>1. p = o
      BY <1>1, <2>2 DEF LockedByOther
    <3> QED
      BY <1>1, <2>2, <3>1 DEF HeartbeatCommit, InTransaction, TypeOK
  <2>3. ASSUME NEW p \in Owners, NEW k \in Keys, HeartbeatRead(p, k) PROVE Stops(o)
    BY <2>3 DEF HeartbeatRead
  <2>4. ASSUME NEW p \in Owners,
               HeartbeatLocked(p) \/ Busy(p) \/ NestedBegin(p) \/ CloseConnection(p)
        PROVE  Stops(o)
    BY <2>4 DEF HeartbeatLocked, Busy, NestedBegin, CloseConnection
  <2>5. ASSUME NEW k \in Keys, ExpireLease(k) PROVE Stops(o)
    BY <2>5 DEF ExpireLease
  <2>6. CASE AnalyzeGC \/ UNCHANGED vars
    BY <2>6 DEF vars, AnalyzeGC
  <2>7. ~ApplyGC
    BY <1>1 DEF ApplyGC
  <2> QED
    BY <1>1, <2>1, <2>2, <2>3, <2>4, <2>5, <2>6, <2>7
       DEF Next, PublishOneShot, PublishStagedCompletion, StageClaim, HeartbeatUpdate,
           HeartbeatGone
<1>2. Init => OneWriter
  BY DEF Init, OneWriter, InTransaction
<1>3. TypeOK /\ OneWriter /\ [Next]_vars => OneWriter'
  BY OneWriterStep
<1>4. TypeOK /\ OneWriter /\ [Next]_vars =>
         [\A o \in Owners : InTransaction(o) /\ InTransaction(o)' =>
            /\ events' = events
            /\ row' = row \/ \E k \in Keys : ExpireLease(k)]_vars
  BY <1>1
<1> QED
  BY <1>2, <1>3, <1>4, TypeCorrect, PTL DEF Spec

\* A renewal in time: heartbeat_claim reads a lease that lives, and the lease does not
\* run out, nor is its row swept, before its UPDATE.
InTime ==
  \A o \in Owners, k \in Keys :
     /\ HeartbeatRead(o, k) /\ renewing'[o] = k => row[k].live
     /\ renewing[o] = k => ~ExpireLease(k) /\ ~Sweeps(k)

\* The claim that a renewal in time has read is still the owner's.
RenewsOwn ==
  \A o \in Owners :
     /\ renewing[o] # Gone
     /\ \A k \in Keys : renewing[o] = k => Claimed(k) /\ row[k].owner = o

\* A live claim whose owner is busy renewing it stays as it is.
LEMMA RenewedStays ==
  ASSUME TypeOK, RenewsOwn, [Next]_vars, NEW o \in Owners, NEW k \in Keys, renewing[o] = k,
         ~ExpireLease(k), ~Sweeps(k)
  PROVE  Claimed(k)' /\ row'[k].owner = o
<1> USE DEF Claimed
<1>0. Claimed(k) /\ row[k].owner = o /\ k # None
  BY NoneAssumption DEF RenewsOwn
<1>1. ASSUME NEW p \in Owners, NEW q \in Keys, NEW d \in Digests,
             PublishOneShot(p, q, d) \/ PublishStagedCompletion(p, q, d) \/ StageClaim(p, q, d)
      PROVE  row'[k] = row[k]
  <2>1. p # o
    BY <1>0, <1>1 DEF PublishOneShot, PublishStagedCompletion, StageClaim, Begin
  <2>2. ForeignActive(p, k)
    BY <1>0, <2>1 DEF ForeignActive, Mine
  <2>3. ASSUME PublishOneShot(p, q, d) PROVE row'[k] = row[k]
    BY <1>0, <2>2, <2>3 DEF PublishOneShot, OneShotNew, OneShotPublished, OneShotQuarantined,
                            OneShotStaging, TypeOK
  <2>4. ASSUME PublishStagedCompletion(p, q, d) PROVE row'[k] = row[k]
    BY <1>0, <2>2, <2>4 DEF PublishStagedCompletion, CompleteUnstaged, CompleteStaging, TypeOK
  <2>5. ASSUME StageClaim(p, q, d) PROVE row'[k] = row[k]
    BY <1>0, <2>2, <2>5 DEF StageClaim, StageNew, StagePublished, StageQuarantined,
                            StageTakeover, TypeOK
  <2> QED
    BY <1>1, <2>3, <2>4, <2>5
<1>2. ASSUME NEW p \in Owners, NEW q \in Keys, HeartbeatUpdate(p, q)
      PROVE  Claimed(k)' /\ row'[k].owner = o
  <2>1. q = k => p = o
    BY <1>0, <1>2 DEF HeartbeatUpdate, RenewsOwn
  <2> QED
    BY <1>0, <1>2, <2>1 DEF HeartbeatUpdate, TypeOK, Rows
<1>3. ASSUME NEW q \in Keys, ExpireLease(q) PROVE row'[k] = row[k]
  BY <1>3 DEF ExpireLease, TypeOK
<1>4. CASE UNCHANGED row
  BY <1>0, <1>4
<1>5. CASE ApplyGC
  <2>1. row'[k] = row[k]
    BY <1>5 DEF ApplyGC, Sweeps
  <2> QED
    BY <1>0, <2>1
<1> QED
  BY <1>0, <1>1, <1>2, <1>3, <1>4, <1>5
     DEF Next, vars, HeartbeatRead, HeartbeatGone, HeartbeatLocked, Busy, NestedBegin,
         CloseConnection, AnalyzeGC

\* Whoever renews has just read a claim of its own.
LEMMA RenewsOwnStep ==
  ASSUME TypeOK, RenewsOwn, [Next]_vars, InTime
  PROVE  RenewsOwn'
<1> SUFFICES ASSUME NEW o \in Owners
             PROVE  /\ renewing'[o] # Gone
                    /\ \A k \in Keys : renewing'[o] = k => Claimed(k)' /\ row'[k].owner = o
  BY DEF RenewsOwn, Claimed
<1>1. CASE renewing'[o] = renewing[o]
  BY <1>1, RenewedStays DEF InTime, RenewsOwn
<1>2. CASE renewing'[o] = None
  BY <1>2, NoneAssumption
<1>3. ASSUME NEW p \in Owners, NEW q \in Keys, HeartbeatRead(p, q), renewing'[o] # renewing[o]
      PROVE  renewing'[o] = q /\ Claimed(q)' /\ row'[q].owner = o
  <2>1. p = o /\ renewing'[o] = q /\ row[q].publication = "staging" /\ row[q].owner = o
    BY <1>3 DEF HeartbeatRead, Mine, TypeOK
  <2>2. row[q].live /\ UNCHANGED row
    BY <1>3, <2>1 DEF InTime, HeartbeatRead
  <2> QED
    BY <2>1, <2>2 DEF Claimed
<1>4. ASSUME NEW p \in Owners, NEW q \in Keys, NEW d \in Digests, StageClaim(p, q, d)
      PROVE  renewing'[o] = renewing[o]
  BY <1>4 DEF StageClaim, StageNew, StagePublished, StageQuarantined, StageTakeover, ReusesId,
              RenewsOwn, TypeOK
<1>5. ASSUME NEW p \in Owners,
             HeartbeatCommit(p) \/ HeartbeatLocked(p) \/ CloseConnection(p)
      PROVE  renewing'[o] = renewing[o] \/ renewing'[o] = None
  BY <1>5 DEF HeartbeatCommit, HeartbeatLocked, CloseConnection, TypeOK
<1>6. CASE ApplyGC
  <2>1. PICK swept \in SUBSET doomed :
           renewing' = [p \in Owners |-> IF renewing[p] \in swept THEN Gone ELSE renewing[p]]
    BY <1>6 DEF ApplyGC
  <2>2. renewing[o] \notin swept
    BY <1>6, <2>1 DEF InTime, Sweeps, TypeOK
  <2> QED
    BY <1>1, <2>1, <2>2
<1> QED
  <2>1. CASE \E p \in Owners, q \in Keys : HeartbeatRead(p, q)
    BY <1>1, <1>3, <2>1, NoneAssumption
  <2>2. CASE UNCHANGED renewing
    BY <1>1, <2>2
  <2> QED
    BY <1>1, <1>2, <1>4, <1>5, <1>6, <2>1, <2>2
       DEF Next, vars, PublishOneShot, PublishStagedCompletion, HeartbeatUpdate, HeartbeatGone,
           Busy, NestedBegin, ExpireLease, AnalyzeGC

\* "Owner-conditional lease renewal" (heartbeat_claim) holds of the renewals in time: then
\* no live claim is taken from its owner by anybody, renewals included (the collector
\* aside).  Only a renewal whose lease ran out, or whose row was swept, takes the claim
\* of somebody else.
THEOREM TimelyRenewalsAreOwnerConditional ==
  Spec /\ [][InTime]_vars => HeartbeatOwnerConditional
<1>1. Init => RenewsOwn
  BY NoneAssumption DEF Init, RenewsOwn
<1>2. TypeOK /\ RenewsOwn /\ [Next]_vars /\ [InTime]_vars => RenewsOwn'
  BY RenewsOwnStep DEF vars, RenewsOwn, Claimed
<1>3. TypeOK /\ RenewsOwn /\ [Next]_vars
        /\ [\A k \in Keys : Claimed(k) =>
               KeepsClaim(k) \/ Sweeps(k) \/ \E o \in Owners : HeartbeatUpdate(o, k)]_vars
      => [\A k \in Keys : Claimed(k) => KeepsClaim(k) \/ Sweeps(k)]_vars
  <2> SUFFICES ASSUME TypeOK, RenewsOwn, NEW k \in Keys, Claimed(k), NEW o \in Owners,
                      HeartbeatUpdate(o, k)
               PROVE  KeepsClaim(k)
    OBVIOUS
  <2> QED
    BY DEF RenewsOwn, HeartbeatUpdate, KeepsClaim, Claimed, TypeOK, Rows
<1> QED
  BY <1>1, <1>2, <1>3, TypeCorrect, LiveClaimsAreRespected, PTL
     DEF Spec, LiveClaimRespected, HeartbeatOwnerConditional
=============================================================================
