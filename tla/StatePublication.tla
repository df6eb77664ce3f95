--------------------------- MODULE StatePublication ---------------------------
(***************************************************************************)
(* store_v2/publish.py: publication of immutable SemanticStates by several *)
(* indexer processes that share one SQLite file.                           *)
(*                                                                         *)
(* Every function of the module opens one BEGIN IMMEDIATE transaction, so  *)
(* a call is one atomic step here, except heartbeat_claim, whose SELECT    *)
(* runs outside of any transaction and is a step of its own.  Each owner   *)
(* is a process with its own connection.  A connection may be left inside  *)
(* an implicit write transaction; the rows it wrote are then not visible   *)
(* to anybody else and the write lock of the file is held.                 *)
(*                                                                         *)
(* store_v2/gc.py deletes rows of the same table: its collector is a       *)
(* process of its own here.  Which rows it may name depends on the worlds, *)
(* which WorldStore has in detail; here it is any set of rows that worlds  *)
(* can refer to.                                                           *)
(*                                                                         *)
(* Time appears only through leases: a lease is live until its deadline    *)
(* passes, which may happen at any moment.                                 *)
(***************************************************************************)
CONSTANTS Owners,    \* processes: the values of the owner argument
          Keys,      \* identities (tusemantic_key, parser_generation)
          Digests,   \* fact_set_digest values the processes compute
          None,
          Gone       \* the state_id of a row that was deleted

ASSUME NoneAssumption ==
  None \notin Owners \cup Keys \cup Digests /\ Gone \notin Keys \cup {None}

VARIABLES row,       \* row[k]: the semantic_states row of k
          events,    \* the committed integrity_events
          pending,   \* pending[o]: events o's connection wrote but not committed
          renewing,  \* renewing[o]: the row heartbeat_claim read as o's own
          last,      \* last[o]: what o's latest call was and what it returned
          doomed     \* the keys that the collector's latest analysis names

vars == <<row, events, pending, renewing, last, doomed>>

(***************************************************************************)
(* The data.                                                               *)
(***************************************************************************)
AbsentRow == [publication |-> "absent", digest |-> None, owner |-> None, live |-> FALSE]

QuarantinedRow(d) ==
  [publication |-> "quarantined", digest |-> d, owner |-> None, live |-> FALSE]

PublishedRow(d) ==
  [publication |-> "published", digest |-> d, owner |-> None, live |-> FALSE]

StagingRow(d, o) ==
  [publication |-> "staging", digest |-> d, owner |-> o, live |-> TRUE]

Rows == [publication : {"absent", "staging", "published", "quarantined"},
         digest      : Digests \cup {None},
         owner       : Owners \cup {None},
         live        : BOOLEAN]

Event(k, d) == [key |-> k, existing |-> row[k].digest, candidate |-> d]

Events == [key : Keys, existing : Digests \cup {None}, candidate : Digests]

Replies == [op     : {"none", "one_shot", "stage"},
            key    : Keys \cup {None},
            digest : Digests \cup {None},
            res    : {"none", "published_new", "converged", "staged_new",
                      "staged_adopted", "staged_active", "refused_conflict",
                      "refused_quarantined", "busy", "error",
                      "renewed", "not_ours"}]

Reply(o, op, k, d, res) ==
  last' = [last EXCEPT ![o] = [op |-> op, key |-> k, digest |-> d, res |-> res]]

Record(e) == events' = events \cup {e}

\* Which call it was is kept of the refusals that owe an event, and the facts it was
\* about of these and of the successes.
Told(o, k, d, res) == Reply(o, "none", k, d, res)

Answer(o, res) == Reply(o, "none", None, None, res)

(***************************************************************************)
(* A quarantined row is put there by repair tooling outside this module    *)
(* (nothing under src/ sets it), so the rows start absent or quarantined.  *)
(***************************************************************************)
Init ==
  /\ row \in [Keys -> {AbsentRow} \cup {QuarantinedRow(d) : d \in Digests}]
  /\ events = {}
  /\ pending = [o \in Owners |-> {}]
  /\ renewing = [o \in Owners |-> None]
  /\ last = [o \in Owners |-> [op |-> "none", key |-> None, digest |-> None, res |-> "none"]]
  /\ doomed = {}

-----------------------------------------------------------------------------
(***************************************************************************)
(* Transactions.  BEGIN IMMEDIATE succeeds when no connection holds the    *)
(* write lock.  When another one does, every retry of the bounded loop may *)
(* fail and the call returns "busy"; on a connection that is itself inside *)
(* a transaction BEGIN raises, and the callers close the store on the way  *)
(* out (certify.py: try ... finally: store.close()), which rolls back.     *)
(***************************************************************************)
InTransaction(o) == pending[o] # {}

LockedByOther(o) == \E p \in Owners \ {o} : InTransaction(p)

Begin(o) ==
  /\ renewing[o] = None
  /\ ~InTransaction(o)
  /\ ~LockedByOther(o)

Busy(o) ==
  /\ renewing[o] = None
  /\ ~InTransaction(o)
  /\ LockedByOther(o)
  /\ Answer(o, "busy")
  /\ UNCHANGED <<row, events, pending, renewing, doomed>>

NestedBegin(o) ==
  /\ renewing[o] = None
  /\ InTransaction(o)
  /\ Answer(o, "error")
  /\ pending' = [pending EXCEPT ![o] = {}]
  /\ UNCHANGED <<row, events, renewing, doomed>>

Mine(o, k) == row[k].owner = o

\* Mutant of ForeignActive: the test of the deadline is inverted.
ForeignExpired(o, k) == ~Mine(o, k) /\ ~row[k].live

ForeignActive(o, k) == ~Mine(o, k) /\ row[k].live

-----------------------------------------------------------------------------
(***************************************************************************)
(* publish_one_shot: the production path.                                  *)
(***************************************************************************)
OneShotNew(o, k, d) ==
  /\ row[k].publication = "absent"
  /\ row' = [row EXCEPT ![k] = PublishedRow(d)]
  /\ Told(o, k, d, "published_new")
  /\ UNCHANGED events

\* Mutant of OneShotPublished: last writer wins.
OneShotReplaces(o, k, d) ==
  /\ row[k].publication = "published"
  /\ row' = [row EXCEPT ![k] = PublishedRow(d)]
  /\ Told(o, k, d, IF row[k].digest = d THEN "converged" ELSE "published_new")
  /\ UNCHANGED events

\* Mutant of OneShotPublished: the reply does not compare the digests.
OneShotConverges(o, k, d) ==
  /\ row[k].publication = "published"
  /\ Told(o, k, d, "converged")
  /\ UNCHANGED <<row, events>>

OneShotPublished(o, k, d) ==
  /\ row[k].publication = "published"
  /\ \/ /\ row[k].digest = d
        /\ Told(o, k, d, "converged")
        /\ UNCHANGED events
     \/ /\ row[k].digest # d
        /\ Record(Event(k, d))
        /\ Reply(o, "one_shot", k, d, "refused_conflict")
  /\ UNCHANGED row

OneShotQuarantined(o, k, d) ==
  /\ row[k].publication = "quarantined"
  /\ Record(Event(k, d))
  /\ Answer(o, "refused_quarantined")
  /\ UNCHANGED row

\* Mutant of OneShotStaging: a conflict with a claim is refused silently.
OneShotStagingSilent(o, k, d) ==
  /\ row[k].publication = "staging"
  /\ \/ /\ ForeignActive(o, k)
        /\ Answer(o, "staged_active")
        /\ UNCHANGED row
     \/ /\ ~ForeignActive(o, k)
        /\ row[k].digest # d
        /\ Reply(o, "one_shot", k, d, "refused_conflict")
        /\ UNCHANGED row
     \/ /\ ~ForeignActive(o, k)
        /\ row[k].digest = d
        /\ row' = [row EXCEPT ![k] = PublishedRow(d)]
        /\ Told(o, k, d, "published_new")
  /\ UNCHANGED events

OneShotStaging(o, k, d) ==
  /\ row[k].publication = "staging"
  /\ \/ /\ ForeignActive(o, k)
        /\ Answer(o, "staged_active")
        /\ UNCHANGED <<row, events>>
     \/ /\ ~ForeignActive(o, k)
        /\ row[k].digest # d
        /\ Record(Event(k, d))
        /\ Reply(o, "one_shot", k, d, "refused_conflict")
        /\ UNCHANGED row
     \/ /\ ~ForeignActive(o, k)
        /\ row[k].digest = d
        /\ row' = [row EXCEPT ![k] = PublishedRow(d)]
        /\ Told(o, k, d, "published_new")
        /\ UNCHANGED events

PublishOneShot(o, k, d) ==
  /\ Begin(o)
  /\ \/ OneShotNew(o, k, d)
     \/ OneShotPublished(o, k, d)
     \/ OneShotQuarantined(o, k, d)
     \/ OneShotStaging(o, k, d)
  /\ UNCHANGED <<pending, renewing, doomed>>

-----------------------------------------------------------------------------
(***************************************************************************)
(* publish_staged_completion: turn a claim into a published state.         *)
(***************************************************************************)
CompleteUnstaged(o, k, d) ==
  /\ row[k].publication # "staging"
  /\ IF row[k].publication = "published" /\ row[k].digest = d
       THEN Told(o, k, d, "converged")
       ELSE Answer(o, "refused_conflict")
  /\ UNCHANGED <<row, events>>

\* Mutant of CompleteStaging: the claim's digest is not compared.
CompleteUnchecked(o, k, d) ==
  /\ row[k].publication = "staging"
  /\ ~ForeignActive(o, k)
  /\ row' = [row EXCEPT ![k] = PublishedRow(d)]
  /\ Told(o, k, d, "published_new")
  /\ UNCHANGED events

CompleteStaging(o, k, d) ==
  /\ row[k].publication = "staging"
  /\ \/ /\ ForeignActive(o, k)
        /\ Answer(o, "staged_active")
        /\ UNCHANGED <<row, events>>
     \/ /\ ~ForeignActive(o, k)
        /\ row[k].digest # d
        /\ Record(Event(k, d))
        /\ Answer(o, "refused_conflict")
        /\ UNCHANGED row
     \/ /\ ~ForeignActive(o, k)
        /\ row[k].digest = d
        /\ row' = [row EXCEPT ![k] = PublishedRow(row[k].digest)]
        /\ Told(o, k, d, "published_new")
        /\ UNCHANGED events

PublishStagedCompletion(o, k, d) ==
  /\ Begin(o)
  /\ CompleteUnstaged(o, k, d) \/ CompleteStaging(o, k, d)
  /\ UNCHANGED <<pending, renewing, doomed>>

-----------------------------------------------------------------------------
(***************************************************************************)
(* stage_claim.  Against a published row with another digest the function  *)
(* commits first, inserts the integrity event afterwards, and returns: the *)
(* insert has opened an implicit transaction nobody commits.               *)
(*                                                                         *)
(* state_id is an INTEGER PRIMARY KEY without AUTOINCREMENT: a new row may *)
(* get the id of a deleted one, and with it the renewals under way for it. *)
(* (A row that is inserted as published takes no renewal either way.)      *)
(***************************************************************************)
ReusesId(k) ==
  \E heirs \in SUBSET {o \in Owners : renewing[o] = Gone} :
     renewing' = [o \in Owners |-> IF o \in heirs THEN k ELSE renewing[o]]

StageNew(o, k, d) ==
  /\ row[k].publication = "absent"
  /\ row' = [row EXCEPT ![k] = StagingRow(d, o)]
  /\ ReusesId(k)
  /\ Answer(o, "staged_new")
  /\ UNCHANGED pending

StagePublished(o, k, d) ==
  /\ row[k].publication = "published"
  /\ \/ /\ row[k].digest = d
        /\ Told(o, k, d, "converged")
        /\ UNCHANGED pending
     \/ /\ row[k].digest # d
        /\ pending' = [pending EXCEPT ![o] = @ \cup {Event(k, d)}]
        /\ Reply(o, "stage", k, d, "refused_conflict")
  /\ UNCHANGED <<row, renewing>>

StageQuarantined(o, k, d) ==
  /\ row[k].publication = "quarantined"
  /\ Answer(o, "refused_quarantined")
  /\ UNCHANGED <<row, pending, renewing>>

\* Mutant of StageTakeover: the digest takes the owner's column.
StageTakeoverSwapped(o, k, d) ==
  /\ row[k].publication = "staging"
  /\ ~ForeignActive(o, k)
  /\ row' = [row EXCEPT ![k] = StagingRow(o, d)]
  /\ Answer(o, "staged_adopted")
  /\ UNCHANGED <<pending, renewing>>

StageTakeover(o, k, d) ==
  /\ row[k].publication = "staging"
  /\ IF ForeignActive(o, k)
       THEN /\ Answer(o, "staged_active")
            /\ UNCHANGED row
       ELSE /\ row' = [row EXCEPT ![k] = StagingRow(d, o)]
            /\ Answer(o, "staged_adopted")
  /\ UNCHANGED <<pending, renewing>>

StageClaim(o, k, d) ==
  /\ Begin(o)
  /\ \/ StageNew(o, k, d)
     \/ StagePublished(o, k, d)
     \/ StageQuarantined(o, k, d)
     \/ StageTakeover(o, k, d)
  /\ UNCHANGED <<events, doomed>>

-----------------------------------------------------------------------------
(***************************************************************************)
(* heartbeat_claim: a SELECT and an ownership test, then, with no lock     *)
(* held in between, an UPDATE of the row with that id that only asks for   *)
(* publication = 'staging'.  Its commit also commits whatever the          *)
(* connection had left uncommitted.                                        *)
(***************************************************************************)
HeartbeatRead(o, k) ==
  /\ renewing[o] = None
  /\ IF row[k].publication = "staging" /\ Mine(o, k)
       THEN renewing' = [renewing EXCEPT ![o] = k] /\ UNCHANGED last
       ELSE Answer(o, "not_ours") /\ UNCHANGED renewing
  /\ UNCHANGED <<row, events, pending, doomed>>

\* The commit that ends the UPDATE.
HeartbeatCommit(o) ==
  /\ events' = events \cup pending[o]
  /\ pending' = [pending EXCEPT ![o] = {}]
  /\ renewing' = [renewing EXCEPT ![o] = None]
  /\ UNCHANGED doomed

HeartbeatUpdate(o, k) ==
  /\ renewing[o] = k
  /\ ~LockedByOther(o)
  /\ IF row[k].publication = "staging"
       THEN /\ row' = [row EXCEPT ![k].owner = o, ![k].live = TRUE]
            /\ Answer(o, "renewed")
       ELSE /\ Answer(o, "not_ours")
            /\ UNCHANGED row
  /\ HeartbeatCommit(o)

\* The UPDATE finds no row with that id.
HeartbeatGone(o) ==
  /\ renewing[o] = Gone
  /\ ~LockedByOther(o)
  /\ Answer(o, "not_ours")
  /\ HeartbeatCommit(o)
  /\ UNCHANGED row

\* The UPDATE cannot get the write lock within busy_timeout and raises.
HeartbeatLocked(o) ==
  /\ renewing[o] # None
  /\ LockedByOther(o)
  /\ Answer(o, "error")
  /\ renewing' = [renewing EXCEPT ![o] = None]
  /\ UNCHANGED <<row, events, pending, doomed>>

-----------------------------------------------------------------------------
(***************************************************************************)
(* The collector (gc.py).  analyze_gc reads outside of a transaction and   *)
(* names keys that worlds refer to, hence rows that were published.        *)
(* apply_gc deletes, in one transaction, the rows of those keys that no    *)
(* world refers to by then, in whatever state they are; the same analysis  *)
(* can be applied late, and again.  When the write lock is taken it only   *)
(* reports an error.                                                       *)
(***************************************************************************)
AnalyzeGC ==
  /\ doomed' \in SUBSET {k \in Keys : row[k].publication \in {"published", "quarantined"}}
  /\ UNCHANGED <<row, events, pending, renewing, last>>

ApplyGC ==
  /\ \A o \in Owners : ~InTransaction(o)
  /\ \E swept \in SUBSET doomed :
        /\ row' = [k \in Keys |-> IF k \in swept THEN AbsentRow ELSE row[k]]
        /\ renewing' = [o \in Owners |-> IF renewing[o] \in swept THEN Gone ELSE renewing[o]]
  /\ UNCHANGED <<events, pending, last, doomed>>

-----------------------------------------------------------------------------
\* The deadline of k's lease passes.
ExpireLease(k) ==
  /\ row[k].live
  /\ row' = [row EXCEPT ![k].live = FALSE]
  /\ UNCHANGED <<events, pending, renewing, last, doomed>>

\* store.close(), or the death of the process: SQLite rolls back, and the
\* call that was in progress never returns.
CloseConnection(o) ==
  /\ InTransaction(o) \/ renewing[o] # None
  /\ pending' = [pending EXCEPT ![o] = {}]
  /\ renewing' = [renewing EXCEPT ![o] = None]
  /\ UNCHANGED <<row, events, last, doomed>>

Next ==
  \/ \E o \in Owners, k \in Keys, d \in Digests :
        \/ PublishOneShot(o, k, d)
        \/ PublishStagedCompletion(o, k, d)
        \/ StageClaim(o, k, d)
  \/ \E o \in Owners, k \in Keys : HeartbeatRead(o, k) \/ HeartbeatUpdate(o, k)
  \/ \E o \in Owners :
        \/ HeartbeatGone(o)
        \/ HeartbeatLocked(o)
        \/ Busy(o)
        \/ NestedBegin(o)
        \/ CloseConnection(o)
  \/ \E k \in Keys : ExpireLease(k)
  \/ AnalyzeGC
  \/ ApplyGC

Spec == Init /\ [][Next]_vars

-----------------------------------------------------------------------------
(***************************************************************************)
(* Properties.                                                             *)
(***************************************************************************)

\* Every variable has the shape the schema and the code give it.
TypeOK ==
  /\ row \in [Keys -> Rows]
  /\ events \subseteq Events
  /\ pending \in [Owners -> SUBSET Events]
  /\ renewing \in [Owners -> Keys \cup {None, Gone}]
  /\ last \in [Owners -> Replies]
  /\ doomed \subseteq Keys

\* What o was told about its latest facts is so: the row is published with exactly the
\* digest that o presented.
Stands(o) ==
  last[o].res \in {"published_new", "converged"} =>
     /\ last[o].key \in Keys
     /\ row[last[o].key].publication = "published"
     /\ row[last[o].key].digest = last[o].digest

\* The collector applies an analysis that names k.
Sweeps(k) == k \in doomed /\ ApplyGC

\* A call that tells its caller "published" (published_new or converged) says so only
\* when it is so, and whatever the other processes do it stays so until the collector
\* applies an analysis that names the key.  Hence two callers that both succeeded under
\* one key, with no sweep of it in between, agree on the facts (publish.py, R-T1
\* convergence).
SuccessStands ==
  [][\A o \in Owners :
       /\ last'[o] # last[o] => Stands(o)'
       /\ Stands(o) => Stands(o)' \/ Sweeps(last[o].key)]_vars

\* W-1 tripwire on the production path: whoever publish_one_shot refuses for a
\* digest conflict leaves a committed integrity event naming the candidate and
\* a different existing digest.
OneShotConflictRecorded ==
  \A o \in Owners : last[o].op = "one_shot" /\ last[o].res = "refused_conflict" =>
     \E e \in events : /\ e.key = last[o].key
                       /\ e.candidate = last[o].digest
                       /\ e.existing # e.candidate

\* The same promise for stage_claim, which the module docstring makes for every
\* existing row with a different digest.
StageConflictRecorded ==
  \A o \in Owners : last[o].op = "stage" /\ last[o].res = "refused_conflict" =>
     \E e \in events : e.key = last[o].key /\ e.candidate = last[o].digest

Claimed(k) == row[k].publication = "staging" /\ row[k].live

KeepsClaim(k) ==
  \/ row'[k].publication = "staging" /\ row'[k].owner = row[k].owner
  \/ /\ row'[k].publication = "published"
     /\ last'[row[k].owner].key = k
     /\ last'[row[k].owner].res = "published_new"

\* A live claim is the owner's alone: no publisher and no claimer takes it over
\* or publishes through it before the lease runs out.  (Renewals are excepted, and the
\* collector when its analysis named the key while it was published: see
\* HeartbeatOwnerConditional and CollectorSparesClaims.)
LiveClaimRespected ==
  [][\A k \in Keys : Claimed(k) =>
        KeepsClaim(k) \/ Sweeps(k) \/ \E o \in Owners : HeartbeatUpdate(o, k)]_vars

\* heartbeat_claim's docstring: "Owner-conditional lease renewal".  No process, renewals
\* included, takes a live claim from its owner.
HeartbeatOwnerConditional == [][\A k \in Keys : Claimed(k) => KeepsClaim(k) \/ Sweeps(k)]_vars

\* apply_gc's docstring: "re-running with the same analysis is safe (already-deleted rows
\* are simply not found)".  The collector never deletes a row that somebody claims.
CollectorSparesClaims == [][\A k \in Keys : Claimed(k) /\ ApplyGC => row'[k] = row[k]]_vars

\* A claim becomes published only with the digest it was claimed for: stale
\* claims never adopt divergent facts, even after takeovers and renewals.
NoDivergentAdoption ==
  [][\A k \in Keys :
        row[k].publication = "staging" /\ row'[k].publication = "published"
           => row'[k].digest = row[k].digest]_vars

\* Publication implements the table of published facts: whatever claims, takeovers,
\* expiries, closes and sweeps happen, a key's digest is chosen while there is none, never
\* changes while it is there (INV-1, "a published state is immutable"), and goes away only
\* when the collector applies an analysis that names the key.
published == [k \in Keys |-> IF row[k].publication = "published" THEN row[k].digest ELSE None]

Abstract == INSTANCE PublishedFacts WITH chosen <- published, condemned <- doomed

ImplementsPublishedFacts == Abstract!Spec
=============================================================================
