------------------------------ MODULE WorldStore ------------------------------
(***************************************************************************)
(* store_v2/worlds.py, store_v2/gc.py and the view resolution of           *)
(* mcp/shared/queryview.py: indexer runs build Worlds out of published     *)
(* SemanticStates, a garbage collector removes unreachable ones, and query *)
(* sessions pin a World.  All of them work on one SQLite file.             *)
(*                                                                         *)
(* A run certifies one TU at a time in two transactions: publication of    *)
(* the state (module StatePublication, one set here) and the binding of    *)
(* the TU to it.  The collector works in two steps as well: analyze_gc     *)
(* reads without a transaction, apply_gc deletes what the analysis named.  *)
(***************************************************************************)
EXTENDS Naturals

CONSTANTS Runs,        \* indexer runs, each with its V2WorldContext
          TUs,         \* tu_context ids; a TU stands for its source path too
          States,      \* (tusemantic_key, parser_generation) identities
          Sensitive,   \* the states with path_spelling_sensitive = 1
          Snapshots,   \* snapshot ids of the one namespace
          Sessions,    \* query sessions
          MaxWorld,    \* bound on the world_id handles
          Poisoned,    \* the row of a poisoned TU
          None

ASSUME WorldAssumption ==
  /\ Sensitive \subseteq States
  /\ MaxWorld \in Nat
  /\ Poisoned \notin States
  /\ None \notin States \cup {Poisoned}
  /\ \A r \in [snapshot : Snapshots, build : {"certified", "unknown"}] : r # None

VARIABLES world,     \* world[w]: the snapshot_builds row with world_id w
          binding,   \* binding[w][t]: the tu_bindings row of TU t in world w
          pub,       \* the published semantic_states
          buildRows, \* the build identities that have a row of builds
          running,   \* the runs that are running
          snap,      \* snap[r]: the snapshot r captured when it started
          build,     \* build[r]: ctx.build_identity_sha, anchored by r's first TU
          todo,      \* todo[r]: the TUs r has not looked at yet
          noted,     \* noted[r]: ctx.processed_tu_contexts
          unit,      \* unit[r]: the TU r has certified and must record
          analysis,  \* the GCAnalysis somebody holds, or None
          pin,       \* pin[q]: the pinned view of session q
          view       \* view[q]: the view the running handler of q reads with

runVars == <<running, snap, build, todo, noted, unit>>
rowVars == <<world, binding, pub, buildRows>>
queryVars == <<pin, view>>
vars == <<rowVars, runVars, analysis, queryVars>>

WorldIds == 1..MaxWorld

Builds == {"certified", "unknown"}   \* certified legs, or UNKNOWN legs

Idents == [snapshot : Snapshots, build : Builds]

Statuses == {"absent", "unfinalized", "active", "superseded", "retired", "failed", "retained"}

NoWorld == [ident |-> None, status |-> "absent"]

NoRows == [t \in TUs |-> None]

Views == [ident : Idents, id : WorldIds]

Units == [tu : TUs, target : States \cup {Poisoned}, build : Builds]

Init ==
  /\ world = [w \in WorldIds |-> NoWorld]
  /\ binding = [w \in WorldIds |-> NoRows]
  /\ pub = {}
  /\ buildRows = {}
  /\ running = {}
  /\ snap \in [Runs -> Snapshots]
  /\ build = [r \in Runs |-> None]
  /\ todo = [r \in Runs |-> {}]
  /\ noted = [r \in Runs |-> {}]
  /\ unit = [r \in Runs |-> None]
  /\ analysis = None
  /\ pin = [q \in Sessions |-> None]
  /\ view = [q \in Sessions |-> None]

-----------------------------------------------------------------------------
(***************************************************************************)
(* World rows.                                                             *)
(***************************************************************************)
Exists(w) == world[w].status # "absent"

\* SQLite gives a new row of an INTEGER PRIMARY KEY table the largest id in
\* use plus one, so the id of a deleted last row is handed out again.
Fresh(w) ==
  /\ ~Exists(w)
  /\ \A v \in WorldIds : v > w => ~Exists(v)
  /\ w = 1 \/ \E v \in WorldIds : v = w - 1 /\ Exists(v)

\* Mutant of EnsureWorld: insert without looking for the identity first.
EnsureWorldBlind(i, w) ==
  /\ Fresh(w)
  /\ world' = [world EXCEPT ![w] = [ident |-> i, status |-> "unfinalized"]]

\* _ensure_world_rows: w is the row of identity i, inserted if there is none.
EnsureWorld(i, w) ==
  \/ /\ world[w].ident = i
     /\ UNCHANGED world
  \/ /\ \A v \in WorldIds : world[v].ident # i
     /\ Fresh(w)
     /\ world' = [world EXCEPT ![w] = [ident |-> i, status |-> "unfinalized"]]

SetStatus(w, status) ==
  world' = [world EXCEPT ![w] = [ident |-> world[w].ident, status |-> status]]

\* The run's build identity is that of the first TU it recorded, whatever the
\* later ones certify.
Anchor(r) == IF build[r] = None THEN unit[r].build ELSE build[r]

IdentOf(r, b) == [snapshot |-> snap[r], build |-> b]

\* Only the recording that anchors the identity inserts its row of builds.
EnsureBuild(r) ==
  buildRows' = IF build[r] = None THEN buildRows \cup {Anchor(r)} ELSE buildRows

-----------------------------------------------------------------------------
(***************************************************************************)
(* Indexer runs.                                                           *)
(***************************************************************************)
StartRun(r, n) ==
  /\ r \notin running
  /\ running' = running \cup {r}
  /\ snap' = [snap EXCEPT ![r] = n]
  /\ todo' = [todo EXCEPT ![r] = TUs]
  /\ UNCHANGED <<build, noted, unit, rowVars, analysis, queryVars>>

\* The run is over and its V2WorldContext is dropped.
EndRun(r) ==
  /\ running' = running \ {r}
  /\ build' = [build EXCEPT ![r] = None]
  /\ todo' = [todo EXCEPT ![r] = {}]
  /\ noted' = [noted EXCEPT ![r] = {}]
  /\ unit' = [unit EXCEPT ![r] = None]
  /\ UNCHANGED snap

\* certify_and_publish_for_unit up to publication.  The TU is certified and
\* its state published, or publication is refused (the TU will be recorded as
\* poisoned), or certification poisons it, with or without certified legs, or
\* an exception is logged and the TU leaves no trace.
Certify(r, t) ==
  /\ r \in running
  /\ unit[r] = None
  /\ t \in todo[r]
  /\ todo' = [todo EXCEPT ![r] = @ \ {t}]
  /\ \/ \E s \in States :
          /\ pub' = pub \cup {s}
          /\ unit' = [unit EXCEPT ![r] = [tu |-> t, target |-> s, build |-> "certified"]]
     \/ \E b \in Builds :
          /\ unit' = [unit EXCEPT ![r] = [tu |-> t, target |-> Poisoned, build |-> b]]
          /\ UNCHANGED pub
     \/ UNCHANGED <<unit, pub>>
  /\ UNCHANGED <<running, snap, build, noted, world, binding, buildRows, analysis, queryVars>>

\* Mutant of SpellingClash: only completed worlds are consulted.
SpellingClashActive(s, t) ==
  /\ s \in Sensitive
  /\ \E w \in WorldIds, u \in TUs : /\ world[w].status = "active"
                                    /\ u # t
                                    /\ binding[w][u] = s

\* Another source path is already bound to a spelling-sensitive state.
SpellingClash(s, t) ==
  /\ s \in Sensitive
  /\ \E w \in WorldIds, u \in TUs : u # t /\ binding[w][u] = s

\* Mutant of InsertRow: the state is noted in place of the TU.
InsertRowNotingState(r, w, t, s) ==
  /\ binding' = [binding EXCEPT ![w] = [binding[w] EXCEPT ![t] = s]]
  /\ noted' = [noted EXCEPT ![r] = @ \cup {s}]

InsertRow(r, w, t, s) ==
  /\ binding' = [binding EXCEPT ![w] = [binding[w] EXCEPT ![t] = s]]
  /\ noted' = [noted EXCEPT ![r] = @ \cup {t}]

\* bind_tu: the gates, in one transaction.  Only a new row is noted.
Bind(r, w) ==
  LET t == unit[r].tu
      s == unit[r].target
  IN /\ unit[r] # None
     /\ s # Poisoned
     /\ EnsureWorld(IdentOf(r, Anchor(r)), w)
     /\ IF s \in pub /\ ~SpellingClash(s, t) /\ binding[w][t] = None
          THEN InsertRow(r, w, t, s)
          ELSE UNCHANGED <<binding, noted>>
     /\ EnsureBuild(r)
     /\ build' = [build EXCEPT ![r] = Anchor(r)]
     /\ unit' = [unit EXCEPT ![r] = None]
     /\ UNCHANGED <<pub, running, snap, todo, analysis, queryVars>>

\* Mutant of RecordPoison: INSERT OR REPLACE.
RecordPoisonOverwriting(r, w) ==
  /\ unit[r] # None
  /\ unit[r].target = Poisoned
  /\ EnsureWorld(IdentOf(r, Anchor(r)), w)
  /\ InsertRow(r, w, unit[r].tu, Poisoned)
  /\ EnsureBuild(r)
  /\ build' = [build EXCEPT ![r] = Anchor(r)]
  /\ unit' = [unit EXCEPT ![r] = None]
  /\ UNCHANGED <<pub, running, snap, todo, analysis, queryVars>>

\* record_poison: a row without a state, unless the TU already has a row.
RecordPoison(r, w) ==
  LET t == unit[r].tu
  IN /\ unit[r] # None
     /\ unit[r].target = Poisoned
     /\ EnsureWorld(IdentOf(r, Anchor(r)), w)
     /\ IF binding[w][t] = None
          THEN InsertRow(r, w, t, Poisoned)
          ELSE UNCHANGED <<binding, noted>>
     /\ EnsureBuild(r)
     /\ build' = [build EXCEPT ![r] = Anchor(r)]
     /\ unit' = [unit EXCEPT ![r] = None]
     /\ UNCHANGED <<pub, running, snap, todo, analysis, queryVars>>

\* The recording transaction fails (disk, busy store) and is rolled back; the
\* caller logs the error and goes on to the next TU.  A failure after
\* _ensure_world_rows leaves the run's build identity anchored, without its row.
RecordError(r) ==
  /\ unit[r] # None
  /\ build' \in {build, [build EXCEPT ![r] = Anchor(r)]}
  /\ unit' = [unit EXCEPT ![r] = None]
  /\ UNCHANGED <<running, snap, todo, noted, rowVars, analysis, queryVars>>

\* Mutant of Missing: the rows of every world count.
MissingAnywhere(r, w) == {t \in noted[r] : \A v \in WorldIds : binding[v][t] = None}

\* finalize_world at the end of the unit loop.
Missing(r, w) == {t \in noted[r] : binding[w][t] = None}

RunWorld(r, w) == build[r] # None /\ world[w].ident = IdentOf(r, build[r])

FinalizeOk(r, w) ==
  /\ RunWorld(r, w)
  /\ Missing(r, w) = {}
  /\ IF world[w].status \in {"unfinalized", "failed"}
       THEN SetStatus(w, "active")
       ELSE UNCHANGED world
  /\ EndRun(r)

FinalizeRefused(r) ==
  /\ \A w \in WorldIds : RunWorld(r, w) => Missing(r, w) # {}
  /\ EndRun(r)
  /\ UNCHANGED world

Finalize(r) ==
  /\ r \in running
  /\ unit[r] = None
  /\ todo[r] = {}
  /\ FinalizeRefused(r) \/ \E w \in WorldIds : FinalizeOk(r, w)
  /\ UNCHANGED <<binding, pub, buildRows, analysis, queryVars>>

\* The run's process dies, or the run stops early; its context is lost.
Crash(r) ==
  /\ r \in running
  /\ EndRun(r)
  /\ UNCHANGED <<rowVars, analysis, queryVars>>

-----------------------------------------------------------------------------
(***************************************************************************)
(* Garbage collection.  The caller of analyze_gc passes the pinned worlds  *)
(* and the worlds under construction it knows of at that moment.           *)
(***************************************************************************)
PinnedIds == {pin[q].id : q \in {p \in Sessions : pin[p] # None}}

Building == {w \in WorldIds : \E r \in Runs : r \in running /\ RunWorld(r, w)}

Eligible(w) ==
  /\ world[w].status \in {"failed", "superseded", "retired", "unfinalized"}
  /\ w \notin PinnedIds \cup Building

References(w, s) == \E t \in TUs : binding[w][t] = s

EligibleStates ==
  {s \in States : /\ \E w \in WorldIds : Eligible(w) /\ References(w, s)
                  /\ \A w \in WorldIds : Exists(w) /\ References(w, s) => Eligible(w)}

AnalyzeGC ==
  /\ analysis = None
  /\ analysis' = [worlds |-> {w \in WorldIds : Eligible(w)}, states |-> EligibleStates]
  /\ UNCHANGED <<rowVars, runVars, queryVars>>

\* Mutant of ApplyGC: the states are deleted as analysed.
ApplyGCUnchecked ==
  /\ analysis # None
  /\ world' = [w \in WorldIds |-> IF w \in analysis.worlds THEN NoWorld ELSE world[w]]
  /\ binding' = [w \in WorldIds |-> IF w \in analysis.worlds THEN NoRows ELSE binding[w]]
  /\ pub' = pub \ analysis.states
  /\ UNCHANGED <<buildRows, runVars, analysis, queryVars>>

\* apply_gc: one transaction.  The worlds are deleted as analysed, the states
\* only if no remaining row refers to them.  The analysis can be applied again.
ApplyGC ==
  /\ analysis # None
  /\ world' = [w \in WorldIds |-> IF w \in analysis.worlds THEN NoWorld ELSE world[w]]
  /\ binding' = [w \in WorldIds |-> IF w \in analysis.worlds THEN NoRows ELSE binding[w]]
  /\ pub' = pub \ {s \in analysis.states : \A w \in WorldIds \ analysis.worlds : ~References(w, s)}
  /\ UNCHANGED <<buildRows, runVars, analysis, queryVars>>

DropAnalysis ==
  /\ analysis # None
  /\ analysis' = None
  /\ UNCHANGED <<rowVars, runVars, queryVars>>

\* mark_world_failed, mark_world_retained and mark_world_retired.
MarkWorld(w) ==
  /\ \/ world[w].status \in {"unfinalized", "active"} /\ SetStatus(w, "failed")
     \/ world[w].status \notin {"absent", "active"} /\ SetStatus(w, "retained")
     \/ world[w].status \in {"active", "superseded", "retained"} /\ SetStatus(w, "retired")
  /\ UNCHANGED <<binding, pub, buildRows, runVars, analysis, queryVars>>

-----------------------------------------------------------------------------
(***************************************************************************)
(* Query sessions.                                                         *)
(***************************************************************************)

\* resolve_query_view: the build, the world and its status.
Queryable(v) ==
  /\ v.ident.build \in buildRows
  /\ \E w \in WorldIds : world[w] = [ident |-> v.ident, status |-> "active"]

ActiveOf(n) == {w \in WorldIds : world[w].status = "active" /\ world[w].ident.snapshot = n}

\* resolve_or_reuse_view with a pin: the pin is tested against the store, and
\* returned whatever the test says.  (No caller asks for force_refresh.)
ReusePin(q) ==
  /\ view[q] = None
  /\ pin[q] # None
  /\ view' = [view EXCEPT ![q] = pin[q]]
  /\ UNCHANGED <<pin, rowVars, runVars, analysis>>

\* Without a pin: the one active world of the workspace's snapshot n, which must
\* be queryable.  Otherwise it raises, and the handler reports the error.
ResolveView(q, n) ==
  /\ view[q] = None
  /\ pin[q] = None
  /\ \E w \in WorldIds :
        /\ ActiveOf(n) = {w}
        /\ Queryable([ident |-> world[w].ident, id |-> w])
        /\ pin' = [pin EXCEPT ![q] = [ident |-> world[w].ident, id |-> w]]
        /\ view' = [view EXCEPT ![q] = [ident |-> world[w].ident, id |-> w]]
  /\ UNCHANGED <<rowVars, runVars, analysis>>

\* The handler has read the bindings of view[q].id and answers.
Answer(q) ==
  /\ view[q] # None
  /\ view' = [view EXCEPT ![q] = None]
  /\ UNCHANGED <<pin, rowVars, runVars, analysis>>

EndSession(q) ==
  /\ view[q] = None
  /\ pin[q] # None
  /\ pin' = [pin EXCEPT ![q] = None]
  /\ UNCHANGED <<view, rowVars, runVars, analysis>>

-----------------------------------------------------------------------------
RunNext(r) ==
  \/ \E n \in Snapshots : StartRun(r, n)
  \/ \E t \in TUs : Certify(r, t)
  \/ \E w \in WorldIds : Bind(r, w) \/ RecordPoison(r, w)
  \/ RecordError(r)
  \/ Finalize(r)
  \/ Crash(r)

GCNext == AnalyzeGC \/ ApplyGC \/ DropAnalysis \/ \E w \in WorldIds : MarkWorld(w)

QueryNext(q) ==
  \/ ReusePin(q)
  \/ \E n \in Snapshots : ResolveView(q, n)
  \/ Answer(q)
  \/ EndSession(q)

Next ==
  \/ \E r \in Runs : RunNext(r)
  \/ GCNext
  \/ \E q \in Sessions : QueryNext(q)

Spec == Init /\ [][Next]_vars

-----------------------------------------------------------------------------
(***************************************************************************)
(* Properties.                                                             *)
(***************************************************************************)

\* Every variable has the shape the schema and the code give it.
TypeOK ==
  /\ world \in [WorldIds -> [ident : Idents \cup {None}, status : Statuses]]
  /\ binding \in [WorldIds -> [TUs -> States \cup {Poisoned, None}]]
  /\ pub \subseteq States
  /\ buildRows \subseteq Builds
  /\ running \subseteq Runs
  /\ snap \in [Runs -> Snapshots]
  /\ build \in [Runs -> Builds \cup {None}]
  /\ todo \in [Runs -> SUBSET TUs]
  /\ noted \in [Runs -> SUBSET TUs]
  /\ unit \in [Runs -> Units \cup {None}]
  /\ analysis \in [worlds : SUBSET WorldIds, states : SUBSET States] \cup {None}
  /\ pin \in [Sessions -> Views \cup {None}]
  /\ view \in [Sessions -> Views \cup {None}]

\* One row per identity: a retried or concurrent run over the same snapshot and
\* build converges on the same world row (snapshot_builds UNIQUE).
OneWorldPerIdentity ==
  \A v, w \in WorldIds : Exists(v) /\ world[v].ident = world[w].ident => v = w

\* INV-8 and the sweep rule of gc.py (section 10): whatever the collector deletes
\* between a publication and its binding, every bound row of an existing world
\* points to a published state, and no row survives its world.
BoundToPublished ==
  \A w \in WorldIds, t \in TUs :
     binding[w][t] # None =>
        /\ Exists(w)
        /\ binding[w][t] # Poisoned => binding[w][t] \in pub

\* A-2: a spelling-sensitive state never serves two source paths, in whatever
\* worlds and by whatever runs they were bound.
SpellingUnique ==
  \A v, w \in WorldIds, t, u \in TUs :
     binding[v][t] \in Sensitive /\ binding[w][u] = binding[v][t] => t = u

\* No last writer wins (section 22): a row of a world that stays in the store
\* never changes, not even from poisoned to bound.
RowsImmutable ==
  [][\A w \in WorldIds, t \in TUs :
        binding[w][t] # None =>
           binding'[w][t] = binding[w][t] \/ world'[w] = NoWorld]_vars

Activated(w) == world[w].status # "active" /\ world'[w].status = "active"

\* Only the end of a run over that world makes it queryable, and then the world
\* has a row for every TU the run recorded: rows lost to the collector in
\* between, with the world recreated by a later TU, keep it unfinalized.
ActivatedWorldKeepsRun ==
  [][\A w \in WorldIds : Activated(w) =>
        \E r \in running : /\ RunWorld(r, w)
                           /\ \A t \in noted[r] : binding'[w][t] # None]_vars

\* gc.py: "a crash must NOT make a still-rooted World unusable -- root Worlds are
\* never in the candidate set".  A completed world is a root, so no step
\* deletes one.
RootsSurvive ==
  [][\A w \in WorldIds : world[w].status = "active" => world'[w] # NoWorld]_vars

\* _ensure_world_rows: "Materialize namespace -> snapshot -> build -> world rows".
\* A world row has its build row, whatever recordings failed; without it
\* resolve_query_view refuses the world, however complete it is.
WorldHasBuild ==
  \A w \in WorldIds : Exists(w) => world[w].ident.build \in buildRows

\* resolve_or_reuse_view: a pin whose world is gone is resolved anew, so the
\* view a handler gets is that of a queryable world.
ServedIsQueryable ==
  [][\A q \in Sessions : view[q] = None /\ view'[q] # None => Queryable(view'[q])]_vars
=============================================================================
