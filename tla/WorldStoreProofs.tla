--------------------------- MODULE WorldStoreProofs ---------------------------
(***************************************************************************)
(* Proofs about WorldStore for any sets of runs, TUs, states, snapshots    *)
(* and sessions and any bound on the world ids.                            *)
(*                                                                         *)
(* Every step changes the shared rows in one of five ways (RowStep); the   *)
(* invariants of the rows are then proved once per way and not once per    *)
(* action.                                                                 *)
(***************************************************************************)
EXTENDS WorldStore, TLAPS

WorldRows == [ident : Idents \cup {None}, status : Statuses]

\* The strengthening: a world id is free exactly when it has no identity.
WorldsFormed ==
  \A w \in WorldIds : world[w].status = "absent" <=> world[w].ident = None

-----------------------------------------------------------------------------
(***************************************************************************)
(* Type correctness.                                                       *)
(***************************************************************************)

\* _ensure_world_rows touches row w only, and leaves there a row of identity i:
\* the one that was there or a new one, unfinalized.
LEMMA EnsureWorldRow ==
  ASSUME TypeOK, WorldsFormed, NEW i \in Idents, NEW w \in WorldIds, EnsureWorld(i, w)
  PROVE  /\ world' \in [WorldIds -> WorldRows]
         /\ world'[w].ident = i
         /\ world'[w].status # "absent"
         /\ \A v \in WorldIds : v # w => world'[v] = world[v]
         /\ \/ world'[w] = world[w]
            \/ /\ world[w].status = "absent"
               /\ world'[w].status = "unfinalized"
               /\ \A v \in WorldIds : world[v].ident # i
<1>1. None \notin Idents
  BY WorldAssumption DEF Idents, Builds
<1>2. world \in [WorldIds -> WorldRows]
  BY DEF TypeOK, WorldRows
<1>3. CASE world[w].ident = i /\ UNCHANGED world
  BY <1>1, <1>2, <1>3 DEF WorldsFormed
<1>4. CASE /\ \A v \in WorldIds : world[v].ident # i
           /\ Fresh(w)
           /\ world' = [world EXCEPT ![w] = [ident |-> i, status |-> "unfinalized"]]
  <2>1. [ident |-> i, status |-> "unfinalized"] \in WorldRows
    BY DEF WorldRows, Statuses
  <2> QED
    BY <1>2, <1>4, <2>1 DEF Fresh, Exists
<1> QED
  BY <1>3, <1>4 DEF EnsureWorld

\* The build a run's next recording anchors or has anchored.
LEMMA AnchorType ==
  ASSUME TypeOK, NEW r \in Runs, unit[r] # None
  PROVE  /\ Anchor(r) \in Builds
         /\ IdentOf(r, Anchor(r)) \in Idents
         /\ unit[r] \in Units
         /\ unit[r].tu \in TUs
         /\ unit[r].target \in States \cup {Poisoned}
<1>1. unit[r] \in Units
  BY DEF TypeOK
<1>2. /\ unit[r].tu \in TUs
      /\ unit[r].target \in States \cup {Poisoned}
      /\ unit[r].build \in Builds
  BY <1>1 DEF Units
<1>3. Anchor(r) \in Builds
  BY <1>2 DEF Anchor, TypeOK
<1> QED
  BY <1>1, <1>2, <1>3 DEF IdentOf, Idents, TypeOK

\* Inserting a row.
LEMMA InsertRowType ==
  ASSUME TypeOK, NEW r \in Runs, NEW w \in WorldIds, NEW t \in TUs,
         NEW s \in States \cup {Poisoned}, InsertRow(r, w, t, s)
  PROVE  /\ binding' \in [WorldIds -> [TUs -> States \cup {Poisoned, None}]]
         /\ noted' \in [Runs -> SUBSET TUs]
<1>1. [binding[w] EXCEPT ![t] = s] \in [TUs -> States \cup {Poisoned, None}]
  BY DEF TypeOK
<1> QED
  BY <1>1 DEF TypeOK, InsertRow

\* bind_tu and record_poison keep the types.
LEMMA RecordingType ==
  ASSUME TypeOK, WorldsFormed, NEW r \in Runs, NEW w \in WorldIds,
         Bind(r, w) \/ RecordPoison(r, w)
  PROVE  TypeOK'
<1>1. unit[r] # None
  BY DEF Bind, RecordPoison
<1>2. /\ Anchor(r) \in Builds
      /\ IdentOf(r, Anchor(r)) \in Idents
      /\ unit[r].tu \in TUs
      /\ unit[r].target \in States \cup {Poisoned}
  BY <1>1, AnchorType
<1>3. world' \in [WorldIds -> WorldRows]
  BY <1>2, EnsureWorldRow DEF Bind, RecordPoison
<1>4. /\ binding' \in [WorldIds -> [TUs -> States \cup {Poisoned, None}]]
      /\ noted' \in [Runs -> SUBSET TUs]
  <2>1. \/ InsertRow(r, w, unit[r].tu, unit[r].target)
        \/ UNCHANGED <<binding, noted>>
    BY DEF Bind, RecordPoison
  <2> QED
    BY <1>2, <2>1, InsertRowType DEF TypeOK
<1>5. buildRows' \subseteq Builds
  BY <1>2 DEF Bind, RecordPoison, EnsureBuild, TypeOK
<1>6. build' \in [Runs -> Builds \cup {None}] /\ unit' \in [Runs -> Units \cup {None}]
  BY <1>2 DEF Bind, RecordPoison, TypeOK
<1> QED
  BY <1>3, <1>4, <1>5, <1>6 DEF Bind, RecordPoison, TypeOK, WorldRows, queryVars

\* The initial state has the types and is well formed.
LEMMA InitType == Init => TypeOK /\ WorldsFormed
<1> SUFFICES ASSUME Init PROVE TypeOK /\ WorldsFormed
  OBVIOUS
<1>1. NoWorld \in WorldRows
  BY DEF NoWorld, WorldRows, Statuses
<1>2. world \in [WorldIds -> WorldRows] /\ WorldsFormed
  BY <1>1 DEF Init, WorldsFormed, NoWorld
<1>3. binding \in [WorldIds -> [TUs -> States \cup {Poisoned, None}]]
  BY DEF Init, NoRows
<1> QED
  BY <1>2, <1>3 DEF Init, TypeOK, WorldRows

\* The end of a run resets its context.
LEMMA EndRunType ==
  ASSUME TypeOK, NEW r \in Runs, EndRun(r)
  PROVE  /\ running' \subseteq Runs
         /\ snap' \in [Runs -> Snapshots]
         /\ build' \in [Runs -> Builds \cup {None}]
         /\ todo' \in [Runs -> SUBSET TUs]
         /\ noted' \in [Runs -> SUBSET TUs]
         /\ unit' \in [Runs -> Units \cup {None}]
BY DEF TypeOK, EndRun

\* Setting the status of a world that exists.
LEMMA SetStatusType ==
  ASSUME TypeOK, NEW w \in WorldIds, NEW st \in Statuses, SetStatus(w, st)
  PROVE  world' \in [WorldIds -> WorldRows]
<1>1. [ident |-> world[w].ident, status |-> st] \in WorldRows
  BY DEF TypeOK, WorldRows
<1> QED
  BY <1>1 DEF TypeOK, SetStatus, WorldRows

\* The types under every step of a run.
LEMMA RunType ==
  ASSUME TypeOK, WorldsFormed, NEW r \in Runs, RunNext(r)
  PROVE  TypeOK'
<1>1. ASSUME NEW n \in Snapshots, StartRun(r, n) PROVE TypeOK'
  BY <1>1 DEF StartRun, TypeOK, rowVars, queryVars
<1>2. ASSUME NEW t \in TUs, Certify(r, t) PROVE TypeOK'
  <2>1. /\ todo' \in [Runs -> SUBSET TUs]
        /\ pub' \subseteq States
    BY <1>2 DEF Certify, TypeOK
  <2>2. \A s \in States \cup {Poisoned}, b \in Builds :
           [tu |-> t, target |-> s, build |-> b] \in Units
    BY DEF Units
  <2>3. "certified" \in Builds
    BY DEF Builds
  <2>4. \/ \E u \in Units : unit' = [unit EXCEPT ![r] = u]
        \/ UNCHANGED unit
    BY <1>2, <2>2, <2>3 DEF Certify
  <2>5. unit' \in [Runs -> Units \cup {None}]
    BY <2>4 DEF TypeOK
  <2> QED
    BY <1>2, <2>1, <2>5 DEF Certify, TypeOK, queryVars
<1>3. ASSUME NEW w \in WorldIds, Bind(r, w) \/ RecordPoison(r, w) PROVE TypeOK'
  BY <1>3, RecordingType
<1>4. CASE RecordError(r)
  <2>1. Anchor(r) \in Builds
    BY <1>4, AnchorType DEF RecordError
  <2>2. build' \in [Runs -> Builds \cup {None}] /\ unit' \in [Runs -> Units \cup {None}]
    BY <1>4, <2>1 DEF RecordError, TypeOK
  <2> QED
    BY <1>4, <2>2 DEF RecordError, TypeOK, rowVars, queryVars
<1>5. CASE Finalize(r)
  <2>1. EndRun(r)
    BY <1>5 DEF Finalize, FinalizeRefused, FinalizeOk
  <2>2. world' \in [WorldIds -> WorldRows]
    <3>1. \/ UNCHANGED world
          \/ \E w \in WorldIds : SetStatus(w, "active")
      BY <1>5 DEF Finalize, FinalizeRefused, FinalizeOk
    <3> QED
      BY <3>1, SetStatusType DEF TypeOK, WorldRows, Statuses
  <2> QED
    BY <1>5, <2>1, <2>2, EndRunType DEF Finalize, TypeOK, WorldRows, queryVars
<1>6. CASE Crash(r)
  BY <1>6, EndRunType DEF Crash, TypeOK, rowVars, queryVars
<1> QED
  BY <1>1, <1>2, <1>3, <1>4, <1>5, <1>6 DEF RunNext

\* The types under every step of the collector and of the explicit marks.
LEMMA GCType ==
  ASSUME TypeOK, GCNext
  PROVE  TypeOK'
<1>1. CASE AnalyzeGC
  <2>1. /\ {w \in WorldIds : Eligible(w)} \subseteq WorldIds
        /\ EligibleStates \subseteq States
    BY DEF EligibleStates
  <2> QED
    BY <1>1, <2>1 DEF AnalyzeGC, TypeOK, rowVars, runVars, queryVars
<1>2. CASE ApplyGC
  <2>1. NoWorld \in WorldRows /\ NoRows \in [TUs -> States \cup {Poisoned, None}]
    BY DEF NoWorld, NoRows, WorldRows, Statuses
  <2>2. /\ world' \in [WorldIds -> WorldRows]
        /\ binding' \in [WorldIds -> [TUs -> States \cup {Poisoned, None}]]
        /\ pub' \subseteq States
    BY <1>2, <2>1 DEF ApplyGC, TypeOK, WorldRows
  <2> QED
    BY <1>2, <2>2 DEF ApplyGC, TypeOK, WorldRows, runVars, queryVars
<1>3. CASE DropAnalysis
  BY <1>3 DEF DropAnalysis, TypeOK, rowVars, runVars, queryVars
<1>4. ASSUME NEW w \in WorldIds, MarkWorld(w) PROVE TypeOK'
  <2>1. \E st \in Statuses : SetStatus(w, st)
    BY <1>4 DEF MarkWorld, Statuses
  <2>2. world' \in [WorldIds -> WorldRows]
    BY <2>1, SetStatusType
  <2> QED
    BY <1>4, <2>2 DEF MarkWorld, TypeOK, WorldRows, runVars, queryVars
<1> QED
  BY <1>1, <1>2, <1>3, <1>4 DEF GCNext

\* The types under every step of a session.
LEMMA QueryType ==
  ASSUME TypeOK, WorldsFormed, NEW q \in Sessions, QueryNext(q)
  PROVE  TypeOK'
<1>1. CASE ReusePin(q)
  BY <1>1 DEF ReusePin, TypeOK, rowVars, runVars
<1>2. ASSUME NEW n \in Snapshots, ResolveView(q, n) PROVE TypeOK'
  <2>1. PICK w \in WorldIds :
           /\ ActiveOf(n) = {w}
           /\ pin' = [pin EXCEPT ![q] = [ident |-> world[w].ident, id |-> w]]
           /\ view' = [view EXCEPT ![q] = [ident |-> world[w].ident, id |-> w]]
    BY <1>2 DEF ResolveView
  <2>2. world[w].status = "active"
    BY <2>1 DEF ActiveOf
  <2>3. world[w] \in WorldRows
    BY DEF TypeOK, WorldRows
  <2>4. world[w].ident \in Idents
    BY <2>2, <2>3 DEF WorldsFormed, WorldRows
  <2>5. [ident |-> world[w].ident, id |-> w] \in Views
    BY <2>4 DEF Views
  <2> QED
    BY <1>2, <2>1, <2>5 DEF ResolveView, TypeOK, rowVars, runVars
<1>3. CASE Answer(q)
  BY <1>3 DEF Answer, TypeOK, rowVars, runVars
<1>4. CASE EndSession(q)
  BY <1>4 DEF EndSession, TypeOK, rowVars, runVars
<1> QED
  BY <1>1, <1>2, <1>3, <1>4 DEF QueryNext

-----------------------------------------------------------------------------
(***************************************************************************)
(* The five ways the shared rows change.                                   *)
(***************************************************************************)
Publishing(s) == pub' = pub \cup {s} /\ UNCHANGED <<world, binding>>

\* A recording transaction: it ensures a world row, and may insert one row.
NewRow(w, t, s) ==
  /\ binding[w][t] = None
  /\ s # Poisoned => s \in pub /\ ~SpellingClash(s, t)
  /\ binding' = [binding EXCEPT ![w] = [binding[w] EXCEPT ![t] = s]]

Recording(i, w) ==
  /\ EnsureWorld(i, w)
  /\ UNCHANGED pub
  /\ \/ UNCHANGED binding
     \/ \E t \in TUs, s \in States \cup {Poisoned} : NewRow(w, t, s)

Marking(w, st) ==
  /\ Exists(w)
  /\ st # "absent"
  /\ SetStatus(w, st)
  /\ UNCHANGED <<binding, pub>>

RowStep ==
  \/ UNCHANGED rowVars
  \/ \E s \in States : Publishing(s)
  \/ \E i \in Idents, w \in WorldIds : Recording(i, w)
  \/ \E w \in WorldIds, st \in Statuses : Marking(w, st)
  \/ ApplyGC

\* bind_tu and record_poison are recording transactions.
LEMMA RecordingStep ==
  ASSUME TypeOK, NEW r \in Runs, NEW w \in WorldIds, Bind(r, w) \/ RecordPoison(r, w)
  PROVE  \E i \in Idents : Recording(i, w)
<1>1. /\ IdentOf(r, Anchor(r)) \in Idents
      /\ unit[r].tu \in TUs
      /\ unit[r].target \in States \cup {Poisoned}
  BY AnchorType DEF Bind, RecordPoison
<1>2. EnsureWorld(IdentOf(r, Anchor(r)), w) /\ UNCHANGED pub
  BY DEF Bind, RecordPoison
<1>3. \/ UNCHANGED binding
      \/ NewRow(w, unit[r].tu, unit[r].target)
  BY DEF Bind, RecordPoison, InsertRow, NewRow
<1> QED
  BY <1>1, <1>2, <1>3 DEF Recording

\* Every step of the specification is a RowStep.
LEMMA NextRows ==
  ASSUME TypeOK, [Next]_vars
  PROVE  RowStep
<1>1. ASSUME NEW r \in Runs, RunNext(r) PROVE RowStep
  <2>1. ASSUME NEW n \in Snapshots, StartRun(r, n) PROVE RowStep
    BY <2>1 DEF StartRun, RowStep
  <2>2. ASSUME NEW t \in TUs, Certify(r, t) PROVE RowStep
    BY <2>2 DEF Certify, RowStep, Publishing, rowVars
  <2>3. ASSUME NEW w \in WorldIds, Bind(r, w) \/ RecordPoison(r, w) PROVE RowStep
    BY <2>3, RecordingStep DEF RowStep
  <2>4. CASE RecordError(r) \/ Crash(r)
    BY <2>4 DEF RecordError, Crash, RowStep
  <2>5. CASE Finalize(r)
    <3>1. UNCHANGED <<binding, pub, buildRows>>
      BY <2>5 DEF Finalize
    <3>2. \/ UNCHANGED world
          \/ \E w \in WorldIds : Exists(w) /\ SetStatus(w, "active")
      BY <2>5 DEF Finalize, FinalizeRefused, FinalizeOk, Exists
    <3> QED
      BY <3>1, <3>2 DEF RowStep, Marking, Statuses, rowVars
  <2> QED
    BY <1>1, <2>1, <2>2, <2>3, <2>4, <2>5 DEF RunNext
<1>2. CASE GCNext
  <2>1. CASE AnalyzeGC \/ DropAnalysis
    BY <2>1 DEF AnalyzeGC, DropAnalysis, RowStep
  <2>2. ASSUME NEW w \in WorldIds, MarkWorld(w) PROVE RowStep
    <3>1. /\ Exists(w)
          /\ \E st \in Statuses : st # "absent" /\ SetStatus(w, st)
          /\ UNCHANGED <<binding, pub>>
      BY <2>2 DEF MarkWorld, Statuses, Exists
    <3> QED
      BY <3>1 DEF RowStep, Marking
  <2> QED
    BY <1>2, <2>1, <2>2 DEF GCNext, RowStep
<1>3. ASSUME NEW q \in Sessions, QueryNext(q) PROVE RowStep
  BY <1>3 DEF QueryNext, ReusePin, ResolveView, Answer, EndSession, RowStep
<1>4. CASE UNCHANGED vars
  BY <1>4 DEF vars, RowStep
<1> QED
  BY <1>1, <1>2, <1>3, <1>4 DEF Next

\* An id stays free exactly when it has no identity.
LEMMA FormedStep ==
  ASSUME TypeOK, WorldsFormed, RowStep
  PROVE  WorldsFormed'
<1>0. None \notin Idents
  BY WorldAssumption DEF Idents, Builds
<1>1. CASE UNCHANGED world
  BY <1>1 DEF WorldsFormed
<1>2. ASSUME NEW i \in Idents, NEW w \in WorldIds, Recording(i, w) PROVE WorldsFormed'
  <2>1. /\ world'[w].ident = i
        /\ world'[w].status # "absent"
        /\ \A v \in WorldIds : v # w => world'[v] = world[v]
    BY <1>2, EnsureWorldRow DEF Recording
  <2> QED
    BY <1>0, <2>1 DEF WorldsFormed
<1>3. ASSUME NEW w \in WorldIds, NEW st \in Statuses, Marking(w, st) PROVE WorldsFormed'
  BY <1>3 DEF Marking, SetStatus, Exists, WorldsFormed, TypeOK
<1>4. CASE ApplyGC
  BY <1>4 DEF ApplyGC, NoWorld, WorldsFormed, TypeOK
<1> QED
  BY <1>1, <1>2, <1>3, <1>4 DEF RowStep, Publishing, rowVars

Formed == TypeOK /\ WorldsFormed

\* Types and form are an inductive invariant.
LEMMA FormedInvariant == Spec => []Formed
<1>1. Init => Formed
  BY InitType DEF Formed
<1>2. Formed /\ [Next]_vars => Formed'
  <2> SUFFICES ASSUME Formed, [Next]_vars PROVE Formed'
    OBVIOUS
  <2>1. TypeOK'
    <3>1. CASE UNCHANGED vars
      BY <3>1 DEF Formed, TypeOK, vars, rowVars, runVars, queryVars
    <3> QED
      BY <3>1, RunType, GCType, QueryType DEF Formed, Next
  <2>2. WorldsFormed'
    BY NextRows, FormedStep DEF Formed
  <2> QED
    BY <2>1, <2>2 DEF Formed
<1> QED
  BY <1>1, <1>2, PTL DEF Spec

\* Every variable keeps the shape the schema and the code give it.
THEOREM TypeCorrect == Spec => []TypeOK
<1>1. Formed => TypeOK
  BY DEF Formed
<1> QED
  BY <1>1, FormedInvariant, PTL

-----------------------------------------------------------------------------
(***************************************************************************)
(* The invariants of the rows.                                             *)
(***************************************************************************)

\* _ensure_world_rows never makes a second row of an identity.
LEMMA OneWorldStep ==
  ASSUME Formed, OneWorldPerIdentity, RowStep
  PROVE  OneWorldPerIdentity'
<1>1. CASE UNCHANGED world
  BY <1>1 DEF OneWorldPerIdentity, Exists
<1>2. ASSUME NEW i \in Idents, NEW w \in WorldIds, Recording(i, w)
      PROVE  OneWorldPerIdentity'
  <2>1. /\ world'[w].ident = i
        /\ \A v \in WorldIds : v # w => world'[v] = world[v]
        /\ world'[w] = world[w] \/ \A v \in WorldIds : world[v].ident # i
    BY <1>2, EnsureWorldRow DEF Recording, Formed
  <2> QED
    BY <2>1 DEF OneWorldPerIdentity, Exists
<1>3. ASSUME NEW w \in WorldIds, NEW st \in Statuses, Marking(w, st)
      PROVE  OneWorldPerIdentity'
  <2>1. \A v \in WorldIds : world'[v].ident = world[v].ident /\ (Exists(v)' => Exists(v))
    BY <1>3 DEF Marking, SetStatus, Exists, Formed, TypeOK
  <2> QED
    BY <2>1 DEF OneWorldPerIdentity
<1>4. CASE ApplyGC
  <2>1. \A v \in WorldIds : world'[v] = world[v] \/ world'[v] = NoWorld
    BY <1>4 DEF ApplyGC
  <2>2. \A v \in WorldIds : Exists(v)' => world'[v] = world[v]
    BY <2>1 DEF NoWorld, Exists
  <2>3. \A v, w \in WorldIds :
           Exists(v)' /\ world'[v].ident = world'[w].ident => world'[w] = world[w]
    BY <2>1, <2>2 DEF NoWorld, Formed, WorldsFormed, Exists
  <2> QED
    BY <2>2, <2>3 DEF OneWorldPerIdentity, Exists
<1> QED
  BY <1>1, <1>2, <1>3, <1>4 DEF RowStep, Publishing, rowVars

\* Bindings are only made to published states, in worlds that exist, and the
\* collector deletes no state that a remaining row refers to.
LEMMA BoundStep ==
  ASSUME Formed, BoundToPublished, RowStep
  PROVE  BoundToPublished'
<1>1. CASE UNCHANGED rowVars
  BY <1>1 DEF BoundToPublished, Exists, rowVars
<1>2. ASSUME NEW s \in States, Publishing(s) PROVE BoundToPublished'
  BY <1>2 DEF Publishing, BoundToPublished, Exists
<1>3. ASSUME NEW i \in Idents, NEW w \in WorldIds, Recording(i, w)
      PROVE  BoundToPublished'
  <2>1. \A v \in WorldIds : v = w \/ Exists(v) => Exists(v)'
    BY <1>3, EnsureWorldRow DEF Recording, Formed, Exists
  <2>2. pub' = pub
    BY <1>3 DEF Recording
  <2>3. CASE UNCHANGED binding
    BY <2>1, <2>2, <2>3 DEF BoundToPublished
  <2>4. ASSUME NEW t \in TUs, NEW s \in States \cup {Poisoned}, NewRow(w, t, s)
        PROVE  BoundToPublished'
    <3>1. \A v \in WorldIds, u \in TUs :
             binding'[v][u] = IF v = w /\ u = t THEN s ELSE binding[v][u]
      BY <2>4 DEF NewRow, Formed, TypeOK
    <3>2. s # Poisoned => s \in pub
      BY <2>4 DEF NewRow
    <3> QED
      BY <2>1, <2>2, <3>1, <3>2 DEF BoundToPublished
  <2> QED
    BY <1>3, <2>3, <2>4 DEF Recording
<1>4. ASSUME NEW w \in WorldIds, NEW st \in Statuses, Marking(w, st)
      PROVE  BoundToPublished'
  <2>1. \A v \in WorldIds : Exists(v) => Exists(v)'
    BY <1>4 DEF Marking, SetStatus, Exists, Formed, TypeOK
  <2> QED
    BY <1>4, <2>1 DEF Marking, BoundToPublished
<1>5. CASE ApplyGC
  <2>1. \A w \in WorldIds : \/ w \in analysis.worlds /\ binding'[w] = NoRows
                            \/ /\ w \notin analysis.worlds
                               /\ world'[w] = world[w]
                               /\ binding'[w] = binding[w]
    BY <1>5 DEF ApplyGC
  <2>2. \A w \in WorldIds \ analysis.worlds, t \in TUs :
           binding[w][t] \in pub => binding[w][t] \in pub'
    BY <1>5 DEF ApplyGC, References
  <2> QED
    BY <2>1, <2>2 DEF BoundToPublished, Exists, NoRows
<1> QED
  BY <1>1, <1>2, <1>3, <1>4, <1>5 DEF RowStep

\* The spelling gate looks at the rows of all worlds.
LEMMA SpellingStep ==
  ASSUME Formed, SpellingUnique, RowStep
  PROVE  SpellingUnique'
<1>0. Poisoned \notin Sensitive /\ None \notin Sensitive
  BY WorldAssumption
<1>1. CASE UNCHANGED binding
  BY <1>1 DEF SpellingUnique
<1>2. ASSUME NEW w \in WorldIds, NEW t \in TUs, NEW s \in States \cup {Poisoned},
             NewRow(w, t, s)
      PROVE  SpellingUnique'
  <2>1. \A v \in WorldIds, u \in TUs :
           binding'[v][u] = IF v = w /\ u = t THEN s ELSE binding[v][u]
    BY <1>2 DEF NewRow, Formed, TypeOK
  <2>2. s \in Sensitive => \A v \in WorldIds, u \in TUs : binding[v][u] = s => u = t
    BY <1>0, <1>2 DEF NewRow, SpellingClash
  <2> QED
    BY <2>1, <2>2 DEF SpellingUnique
<1>3. CASE ApplyGC
  <2>1. \A w \in WorldIds, t \in TUs : binding'[w][t] \in {binding[w][t], None}
    BY <1>3 DEF ApplyGC, NoRows
  <2> QED
    BY <1>0, <2>1 DEF SpellingUnique
<1> QED
  BY <1>1, <1>2, <1>3 DEF RowStep, Publishing, Recording, Marking, rowVars

RowInv == Formed /\ OneWorldPerIdentity /\ BoundToPublished /\ SpellingUnique

\* The conjunction is inductive.
LEMMA RowInvariant == Spec => []RowInv
<1>1. Init => OneWorldPerIdentity /\ BoundToPublished /\ SpellingUnique
  <2> SUFFICES ASSUME Init PROVE OneWorldPerIdentity /\ BoundToPublished /\ SpellingUnique
    OBVIOUS
  <2>1. /\ \A w \in WorldIds : ~Exists(w)
        /\ \A w \in WorldIds, t \in TUs : binding[w][t] = None
    BY DEF Init, NoWorld, NoRows, Exists
  <2> QED
    BY <2>1, WorldAssumption DEF OneWorldPerIdentity, BoundToPublished, SpellingUnique
<1>2. RowInv /\ Formed' /\ [Next]_vars => RowInv'
  BY NextRows, OneWorldStep, BoundStep, SpellingStep DEF RowInv, Formed
<1>3. Init => Formed
  BY InitType DEF Formed
<1> QED
  BY <1>1, <1>2, <1>3, FormedInvariant, PTL DEF Spec, RowInv

\* One row per identity: concurrent and retried runs converge on one world.
THEOREM WorldsAreUnique == Spec => []OneWorldPerIdentity
<1>1. RowInv => OneWorldPerIdentity
  BY DEF RowInv
<1> QED
  BY <1>1, RowInvariant, PTL

\* However publication, binding and the two steps of the collector interleave,
\* a bound row points to a published state.
THEOREM BindingsAreSound == Spec => []BoundToPublished
<1>1. RowInv => BoundToPublished
  BY DEF RowInv
<1> QED
  BY <1>1, RowInvariant, PTL

\* A spelling-sensitive state is bound to one source path only.
THEOREM SpellingsAreUnique == Spec => []SpellingUnique
<1>1. RowInv => SpellingUnique
  BY DEF RowInv
<1> QED
  BY <1>1, RowInvariant, PTL

-----------------------------------------------------------------------------
(***************************************************************************)
(* Action properties.                                                      *)
(***************************************************************************)

\* No last writer wins: rows change only by the deletion of their world.
THEOREM RowsNeverChange == Spec => RowsImmutable
<1>1. ASSUME Formed, RowStep, NEW w \in WorldIds, NEW t \in TUs, binding[w][t] # None
      PROVE  binding'[w][t] = binding[w][t] \/ world'[w] = NoWorld
  <2>1. CASE UNCHANGED binding
    BY <2>1
  <2>2. ASSUME NEW v \in WorldIds, NEW u \in TUs, NEW s \in States \cup {Poisoned},
               NewRow(v, u, s)
        PROVE  binding'[w][t] = binding[w][t]
    BY <1>1, <2>2 DEF NewRow, Formed, TypeOK
  <2>3. CASE ApplyGC
    BY <2>3 DEF ApplyGC
  <2> QED
    BY <1>1, <2>1, <2>2, <2>3 DEF RowStep, Publishing, Recording, Marking, rowVars
<1>2. Formed /\ [Next]_vars =>
         [\A w \in WorldIds, t \in TUs :
            binding[w][t] # None =>
               binding'[w][t] = binding[w][t] \/ world'[w] = NoWorld]_vars
  BY <1>1, NextRows DEF Formed
<1> QED
  BY <1>2, FormedInvariant, PTL DEF Spec, RowsImmutable

\* A world becomes active only by the end of a run over it, and with a row for
\* every TU the run recorded.
THEOREM ActivationKeepsRun == Spec => ActivatedWorldKeepsRun
<1>1. ASSUME Formed, Next, NEW w \in WorldIds, Activated(w)
      PROVE  \E r \in running : RunWorld(r, w) /\ \A t \in noted[r] : binding'[w][t] # None
  <2>1. ASSUME NEW r \in Runs, Finalize(r)
        PROVE  RunWorld(r, w) /\ \A t \in noted[r] : binding'[w][t] # None
    <3>1. \E v \in WorldIds : FinalizeOk(r, v)
      BY <1>1, <2>1 DEF Finalize, FinalizeRefused, Activated
    <3>2. PICK v \in WorldIds : FinalizeOk(r, v)
      BY <3>1
    <3>3. v = w
      BY <1>1, <3>2 DEF FinalizeOk, SetStatus, Activated, Formed, TypeOK
    <3>4. RunWorld(r, w) /\ Missing(r, w) = {} /\ UNCHANGED binding
      BY <2>1, <3>2, <3>3 DEF FinalizeOk, Finalize
    <3> QED
      BY <3>4 DEF Missing
  <2>2. \E r \in Runs : Finalize(r)
    <3>1. ASSUME NEW i \in Idents, NEW v \in WorldIds, EnsureWorld(i, v) PROVE FALSE
      BY <1>1, <3>1, EnsureWorldRow DEF Activated, Formed
    <3>2. ASSUME NEW r \in Runs, NEW v \in WorldIds, Bind(r, v) \/ RecordPoison(r, v)
          PROVE  FALSE
      BY <1>1, <3>1, <3>2, RecordingStep DEF Recording, Formed
    <3>3. ASSUME NEW v \in WorldIds, MarkWorld(v) PROVE FALSE
      BY <1>1, <3>3 DEF MarkWorld, SetStatus, Activated, Formed, TypeOK
    <3>4. ~ApplyGC
      BY <1>1 DEF ApplyGC, NoWorld, Activated
    <3>5. ~UNCHANGED world
      BY <1>1 DEF Activated
    <3>6. GCNext => FALSE
      BY <3>3, <3>4, <3>5 DEF GCNext, AnalyzeGC, DropAnalysis, rowVars
    <3>7. ASSUME NEW q \in Sessions, QueryNext(q) PROVE FALSE
      BY <3>5, <3>7 DEF QueryNext, ReusePin, ResolveView, Answer, EndSession, rowVars
    <3>8. ASSUME NEW r \in Runs, RunNext(r) PROVE Finalize(r)
      BY <3>2, <3>5, <3>8 DEF RunNext, StartRun, Certify, RecordError, Crash, rowVars
    <3> QED
      BY <1>1, <3>6, <3>7, <3>8 DEF Next
  <2> QED
    BY <2>1, <2>2 DEF Finalize
<1>2. Formed /\ [Next]_vars =>
         [\A w \in WorldIds : Activated(w) =>
            \E r \in running : /\ RunWorld(r, w)
                               /\ \A t \in noted[r] : binding'[w][t] # None]_vars
  BY <1>1
<1> QED
  BY <1>2, FormedInvariant, PTL DEF Spec, ActivatedWorldKeepsRun

-----------------------------------------------------------------------------
(***************************************************************************)
(* How far the statements hold that the collector and a failed recording   *)
(* break.                                                                  *)
(***************************************************************************)

\* No recording fails between _ensure_world_rows and its commit.
NoHalfRecording == \A r \in Runs : RecordError(r) => UNCHANGED build

AnchoredHasBuild == \A r \in Runs : build[r] # None => build[r] \in buildRows

\* A recording leaves its world row with a build row, if the anchor has one.
LEMMA RecordingHasBuild ==
  ASSUME Formed, WorldHasBuild, AnchoredHasBuild, NEW r \in Runs, NEW w \in WorldIds,
         Bind(r, w) \/ RecordPoison(r, w)
  PROVE  WorldHasBuild' /\ AnchoredHasBuild'
<1> DEFINE b == Anchor(r)
<1>1. b \in Builds /\ IdentOf(r, b) \in Idents
  BY AnchorType DEF Bind, RecordPoison, Formed
<1>2. /\ buildRows \subseteq buildRows' /\ b \in buildRows'
      /\ build' = [build EXCEPT ![r] = b]
      /\ EnsureWorld(IdentOf(r, b), w)
  BY DEF Bind, RecordPoison, EnsureBuild, Anchor, AnchoredHasBuild
<1>3. /\ world'[w].ident = IdentOf(r, b)
      /\ \A v \in WorldIds : v # w => world'[v] = world[v]
  BY <1>1, <1>2, EnsureWorldRow DEF Formed
<1>4. world'[w].ident.build = b
  BY <1>3 DEF IdentOf
<1>5. AnchoredHasBuild'
  BY <1>2 DEF AnchoredHasBuild, Formed, TypeOK
<1>6. WorldHasBuild'
  BY <1>2, <1>3, <1>4 DEF WorldHasBuild, Exists
<1> QED
  BY <1>5, <1>6

\* The rows of builds are never removed, and no other step makes a world row or anchors a run.
LEMMA HasBuildStep ==
  ASSUME Formed, WorldHasBuild, AnchoredHasBuild, [Next]_vars, NoHalfRecording
  PROVE  WorldHasBuild' /\ AnchoredHasBuild'
<1> DEFINE Keeps ==
      /\ UNCHANGED buildRows
      /\ \A r \in Runs : build'[r] \in {build[r], None}
      /\ \A w \in WorldIds : Exists(w)' => Exists(w) /\ world'[w].ident = world[w].ident
<1>0. Keeps => WorldHasBuild' /\ AnchoredHasBuild'
  BY DEF WorldHasBuild, AnchoredHasBuild
<1>1. ASSUME NEW w \in WorldIds, NEW st \in Statuses, Exists(w), SetStatus(w, st)
      PROVE  \A v \in WorldIds : Exists(v)' => Exists(v) /\ world'[v].ident = world[v].ident
  BY <1>1 DEF SetStatus, Exists, Formed, TypeOK
<1>2. ASSUME NEW r \in Runs, EndRun(r) PROVE \A q \in Runs : build'[q] \in {build[q], None}
  BY <1>2 DEF EndRun, Formed, TypeOK
<1>3. ASSUME NEW r \in Runs, RunNext(r) PROVE WorldHasBuild' /\ AnchoredHasBuild'
  <2>1. CASE \E w \in WorldIds : Bind(r, w) \/ RecordPoison(r, w)
    BY <2>1, RecordingHasBuild
  <2>2. CASE Finalize(r)
    <3>1. EndRun(r) /\ UNCHANGED buildRows
      BY <2>2 DEF Finalize, FinalizeRefused, FinalizeOk
    <3>2. UNCHANGED world \/ \E w \in WorldIds : Exists(w) /\ SetStatus(w, "active")
      BY <2>2 DEF Finalize, FinalizeRefused, FinalizeOk, Exists
    <3> QED
      BY <1>0, <1>1, <1>2, <3>1, <3>2 DEF Statuses, Exists
  <2>3. CASE Crash(r)
    BY <1>0, <1>2, <2>3 DEF Crash, rowVars, Exists
  <2>4. CASE RecordError(r)
    BY <1>0, <2>4 DEF RecordError, NoHalfRecording, rowVars, Exists
  <2>5. CASE \/ \E n \in Snapshots : StartRun(r, n)
             \/ \E t \in TUs : Certify(r, t)
    BY <1>0, <2>5 DEF StartRun, Certify, rowVars, Exists
  <2> QED
    BY <1>3, <2>1, <2>2, <2>3, <2>4, <2>5 DEF RunNext
<1>4. CASE GCNext
  <2>1. CASE AnalyzeGC \/ DropAnalysis
    BY <1>0, <2>1 DEF AnalyzeGC, DropAnalysis, rowVars, runVars, Exists
  <2>2. CASE ApplyGC
    BY <1>0, <2>2 DEF ApplyGC, runVars, Exists, NoWorld
  <2>3. ASSUME NEW w \in WorldIds, MarkWorld(w) PROVE WorldHasBuild' /\ AnchoredHasBuild'
    <3>1. Exists(w) /\ \E st \in Statuses : SetStatus(w, st)
      BY <2>3 DEF MarkWorld, Statuses, Exists
    <3> QED
      BY <1>0, <1>1, <2>3, <3>1 DEF MarkWorld, runVars
  <2> QED
    BY <1>4, <2>1, <2>2, <2>3 DEF GCNext
<1>5. ASSUME NEW q \in Sessions, QueryNext(q) PROVE Keeps
  BY <1>5 DEF QueryNext, ReusePin, ResolveView, Answer, EndSession, rowVars, runVars, Exists
<1>6. CASE UNCHANGED vars
  BY <1>0, <1>6 DEF vars, rowVars, runVars, Exists
<1> HIDE DEF Keeps
<1> QED
  BY <1>0, <1>3, <1>4, <1>5, <1>6 DEF Next

\* Every world row has its build row (WorldHasBuild), for any runs, collectors and failures
\* but one: the recording that is rolled back after _ensure_world_rows has put the build
\* identity into the run's context (worlds.py:272-287).
THEOREM WorldsHaveBuildRows == Spec /\ [][NoHalfRecording]_vars => []WorldHasBuild
<1>1. Init => WorldHasBuild /\ AnchoredHasBuild
  BY DEF Init, WorldHasBuild, AnchoredHasBuild, Exists, NoWorld
<1>2. Formed /\ WorldHasBuild /\ AnchoredHasBuild /\ [Next]_vars /\ [NoHalfRecording]_vars
        => WorldHasBuild' /\ AnchoredHasBuild'
  <2>1. UNCHANGED vars => NoHalfRecording
    BY DEF vars, runVars, NoHalfRecording
  <2> QED
    BY <2>1, HasBuildStep
<1> QED
  BY <1>1, <1>2, FormedInvariant, PTL DEF Spec

\* No run completes a world while somebody holds an analysis.
NoneCompleted == \A w \in WorldIds : Activated(w) => analysis = None

\* What an analysis names is neither completed nor pinned, and a pin names its world.
NoRootNamed ==
  analysis # None => \A w \in analysis.worlds :
     /\ world[w].status # "active"
     /\ \A q \in Sessions : pin[q] # None => pin[q].id # w
PinsHold ==
  \A q \in Sessions : pin[q] # None =>
     world[pin[q].id].ident = pin[q].ident /\ Exists(pin[q].id)
ViewsArePins == \A q \in Sessions : view[q] # None => view[q] = pin[q]
PinInv == NoRootNamed /\ PinsHold /\ ViewsArePins

\* The steps that neither make an analysis, apply one nor pin: they keep the identity of
\* a world that exists, and make none active that an analysis could name.
LEMMA PinKept ==
  ASSUME Formed, PinInv, NoneCompleted,
         analysis' \in {analysis, None}, UNCHANGED queryVars,
         \A w \in WorldIds : Exists(w) => Exists(w)' /\ world'[w].ident = world[w].ident
  PROVE  PinInv'
<1>1. ASSUME analysis' # None, NEW w \in WorldIds PROVE world'[w].status = "active" => world[w].status = "active"
  BY <1>1 DEF NoneCompleted, Activated
<1>2. analysis # None => analysis.worlds \subseteq WorldIds
  BY WorldAssumption DEF Formed, TypeOK
<1>3. NoRootNamed'
  BY <1>1, <1>2 DEF PinInv, NoRootNamed, queryVars
<1>4. \A q \in Sessions : pin[q] # None => pin[q].id \in WorldIds
  BY DEF Formed, TypeOK, Views
<1>5. PinsHold' /\ ViewsArePins'
  BY <1>4 DEF PinInv, PinsHold, ViewsArePins, queryVars
<1> QED
  BY <1>3, <1>5 DEF PinInv

\* The collector leaves a pinned world alone, and so does everybody else.
LEMMA PinStep ==
  ASSUME Formed, Formed', PinInv, [Next]_vars, NoneCompleted
  PROVE  PinInv'
<1> DEFINE Keeps == \A w \in WorldIds : Exists(w) => Exists(w)' /\ world'[w].ident = world[w].ident
<1>0. \A q \in Sessions : pin[q] # None => pin[q].id \in WorldIds
  BY DEF Formed, TypeOK, Views
<1>1. UNCHANGED world => Keeps
  BY DEF Exists
<1>2. ASSUME NEW w \in WorldIds, NEW st \in Statuses, Exists(w), st # "absent", SetStatus(w, st)
      PROVE  Keeps
  BY <1>2 DEF SetStatus, Exists, Formed, TypeOK
<1>3. ASSUME NEW r \in Runs, RunNext(r) PROVE PinInv'
  <2>1. UNCHANGED analysis /\ UNCHANGED queryVars
    BY <1>3 DEF RunNext, StartRun, Certify, Bind, RecordPoison, RecordError, Finalize, Crash
  <2>2. ASSUME NEW w \in WorldIds, Bind(r, w) \/ RecordPoison(r, w) PROVE Keeps
    <3>1. PICK i \in Idents : Recording(i, w)
      BY <2>2, RecordingStep DEF Formed
    <3>2. /\ \A v \in WorldIds : v # w => world'[v] = world[v]
          /\ world'[w] = world[w] \/ world[w].status = "absent"
      BY <3>1, EnsureWorldRow DEF Recording, Formed
    <3> QED
      BY <3>2 DEF Exists
  <2>3. CASE Finalize(r)
    <3>1. UNCHANGED world \/ \E w \in WorldIds : Exists(w) /\ SetStatus(w, "active")
      BY <2>3 DEF Finalize, FinalizeRefused, FinalizeOk, Exists
    <3> QED
      BY <1>1, <1>2, <2>1, <3>1, PinKept DEF Statuses
  <2>4. Keeps => PinInv'
    BY <2>1, PinKept
  <2> QED
    BY <1>1, <1>3, <2>2, <2>3, <2>4
       DEF RunNext, StartRun, Certify, RecordError, Crash, rowVars
<1>4. CASE AnalyzeGC
  <2>1. NoRootNamed'
    BY <1>4 DEF AnalyzeGC, NoRootNamed, Eligible, PinnedIds, rowVars, queryVars
  <2>2. PinsHold' /\ ViewsArePins'
    BY <1>4 DEF AnalyzeGC, PinInv, PinsHold, ViewsArePins, Exists, rowVars, queryVars
  <2> QED
    BY <2>1, <2>2 DEF PinInv
<1>5. CASE ApplyGC
  <2>1. \A w \in WorldIds : world'[w] = IF w \in analysis.worlds THEN NoWorld ELSE world[w]
    BY <1>5 DEF ApplyGC
  <2>2. \A q \in Sessions : pin[q] # None => world'[pin[q].id] = world[pin[q].id]
    BY <1>0, <1>5, <2>1 DEF ApplyGC, PinInv, NoRootNamed
  <2>3. NoRootNamed'
    BY <1>5, <2>1 DEF ApplyGC, PinInv, NoRootNamed, NoWorld, queryVars, Formed, TypeOK
  <2>4. PinsHold' /\ ViewsArePins'
    BY <1>5, <2>2 DEF ApplyGC, PinInv, PinsHold, ViewsArePins, Exists, queryVars
  <2> QED
    BY <2>3, <2>4 DEF PinInv
<1>6. CASE DropAnalysis
  BY <1>1, <1>6, PinKept DEF DropAnalysis, rowVars
<1>7. ASSUME NEW w \in WorldIds, MarkWorld(w) PROVE PinInv'
  <2>1. Exists(w) /\ \E st \in Statuses : st # "absent" /\ SetStatus(w, st)
    BY <1>7 DEF MarkWorld, Statuses, Exists
  <2> QED
    BY <1>2, <1>7, <2>1, PinKept DEF MarkWorld
<1>8. ASSUME NEW q \in Sessions, QueryNext(q) PROVE PinInv'
  <2>1. UNCHANGED world /\ UNCHANGED analysis
    BY <1>8 DEF QueryNext, ReusePin, ResolveView, Answer, EndSession, rowVars
  <2>2. ASSUME NEW n \in Snapshots, ResolveView(q, n) PROVE PinInv'
    <3>1. PICK w \in WorldIds :
             /\ ActiveOf(n) = {w}
             /\ pin' = [pin EXCEPT ![q] = [ident |-> world[w].ident, id |-> w]]
             /\ view' = [view EXCEPT ![q] = [ident |-> world[w].ident, id |-> w]]
      BY <2>2 DEF ResolveView
    <3>2. world[w].status = "active"
      BY <3>1 DEF ActiveOf
    <3>3. \A p \in Sessions : /\ p = q => /\ pin'[p] = [ident |-> world[w].ident, id |-> w]
                                          /\ view'[p] = pin'[p]
                              /\ p # q => pin'[p] = pin[p] /\ view'[p] = view[p]
      BY <3>1 DEF Formed, TypeOK
    <3>4. NoRootNamed'
      BY <2>1, <3>2, <3>3 DEF PinInv, NoRootNamed
    <3>5. PinsHold' /\ ViewsArePins'
      BY <2>1, <3>2, <3>3 DEF PinInv, PinsHold, ViewsArePins, Exists
    <3> QED
      BY <3>4, <3>5 DEF PinInv
  <2>3. CASE ReusePin(q) \/ Answer(q) \/ EndSession(q)
    <3>1. \A p \in Sessions : pin'[p] \in {pin[p], None}
      BY <2>3 DEF ReusePin, Answer, EndSession, Formed, TypeOK
    <3>2. ViewsArePins'
      BY <2>3 DEF ReusePin, Answer, EndSession, Formed, TypeOK, PinInv, ViewsArePins
    <3>3. NoRootNamed' /\ PinsHold'
      BY <2>1, <3>1 DEF PinInv, NoRootNamed, PinsHold, Exists
    <3> QED
      BY <3>2, <3>3 DEF PinInv
  <2> QED
    BY <1>8, <2>2, <2>3 DEF QueryNext
<1>9. CASE UNCHANGED vars
  BY <1>1, <1>9, PinKept DEF vars, rowVars
<1> HIDE DEF Keeps
<1> QED
  BY <1>3, <1>4, <1>5, <1>6, <1>7, <1>8, <1>9 DEF Next, GCNext

PinHolds == Formed /\ PinInv

\* The two together are kept as long as no run completes a world under an analysis.
LEMMA PinInvariant == Spec /\ [][NoneCompleted]_vars => []PinHolds
<1>1. Init => PinInv
  BY DEF Init, PinInv, NoRootNamed, PinsHold, ViewsArePins
<1>2. Formed /\ Formed' /\ PinInv /\ [Next]_vars /\ [NoneCompleted]_vars => PinInv'
  <2>1. UNCHANGED vars => NoneCompleted
    BY DEF vars, rowVars, NoneCompleted, Activated
  <2> QED
    BY <2>1, PinStep
<1> QED
  BY <1>1, <1>2, FormedInvariant, PTL DEF Spec, PinHolds

\* "root Worlds are never in the candidate set" (gc.py): no completed world is deleted,
\* however old the analysis and however often it is applied, if no run completes a world
\* between the analysis and its use.  That is the only way to lose one.
THEOREM RootsSurviveQuietCollections == Spec /\ [][NoneCompleted]_vars => RootsSurvive
<1>1. PinHolds /\ [Next]_vars =>
         [\A w \in WorldIds : world[w].status = "active" => world'[w] # NoWorld]_vars
  <2> SUFFICES ASSUME PinHolds, [Next]_vars, NEW w \in WorldIds, world[w].status = "active"
               PROVE  world'[w] # NoWorld
    OBVIOUS
  <2> DEFINE Stays == world'[w].status # "absent"
  <2>1. CASE UNCHANGED world
    BY <2>1 DEF NoWorld
  <2>2. ASSUME NEW i \in Idents, NEW v \in WorldIds, Recording(i, v) PROVE Stays
    BY <2>2, EnsureWorldRow DEF Recording, PinHolds, Formed
  <2>3. ASSUME NEW v \in WorldIds, NEW st \in Statuses, Marking(v, st) PROVE Stays
    BY <2>3 DEF Marking, SetStatus, PinHolds, Formed, TypeOK
  <2>4. CASE ApplyGC
    BY <2>4 DEF ApplyGC, PinHolds, PinInv, NoRootNamed, NoWorld
  <2>5. RowStep
    BY NextRows DEF PinHolds, Formed
  <2> QED
    BY <2>1, <2>2, <2>3, <2>4, <2>5 DEF RowStep, Publishing, rowVars, NoWorld
<1> QED
  BY <1>1, PinInvariant, PTL DEF Spec, RootsSurvive

\* A handler reads with the view of a world that is there and has not changed identity.
ReadsItsWorld ==
  \A q \in Sessions : view[q] # None =>
     Exists(view[q].id) /\ world[view[q].id].ident = view[q].ident

\* Under the same condition a session reads what it resolved: its pinned world is there
\* with the identity of the view, whatever its status has become, and no later world
\* has been given its id (queryview.py, resolve_or_reuse_view; gc.py, the pinned worlds).
THEOREM PinsKeepTheirWorld == Spec /\ [][NoneCompleted]_vars => []ReadsItsWorld
<1>1. PinHolds => ReadsItsWorld
  BY DEF PinHolds, PinInv, PinsHold, ViewsArePins, ReadsItsWorld
<1> QED
  BY <1>1, PinInvariant, PTL

\* Nobody marks a world that a session has pinned.
NoPinnedMarked ==
  \A w \in WorldIds, q \in Sessions : MarkWorld(w) /\ pin[q] # None => pin[q].id # w

PinsQueryable ==
  \A q \in Sessions : pin[q] # None =>
     /\ world[pin[q].id] = [ident |-> pin[q].ident, status |-> "active"]
     /\ pin[q].ident.build \in buildRows

\* Nothing but a mark changes a completed world that the collector leaves alone.
LEMMA ActiveStays ==
  ASSUME Formed, PinInv, [Next]_vars, NEW q \in Sessions, pin[q] # None,
         world[pin[q].id].status = "active", ~ MarkWorld(pin[q].id)
  PROVE  world'[pin[q].id] = world[pin[q].id]
<1> DEFINE p == pin[q].id
<1>0. p \in WorldIds /\ world[p].status = "active"
  BY DEF Formed, TypeOK, Views
<1> HIDE DEF p
<1>1. ASSUME NEW v \in WorldIds \ {p}, NEW st \in Statuses, SetStatus(v, st)
      PROVE  world'[p] = world[p]
  BY <1>0, <1>1 DEF SetStatus, Formed, TypeOK
<1>2. ASSUME NEW r \in Runs, RunNext(r) PROVE world'[p] = world[p]
  <2>1. ASSUME NEW w \in WorldIds, Bind(r, w) \/ RecordPoison(r, w) PROVE world'[p] = world[p]
    <3>1. PICK i \in Idents : Recording(i, w)
      BY <2>1, RecordingStep DEF Formed
    <3>2. /\ \A v \in WorldIds : v # w => world'[v] = world[v]
          /\ world'[w] = world[w] \/ world[w].status = "absent"
      BY <3>1, EnsureWorldRow DEF Recording, Formed
    <3> QED
      BY <1>0, <3>2
  <2>2. CASE Finalize(r)
    <3>1. UNCHANGED world \/ \E w \in WorldIds : world[w].status # "active" /\ SetStatus(w, "active")
      BY <2>2 DEF Finalize, FinalizeRefused, FinalizeOk
    <3> QED
      BY <1>0, <1>1, <3>1 DEF Statuses
  <2>3. ASSUME NEW u \in TUs, Certify(r, u) PROVE UNCHANGED world
    BY <2>3 DEF Certify
  <2>4. ASSUME NEW n \in Snapshots, StartRun(r, n) PROVE UNCHANGED world
    BY <2>4 DEF StartRun, rowVars
  <2>5. RecordError(r) \/ Crash(r) => UNCHANGED world
    BY DEF RecordError, Crash, rowVars
  <2> QED
    BY <1>2, <2>1, <2>2, <2>3, <2>4, <2>5 DEF RunNext
<1>3. ASSUME ApplyGC PROVE world'[p] = world[p]
  <2>1. p \notin analysis.worlds
    BY <1>3 DEF ApplyGC, PinInv, NoRootNamed, p
  <2> QED
    BY <1>0, <1>3, <2>1 DEF ApplyGC
<1>4. AnalyzeGC \/ DropAnalysis \/ UNCHANGED vars => UNCHANGED world
  BY DEF AnalyzeGC, DropAnalysis, rowVars, vars
<1>5. ASSUME NEW w \in WorldIds, MarkWorld(w) PROVE world'[p] = world[p]
  <2>1. w # p /\ \E st \in Statuses : SetStatus(w, st)
    BY <1>5 DEF MarkWorld, Statuses, p
  <2> QED
    BY <1>1, <2>1
<1>6. ASSUME NEW t \in Sessions, QueryNext(t) PROVE world'[p] = world[p]
  BY <1>6 DEF QueryNext, ReusePin, ResolveView, Answer, EndSession, rowVars
<1>7. world'[p] = world[p]
  BY <1>2, <1>3, <1>4, <1>5, <1>6 DEF Next, GCNext
<1> QED
  BY <1>7 DEF p

\* Rows of builds are only added.
LEMMA BuildRowsStay == ASSUME [Next]_vars PROVE buildRows \subseteq buildRows'
<1>1. ASSUME NEW r \in Runs, RunNext(r) PROVE buildRows \subseteq buildRows'
  BY <1>1 DEF RunNext, StartRun, Certify, Bind, RecordPoison, EnsureBuild, RecordError, Finalize,
              Crash, rowVars
<1>2. ASSUME NEW w \in WorldIds, MarkWorld(w) PROVE UNCHANGED buildRows
  BY <1>2 DEF MarkWorld
<1>3. ASSUME NEW q \in Sessions, QueryNext(q) PROVE UNCHANGED buildRows
  BY <1>3 DEF QueryNext, ReusePin, ResolveView, Answer, EndSession, rowVars
<1> QED
  BY <1>1, <1>2, <1>3 DEF Next, GCNext, AnalyzeGC, ApplyGC, DropAnalysis, rowVars, vars

LEMMA QueryableStep ==
  ASSUME Formed, PinInv, PinsQueryable, [Next]_vars, NoPinnedMarked
  PROVE  PinsQueryable'
<1> SUFFICES ASSUME NEW q \in Sessions, pin'[q] # None
             PROVE  /\ world'[pin'[q].id] = [ident |-> pin'[q].ident, status |-> "active"]
                    /\ pin'[q].ident.build \in buildRows'
  BY DEF PinsQueryable
<1>1. CASE pin'[q] = pin[q]
  <2>1. /\ world[pin[q].id] = [ident |-> pin[q].ident, status |-> "active"]
        /\ pin[q].ident.build \in buildRows
    BY <1>1 DEF PinsQueryable
  <2>2. pin[q].id \in WorldIds
    BY <1>1 DEF Formed, TypeOK, Views
  <2>3. ~ MarkWorld(pin[q].id)
    BY <1>1, <2>2 DEF NoPinnedMarked
  <2>4. world'[pin[q].id] = world[pin[q].id]
    BY <1>1, <2>1, <2>3, ActiveStays
  <2> QED
    BY <1>1, <2>1, <2>4, BuildRowsStay
<1>2. CASE pin'[q] # pin[q]
  <2>1. \E n \in Snapshots : ResolveView(q, n)
    <3>1. ASSUME NEW t \in Sessions, QueryNext(t) PROVE \E n \in Snapshots : ResolveView(q, n)
      BY <1>2, <3>1 DEF QueryNext, ReusePin, ResolveView, Answer, EndSession, Formed, TypeOK
    <3>2. ASSUME NEW r \in Runs, RunNext(r) PROVE UNCHANGED pin
      BY <3>2 DEF RunNext, StartRun, Certify, Bind, RecordPoison, RecordError, Finalize, Crash,
                  queryVars
    <3>3. GCNext \/ UNCHANGED vars => UNCHANGED pin
      BY DEF GCNext, AnalyzeGC, ApplyGC, DropAnalysis, MarkWorld, queryVars, vars
    <3> QED
      BY <1>2, <3>1, <3>2, <3>3 DEF Next
  <2>2. PICK w \in WorldIds :
           /\ world[w].status = "active"
           /\ Queryable([ident |-> world[w].ident, id |-> w])
           /\ pin' = [pin EXCEPT ![q] = [ident |-> world[w].ident, id |-> w]]
           /\ UNCHANGED rowVars
    BY <2>1 DEF ResolveView, ActiveOf
  <2>3. pin'[q] = [ident |-> world[w].ident, id |-> w]
    BY <2>2 DEF Formed, TypeOK
  <2>4. world[w] = [ident |-> world[w].ident, status |-> "active"]
    BY <2>2 DEF Formed, TypeOK
  <2>5. world[w].ident.build \in buildRows
    BY <2>2 DEF Queryable
  <2> QED
    BY <2>2, <2>3, <2>4, <2>5 DEF rowVars
<1> QED
  BY <1>1, <1>2

\* "World gone -- re-resolve" (queryview.py, resolve_or_reuse_view): that a pin is handed out
\* without a look at what the resolver said does harm in two cases only.  A handler gets
\* the view of a queryable world as long as nobody marks a pinned world and no run completes
\* one between an analysis and its use.
THEOREM UndisturbedPinsAreQueryable ==
  Spec /\ [][NoneCompleted]_vars /\ [][NoPinnedMarked]_vars => ServedIsQueryable
<1>1. Init => PinsQueryable
  BY DEF Init, PinsQueryable
<1>2. PinHolds /\ PinsQueryable /\ [Next]_vars /\ [NoPinnedMarked]_vars => PinsQueryable'
  <2>1. UNCHANGED vars => UNCHANGED <<pin, world, buildRows>>
    BY DEF vars, rowVars, queryVars
  <2> QED
    BY <2>1, QueryableStep DEF PinHolds, PinsQueryable
<1>3. PinHolds /\ PinsQueryable /\ [Next]_vars =>
         [\A q \in Sessions : view[q] = None /\ view'[q] # None => Queryable(view'[q])]_vars
  <2> SUFFICES ASSUME PinHolds, PinsQueryable, Next, NEW q \in Sessions,
                      view[q] = None, view'[q] # None
               PROVE  Queryable(view'[q])
    OBVIOUS
  <2>1. ASSUME NEW r \in Runs, RunNext(r) PROVE FALSE
    BY <2>1 DEF RunNext, StartRun, Certify, Bind, RecordPoison, RecordError, Finalize, Crash,
                queryVars
  <2>2. ~ GCNext
    BY DEF GCNext, AnalyzeGC, ApplyGC, DropAnalysis, MarkWorld, queryVars
  <2>3. ReusePin(q) \/ \E n \in Snapshots : ResolveView(q, n)
    <3>1. ASSUME NEW t \in Sessions, QueryNext(t)
          PROVE  ReusePin(q) \/ \E n \in Snapshots : ResolveView(q, n)
      BY <3>1 DEF QueryNext, ReusePin, ResolveView, Answer, EndSession, PinHolds, Formed, TypeOK
    <3> QED
      BY <2>1, <2>2, <3>1 DEF Next
  <2>4. CASE ReusePin(q)
    <3>1. view'[q] = pin[q] /\ pin[q] # None /\ pin[q].id \in WorldIds
      BY <2>4 DEF ReusePin, PinHolds, Formed, TypeOK, Views
    <3> QED
      BY <3>1 DEF PinsQueryable, Queryable
  <2>5. ASSUME NEW n \in Snapshots, ResolveView(q, n) PROVE Queryable(view'[q])
    <3>1. PICK w \in WorldIds : /\ Queryable([ident |-> world[w].ident, id |-> w])
                                /\ view' = [view EXCEPT ![q] = [ident |-> world[w].ident, id |-> w]]
      BY <2>5 DEF ResolveView
    <3>2. view'[q] = [ident |-> world[w].ident, id |-> w]
      BY <3>1 DEF PinHolds, Formed, TypeOK
    <3> QED
      BY <3>1, <3>2
  <2> QED
    BY <2>3, <2>4, <2>5
<1> QED
  BY <1>1, <1>2, <1>3, PinInvariant, PTL DEF Spec, ServedIsQueryable
=============================================================================
