------------------------------ MODULE RunRecovery ------------------------------
(***************************************************************************)
(* indexer/runner.py (run), _run_marker.py, _manifest_updater.py,          *)
(* manifest.py and the steps of _postprocess.py that a stopped run can     *)
(* lose: what one build of the index remembers when index runs stop        *)
(* anywhere and files change anywhere, in the mode that writes index.db.   *)
(*                                                                         *)
(* A run decides for every unit if it must be parsed, parses and stores    *)
(* the units one after the other, each in a transaction of its own, and    *)
(* ends with the steps over the whole build.  What the next run goes by    *)
(* is on disk: the manifest (what each unit was parsed from) and the run   *)
(* marker (that a run stopped, and which units it must parse again).       *)
(* The run's own lists and the TEMP table of pending dispatches are gone   *)
(* with its process.                                                       *)
(*                                                                         *)
(* A file appears once in compile_commands.json; the units may share one   *)
(* header.  A text is a number, and so is its hash.  Each file is read     *)
(* once per decision and once per parse, so a decision is one step and a   *)
(* parse, with the transaction that stores it, another.                    *)
(***************************************************************************)
EXTENDS Naturals

CONSTANTS Last,         \* the units are 1 .. Last, in the order of the listing
          Including,    \* the units that include the header
          Dispatching,  \* the units whose parse finds pending dispatches
          MaxText,      \* bound: texts of one file
          MaxReverts,   \* bound: returns of an earlier text
          MaxFaults,    \* bound: stops, failed parses, failed writes and steps
          Forcing       \* the values --force takes

Unit == 1 .. Last
Text == 1 .. MaxText
NoHash == 0                       \* no row; the "" of a preliminary entry
Conflict == MaxText + 1           \* CONFLICTING_READS_HASH: the hash of no file

ASSUME RecoveryAssumption ==
  /\ {Last, MaxText} \subseteq Nat \ {0}
  /\ {MaxReverts, MaxFaults} \subseteq Nat
  /\ Including \subseteq Unit /\ Dispatching \subseteq Unit
  /\ Forcing \subseteq BOOLEAN

VARIABLES disk,      \* disk[u]: the text of the source of u
          header,    \* the text of the header
          newest,    \* how many texts each file has had so far, and [reverts] how often
                     \* one came back
          rows,      \* rows[u]: the texts the stored rows of u come from
          edges,     \* the units whose dispatch edges are in the index
          expanded,  \* the units whose macro values are in the index
          manifest,  \* manifest.<config_hash>.json
          marker,    \* index_run.<config_hash>.pending
          run,       \* the index run, and what only its process knows
          faults,    \* how many faults there were
          apart,     \* history: units whose last store no manifest on disk records
          excused    \* history: what is given up in one of the ways named below

indexVars == <<rows, edges, expanded>>
files == <<disk, header, newest>>
history == <<apart, excused>>
vars == <<files, indexVars, manifest, marker, run, faults, history>>

Manifests == [src : [Unit -> Text \cup {NoHash}], header : Text \cup {NoHash, Conflict},
              needs : SUBSET Unit]
Markers == [on : BOOLEAN, units : SUBSET Unit]

\* build_preliminary: every unit listed, nothing known of it.
Preliminary == [src |-> [u \in Unit |-> NoHash], header |-> NoHash, needs |-> {}]
NoMarker == [on |-> FALSE, units |-> {}]
Idle == [at |-> "off", next |-> 1, force |-> FALSE, parse |-> {}, seen |-> [u \in Unit |-> NoHash],
         base |-> Preliminary, reparsed |-> {}, markerUnits |-> {}, markerWritten |-> FALSE,
         pendingRun |-> FALSE, temp |-> {}]

Init ==
  /\ disk = [u \in Unit |-> 1] /\ header = 1
  /\ newest = [src |-> [u \in Unit |-> 1], header |-> 1, reverts |-> 0]
  /\ rows = [u \in Unit |-> [src |-> NoHash, header |-> NoHash]]
  /\ edges = {} /\ expanded = {}
  /\ manifest = Preliminary
  /\ marker = NoMarker
  /\ run = Idle
  /\ faults = 0
  /\ apart = {} /\ excused = [rows |-> {}, edges |-> {}, macros |-> {}]

(***************************************************************************)
(* Files change: a text nobody has seen, or (a branch switch, an undo) one *)
(* the file has had before.                                                *)
(***************************************************************************)
Edit ==
  /\ \/ \E u \in Unit :
          /\ newest.src[u] < MaxText
          /\ newest' = [newest EXCEPT !.src[u] = @ + 1]
          /\ disk' = [disk EXCEPT ![u] = newest.src[u] + 1]
          /\ UNCHANGED header
     \/ /\ newest.header < MaxText
        /\ newest' = [newest EXCEPT !.header = @ + 1]
        /\ header' = newest.header + 1
        /\ UNCHANGED disk
  /\ UNCHANGED <<indexVars, manifest, marker, run, faults, history>>

\* History: these units may pass for unchanged though no manifest records their rows.
\* Edges that the marker names, and macros once there is a marker, are not lost by it.
MayPass(units, before) ==
  [before EXCEPT !.edges = @ \cup (units \ marker.units),
                 !.macros = IF marker.on THEN @ ELSE @ \cup units]

\* The text comes back that a manifest recorded before the last store.
CameBack(units) ==
  excused' = [MayPass(units \cap apart, excused) EXCEPT !.rows = @ \cup (units \cap apart)]

Revert ==
  /\ newest.reverts < MaxReverts
  /\ newest' = [newest EXCEPT !.reverts = @ + 1]
  /\ \/ \E u \in Unit, t \in Text :
          /\ t <= newest.src[u] /\ t # disk[u]
          /\ disk' = [disk EXCEPT ![u] = t]
          /\ CameBack({u})
          /\ UNCHANGED header
     \/ \E t \in Text :
          /\ t <= newest.header /\ t # header
          /\ header' = t
          /\ CameBack(Including)
          /\ UNCHANGED disk
  /\ UNCHANGED <<indexVars, manifest, marker, run, faults, apart>>

(***************************************************************************)
(* The decision.                                                           *)
(***************************************************************************)
\* _unchanged_entry and _tus_to_requeue: the entry of u in m is that of the files.
Agrees(m, u) ==
  /\ m.src[u] = disk[u]
  /\ u \notin m.needs
  /\ u \in Including => m.header = header

\* The manifest m proves that u needs no parse.
ProvenBy(m, u) == rows[u].src # NoHash /\ Agrees(m, u)

MustParse(m, lost, force) == {u \in Unit : force \/ u \in lost \/ ~ProvenBy(m, u)}

\* The start of run: the header pass, the marker of a stopped run, and decide_units.
Start(force) ==
  /\ run.at = "off"
  /\ run' = [Idle EXCEPT !.at = "loop", !.force = force, !.seen = disk, !.base = manifest,
                         !.parse = MustParse(manifest, marker.units, force),
                         !.markerUnits = marker.units, !.markerWritten = marker.on,
                         !.pendingRun = marker.on]
  /\ UNCHANGED <<files, indexVars, manifest, marker, faults, history>>

(***************************************************************************)
(* The loop over the units.                                                *)
(***************************************************************************)
InLoop(u) == run.at = "loop" /\ run.next = u

\* Mutant: an unchanged unit takes the next one with it.
SkipUnchangedAndNext(u) ==
  /\ InLoop(u)
  /\ u \notin run.parse
  /\ run' = [run EXCEPT !.next = u + 2]
  /\ UNCHANGED <<files, indexVars, manifest, marker, faults, history>>

\* _handle_unchanged: only the record of the file is written again.
SkipUnchanged(u) ==
  /\ InLoop(u)
  /\ u \notin run.parse
  /\ run' = [run EXCEPT !.next = u + 1]
  /\ UNCHANGED <<files, indexVars, manifest, marker, faults, history>>

\* The parse or the store fails, and the unit keeps the rows it had.
SkipFailed(u) ==
  /\ InLoop(u)
  /\ u \in run.parse
  /\ faults < MaxFaults
  /\ faults' = faults + 1
  /\ run' = [run EXCEPT !.next = u + 1]
  /\ UNCHANGED <<files, indexVars, manifest, marker, history>>

\* The parse of u, and the transaction of _process_unit: the rows of u are
\* replaced, its edges and macro values go with the old ones, and the pending
\* dispatches wait in the TEMP table.  A unit that the manifest still agrees with is
\* stored when the run is forced, or its text came back since the decision.
StoreUnit(u) ==
  /\ InLoop(u)
  /\ u \in run.parse
  /\ rows' = [rows EXCEPT ![u] = [src |-> disk[u],
                                  header |-> IF u \in Including THEN header ELSE NoHash]]
  /\ edges' = edges \ {u}
  /\ expanded' = expanded \ {u}
  /\ run' = [run EXCEPT !.at = "stored",
                        !.temp = IF u \in Dispatching THEN @ \cup {u} ELSE @]
  /\ apart' = apart \cup {u}
  /\ excused' = MayPass(IF Agrees(manifest, u) THEN {u} ELSE {},
                        [rows |-> excused.rows \ {u}, edges |-> excused.edges \ {u},
                         macros |-> excused.macros \ {u}])
  /\ UNCHANGED <<files, manifest, marker, faults>>

\* mark_pending: from here the next run parses the units, and runs the macro step.
Mark(units) ==
  /\ marker' = [on |-> TRUE, units |-> units]
  /\ excused' = [excused EXCEPT !.edges = @ \ units, !.macros = {}]

\* Mutant: the marker does not name the units with pending dispatches.
RecordUnitUnnamed(u) ==
  /\ run.at = "stored" /\ run.next = u
  /\ run' = [run EXCEPT !.at = "recorded", !.next = u + 1, !.reparsed = @ \cup {u},
                        !.markerUnits = @ \ {u}, !.markerWritten = TRUE]
  /\ IF run.markerWritten THEN UNCHANGED <<marker, excused>> ELSE Mark(run.markerUnits \ {u})
  /\ UNCHANGED <<files, indexVars, manifest, faults, apart>>

\* After the transaction: the lists of the run, and the marker if there is none yet.
RecordUnit(u) ==
  LET units == IF u \in Dispatching THEN run.markerUnits \cup {u} ELSE run.markerUnits \ {u}
  IN
  /\ run.at = "stored" /\ run.next = u
  /\ run' = [run EXCEPT !.at = "recorded", !.next = u + 1, !.reparsed = @ \cup {u},
                        !.markerUnits = units, !.markerWritten = TRUE]
  /\ IF run.markerWritten THEN UNCHANGED <<marker, excused>> ELSE Mark(units)
  /\ UNCHANGED <<files, indexVars, manifest, faults, apart>>

\* Less than MANIFEST_CHECKPOINT_S since the last checkpoint.
NoCheckpoint ==
  /\ run.at = "recorded"
  /\ run' = [run EXCEPT !.at = "loop"]
  /\ UNCHANGED <<files, indexVars, manifest, marker, faults, history>>

MarkCheckpoint ==
  /\ run.at = "recorded"
  /\ run' = [run EXCEPT !.at = "checkpoint"]
  /\ Mark(run.markerUnits)
  /\ UNCHANGED <<files, indexVars, manifest, faults, apart>>

(***************************************************************************)
(* The manifest the run writes, at a checkpoint and at its end.            *)
(***************************************************************************)
\* The units whose entry may be rewritten: parsed in this run, and with a list
\* of headers.  The empty list of a unit without a header does not survive the
\* translation of tu_headers to file keys, so such a unit keeps its old entry.
Fresh == run.reparsed \cap Including

\* fold_headers: one hash for the header, Conflict when two units read two texts.
FoldedHeader ==
  LET reads == {rows[u].header : u \in Fresh}
  IN CASE reads = {} -> run.base.header
       [] \E t \in reads : reads = {t} -> CHOOSE t \in reads : TRUE
       [] OTHER -> Conflict

\* Mutant: no carried entry is marked.
NothingMovedOn(h) == {}

\* _headers_moved_on: the entry is carried over, but the shared hash is not the
\* one its rows were read with.
MovedOn(h) == {u \in Including \ Fresh : run.base.src[u] # NoHash /\ h # run.base.header}

\* Mutant: a parse does not remove the mark of its unit.
UpdatedManifestKeepsMarks ==
  LET h == FoldedHeader
  IN [src |-> [u \in Unit |-> IF u \in Fresh THEN run.seen[u] ELSE run.base.src[u]],
      header |-> h,
      needs |-> run.base.needs \cup MovedOn(h)]

UpdatedManifest ==
  LET h == FoldedHeader
  IN [src |-> [u \in Unit |-> IF u \in Fresh THEN run.seen[u] ELSE run.base.src[u]],
      header |-> h,
      needs |-> (run.base.needs \ Fresh) \cup MovedOn(h)]

\* The units whose rows come from the text that the new entry has the hash of: the entry
\* has that of the decision.
Recorded == {u \in Fresh : rows[u].src = run.seen[u]}

\* The write of the manifest; one that fails is reported, and the run goes on.
WriteManifest ==
  \/ /\ manifest' = UpdatedManifest
     /\ apart' = apart \ Recorded
     /\ excused' = [excused EXCEPT !.rows = @ \ Recorded]
     /\ UNCHANGED faults
  \/ /\ faults < MaxFaults
     /\ faults' = faults + 1
     /\ UNCHANGED <<manifest, history>>

SaveCheckpoint ==
  /\ run.at = "checkpoint"
  /\ run' = [run EXCEPT !.at = "loop"]
  /\ WriteManifest
  /\ UNCHANGED <<files, indexVars, marker>>

(***************************************************************************)
(* The end of the run, in the order of _STEPS.                             *)
(***************************************************************************)
EndLoop ==
  /\ run.at = "loop" /\ run.next > Last
  /\ run' = [run EXCEPT !.at = "manifest"]
  /\ IF run.markerWritten THEN Mark(run.markerUnits) ELSE UNCHANGED <<marker, excused>>
  /\ UNCHANGED <<files, indexVars, manifest, faults, apart>>

\* _step_update_manifest
SaveManifest ==
  /\ run.at = "manifest"
  /\ run' = [run EXCEPT !.at = "macros"]
  /\ WriteManifest
  /\ UNCHANGED <<files, indexVars, marker>>

\* Mutant: _needs_macros does not look at the stopped run before.
ExpandMacrosAfterParse ==
  /\ run.at = "macros"
  /\ run' = [run EXCEPT !.at = "dispatch"]
  /\ expanded' = IF run.reparsed # {} THEN expanded \cup Unit ELSE expanded
  /\ UNCHANGED <<files, rows, edges, manifest, marker, faults, history>>

\* _step_expand_macros with its guard _needs_macros; a unit that fails is passed over.
ExpandMacros ==
  /\ run.at = "macros"
  /\ run' = [run EXCEPT !.at = "dispatch"]
  /\ IF run.reparsed # {} \/ run.pendingRun
     THEN \E failed \in SUBSET Unit :
            /\ failed # {} => faults < MaxFaults
            /\ faults' = IF failed # {} THEN faults + 1 ELSE faults
            /\ expanded' = (expanded \cup Unit) \ (failed \ expanded)
            /\ excused' = [excused EXCEPT !.macros = failed \ expanded]
     ELSE UNCHANGED <<expanded, faults, excused>>
  /\ UNCHANGED <<files, rows, edges, manifest, marker, apart>>

\* _step_resolve_dispatches; when it fails a warning is all that stays.
ResolveDispatches ==
  /\ run.at = "dispatch"
  /\ run' = [run EXCEPT !.at = "clear"]
  /\ \/ edges' = edges \cup run.temp /\ UNCHANGED <<faults, excused>>
     \/ /\ faults < MaxFaults
        /\ faults' = faults + 1
        /\ excused' = [excused EXCEPT !.edges = @ \cup run.temp]
        /\ UNCHANGED edges
  /\ UNCHANGED <<files, rows, expanded, manifest, marker, apart>>

\* clear_pending, and the end of the process.  A unit that the marker named and
\* the run could not parse is forgotten here.
ClearPending ==
  /\ run.at = "clear"
  /\ run' = Idle
  /\ marker' = NoMarker
  /\ excused' = [excused EXCEPT !.edges = @ \cup (run.markerUnits \cap (run.parse \ run.reparsed))]
  /\ UNCHANGED <<files, indexVars, manifest, faults, apart>>

\* A crash, a signal, IndexSuperseded, or an error that ends the run before
\* clear_pending.
Stop ==
  /\ run.at # "off"
  /\ faults < MaxFaults
  /\ faults' = faults + 1
  /\ run' = Idle
  /\ UNCHANGED <<files, indexVars, manifest, marker, history>>

RunStep ==
  \/ \E u \in Unit : SkipUnchanged(u) \/ StoreUnit(u) \/ RecordUnit(u)
  \/ NoCheckpoint \/ MarkCheckpoint \/ SaveCheckpoint
  \/ EndLoop \/ SaveManifest \/ ExpandMacros \/ ResolveDispatches \/ ClearPending

Next ==
  \/ Edit \/ Revert
  \/ \E force \in Forcing : Start(force)
  \/ RunStep
  \/ \E u \in Unit : SkipFailed(u)
  \/ Stop

\* A run that goes on ends.  Nothing makes a run begin: the daemon and its users start one
\* after a change, and at its own start.
Spec == Init /\ [][Next]_vars /\ WF_vars(RunStep)

(***************************************************************************)
(* Properties                                                              *)
(***************************************************************************)
RunPlaces == {"off", "loop", "stored", "recorded", "checkpoint", "manifest", "macros", "dispatch",
              "clear"}

\* Every variable has its type: texts, hashes and sets of units.
TypeOK ==
  /\ disk \in [Unit -> Text] /\ header \in Text
  /\ newest \in [src : [Unit -> Text], header : Text, reverts : 0 .. MaxReverts]
  /\ rows \in [Unit -> [src : Text \cup {NoHash}, header : Text \cup {NoHash}]]
  /\ edges \subseteq Unit /\ expanded \subseteq Unit
  /\ manifest \in Manifests /\ marker \in Markers
  /\ run \in [at : RunPlaces, next : 1 .. Last + 1, force : BOOLEAN, parse : SUBSET Unit,
              seen : [Unit -> Text \cup {NoHash}], base : Manifests, reparsed : SUBSET Unit,
              markerUnits : SUBSET Unit, markerWritten : BOOLEAN, pendingRun : BOOLEAN,
              temp : SUBSET Unit]
  /\ faults \in 0 .. MaxFaults
  /\ apart \subseteq Unit
  /\ excused \in [rows : SUBSET Unit, edges : SUBSET Unit, macros : SUBSET Unit]

Current(u) ==
  rows[u] = [src |-> disk[u], header |-> IF u \in Including THEN header ELSE NoHash]

\* A unit the next run would keep as unchanged holds what a parse of the present texts
\* would give (UnitDecision, _unit_processor.py:939), wherever runs stop.  The exception:
\* after its last store an earlier text came back, and no manifest on disk records that
\* store, because the run stopped, the write failed, or the parse read another text
\* than the decision.
UnchangedMeansCurrent ==
  \A u \in Unit : ProvenBy(manifest, u) /\ u \notin excused.rows => Current(u)

\* What UnitDecision says, without exception.
EveryUnchangedIsCurrent == \A u \in Unit : run.at = "off" /\ ProvenBy(manifest, u) => Current(u)

NextParses(u) == u \in marker.units \/ ~ProvenBy(manifest, u)

\* Between two runs, a stored unit without its dispatch edges is one the next run
\* parses, save where they were given up: the run stopped before the marker named the
\* unit, and the manifest agrees with the files, since the run was forced or an earlier
\* text came back; the dispatch step failed; a named unit did not parse.
LostEdgesReparsed ==
  \A u \in Dispatching :
    run.at = "off" /\ rows[u].src # NoHash /\ u \notin edges /\ u \notin excused.edges
      => NextParses(u)

\* Between two runs, a stored unit without its macro values makes the next run expand
\* macros: it parses the unit, or finds the marker of the stopped run.  Given up are
\* the values of a unit that failed to expand, and of one that the manifest agrees with
\* when the run stops before its first mark.
LostMacrosExpanded ==
  \A u \in Unit :
    run.at = "off" /\ rows[u].src # NoHash /\ u \notin expanded /\ u \notin excused.macros
      => marker.on \/ ~ProvenBy(manifest, u)

\* What _run_marker.py promises (lines 16-19, 64-67): the marker holds the units whose
\* edges are not resolved, so a stop at any point has the next run parse them.
StopLosesNoEdges == \A u \in run.temp \ edges : NextParses(u)

RunsGoOn == []<><<\E force \in Forcing : Start(force)>>_vars

\* When files and faults have settled and runs are started again and again, the rows come
\* from the texts on disk, but for the units of which UnchangedMeansCurrent does not speak.
IndexConverges ==
  RunsGoOn => <>[](\A u \in Unit \ excused.rows : Current(u))

\* When files and faults have settled, a run that is not forced parses nothing:
\* no mark, no conflict and no marker keeps a unit stale for ever.
SettledRunsParseNothing == <>[](run.force \/ run.parse = {})
=============================================================================
