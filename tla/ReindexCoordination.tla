-------------------------- MODULE ReindexCoordination --------------------------
(***************************************************************************)
(* mcp/daemon.py, mcp/background.py, cli/_index.py and the unit loop of    *)
(* indexer/runner.py: who may write the index of a project, and which      *)
(* change gets an index run.                                               *)
(*                                                                         *)
(* A watcher daemon turns file changes into index runs, which are          *)
(* processes of their own; users start index runs too; and MCP servers     *)
(* change the index by hand (reindex_file, reset_index).  Runs exclude     *)
(* each other with index.lock.  Between runs, manual operations and the    *)
(* daemon there are only marker files: reindex.pause names the manual      *)
(* operation that asked for the index, reindex.pending shows that the      *)
(* daemon has work.  reindex.pid is not modelled: its only writer,         *)
(* _claim_index, has no caller, so the file never exists, _index_held      *)
(* comes down to the pause marker and _kill_bg_reindex to nothing.         *)
(*                                                                         *)
(* A marker is read and removed in one step here.                          *)
(***************************************************************************)
EXTENDS Naturals

CONSTANTS Files,      \* the source files, each one translation unit
          Runs,       \* process slots of index runs
          Manuals,    \* MCP servers that run manual operations (a marker names a process)
          MaxEdits, MaxCli, MaxOps, MaxBoots,   \* bounds on what users do
          None

ASSUME ReindexAssumption ==
  /\ None \notin Files \cup Runs \cup Manuals
  /\ Runs \cap Manuals = {}
  /\ {MaxEdits, MaxCli, MaxOps, MaxBoots} \subseteq Nat

VARIABLES index,       \* index[f]: how the rows of f relate to its newest text
          events,      \* the changed files the watch has not reported yet
          daemon,      \* where the daemon is in its loop
          pending,     \* the flag of _PendingWork
          marker,      \* reindex.pending is there, and names this daemon
          superseded,  \* superseded_runs
          gaveUp,      \* the daemon dropped work, or could not look for it
          child,       \* the run the daemon waits for
          run,         \* run[r]: the index run in slot r
          lock,        \* the run that holds index.lock
          detached,    \* the runs and operations whose index.db was deleted
          wiped,       \* no run has completed since index.db was deleted
          pause,       \* the manual operation reindex.pause names
          manual,      \* manual[m]: the operation of m
          left,        \* what users may still do
          dropped      \* history: the files whose newest change this daemon had in hand and
                       \* let go, without giving up

daemonVars == <<daemon, pending, marker, superseded, gaveUp, child>>
runVars == <<run, lock, detached>>
manualVars == <<pause, manual>>
indexVars == <<index, events, wiped, dropped>>
vars == <<daemonVars, runVars, manualVars, indexVars, left>>

\* _SUPERSEDED_RUNS_MAX
SupersededRunsMax == 3

Codes == {"ok", "failed", "superseded", "already_running"}

\* "behind": the rows are older than the file.  "overtaken": they were not, but
\* the result of an older parse has taken their place.
Rows == {"current", "behind", "overtaken"}

\* A run decides what to parse before its first parse: todo are the units it has
\* not stored yet, old the files edited since.
NoRun == [pc |-> "off", todo |-> {}, old |-> {}, unit |-> None, code |-> None]

\* fresh: no edit since the parse.
NoOp == [pc |-> "idle", unit |-> None, fresh |-> FALSE]

Stale == {f \in Files : index[f] # "current"}

\* The rows of f after the store of a parse that is the newest, or is not.
Stored(f, newest) ==
  [index EXCEPT ![f] = IF newest THEN "current"
                       ELSE IF index[f] = "current" THEN "overtaken"
                       ELSE index[f]]

Init ==
  /\ index \in [Files -> {"current", "behind"}]
  /\ events = {}
  /\ daemon = "off"
  /\ pending = FALSE
  /\ marker = FALSE
  /\ superseded = 0
  /\ gaveUp = FALSE
  /\ child = None
  /\ run = [r \in Runs |-> NoRun]
  /\ lock = None
  /\ detached = {}
  /\ wiped = FALSE
  /\ dropped = {}
  /\ pause = None
  /\ manual = [m \in Manuals |-> NoOp]
  /\ left = [edits |-> MaxEdits, cli |-> MaxCli, ops |-> MaxOps, boots |-> MaxBoots]

-----------------------------------------------------------------------------
(***************************************************************************)
(* The user edits a file.  What runs and operations hold of it is old: a    *)
(* parse has read the text of before, or the rows will carry the hash of    *)
(* before.  The watch sees the edit when a daemon runs.                     *)
(***************************************************************************)
Edit(f) ==
  /\ left.edits > 0
  /\ left' = [left EXCEPT !.edits = @ - 1]
  /\ index' = [index EXCEPT ![f] = "behind"]
  /\ events' = IF daemon = "off" THEN events ELSE events \cup {f}
  /\ dropped' = dropped \ {f}
  /\ run' = [r \in Runs |-> IF run[r].pc \in {"units", "parsed"}
                              THEN [run[r] EXCEPT !.old = run[r].old \cup {f}]
                              ELSE run[r]]
  /\ manual' = [m \in Manuals |-> IF manual[m].unit = f
                                    THEN [manual[m] EXCEPT !.fresh = FALSE]
                                    ELSE manual[m]]
  /\ UNCHANGED <<daemonVars, lock, detached, wiped, pause>>

-----------------------------------------------------------------------------
(***************************************************************************)
(* Manual operations: parse (reindex_file only), pause, write, resume.     *)
(***************************************************************************)
Paused == pause # None

SetOp(m, op) == manual' = [manual EXCEPT ![m] = op]

ReindexParse(m, f) ==
  /\ manual[m] = NoOp
  /\ left.ops > 0
  /\ left' = [left EXCEPT !.ops = @ - 1]
  /\ SetOp(m, [pc |-> "parsed", unit |-> f, fresh |-> TRUE])
  /\ UNCHANGED <<daemonVars, runVars, indexVars, pause>>

ReindexPause(m) ==
  /\ manual[m].pc = "parsed"
  /\ pause' = m
  /\ SetOp(m, [manual[m] EXCEPT !.pc = "storing"])
  /\ UNCHANGED <<daemonVars, runVars, indexVars, left>>

\* The store, under write.lock: the text on disk is not looked at again.
ReindexStore(m) ==
  LET f == manual[m].unit
  IN /\ manual[m].pc = "storing"
     /\ index' = IF m \in detached THEN index ELSE Stored(f, manual[m].fresh)
     /\ SetOp(m, [pc |-> "resuming", unit |-> None, fresh |-> FALSE])
     /\ UNCHANGED <<daemonVars, runVars, events, wiped, dropped, pause, left>>

\* write.lock is not free in time, or the database fails.
ReindexFails(m) ==
  /\ manual[m].pc = "storing"
  /\ SetOp(m, [pc |-> "resuming", unit |-> None, fresh |-> FALSE])
  /\ UNCHANGED <<daemonVars, runVars, indexVars, pause, left>>

ResetPause(m) ==
  /\ manual[m] = NoOp
  /\ left.ops > 0
  /\ left' = [left EXCEPT !.ops = @ - 1]
  /\ pause' = m
  /\ SetOp(m, [pc |-> "deleting", unit |-> None, fresh |-> FALSE])
  /\ UNCHANGED <<daemonVars, runVars, indexVars>>

Reindexing == {m \in Manuals : manual[m].pc \in {"parsed", "storing"}}

\* Mutant of ResetDelete: a run is taken to be there.
ResetDeleteUnguarded(m) ==
  /\ manual[m].pc = "deleting"
  /\ wiped' = TRUE
  /\ detached' = detached \cup {lock} \cup Reindexing
  /\ SetOp(m, [pc |-> "resuming", unit |-> None, fresh |-> FALSE])
  /\ UNCHANGED <<daemonVars, run, lock, index, events, dropped, pause, left>>

\* reset_index unlinks index.db and takes no lock: who has it open goes on with
\* the deleted file.
ResetDelete(m) ==
  /\ manual[m].pc = "deleting"
  /\ wiped' = TRUE
  /\ detached' = detached \cup {r \in Runs : lock = r} \cup Reindexing
  /\ SetOp(m, [pc |-> "resuming", unit |-> None, fresh |-> FALSE])
  /\ UNCHANGED <<daemonVars, run, lock, index, events, dropped, pause, left>>

\* Only the operation the marker names removes it.
Resume(m) ==
  /\ manual[m].pc = "resuming"
  /\ pause' = IF pause = m THEN None ELSE pause
  /\ detached' = detached \ {m}
  /\ SetOp(m, NoOp)
  /\ UNCHANGED <<daemonVars, run, lock, indexVars, left>>

\* The server dies: a marker that names it reads as absent from then on.
ManualDies(m) ==
  /\ manual[m] # NoOp
  /\ pause' = IF pause = m THEN None ELSE pause
  /\ detached' = detached \ {m}
  /\ SetOp(m, NoOp)
  /\ UNCHANGED <<daemonVars, run, lock, indexVars, left>>

ManualStep(m) ==
  \/ ReindexPause(m)
  \/ ReindexStore(m)
  \/ ResetDelete(m)
  \/ Resume(m)

-----------------------------------------------------------------------------
(***************************************************************************)
(* Index runs.                                                             *)
(***************************************************************************)

\* The exit code goes to the daemon when it waits for this run.
Exit(r, code) ==
  /\ run' = [run EXCEPT ![r] = IF child = r THEN [NoRun EXCEPT !.pc = "done", !.code = code]
                                            ELSE NoRun]
  /\ lock' = IF lock = r THEN None ELSE lock
  /\ detached' = detached \ {r}

\* A user's fw-context index.
StartCli(r) ==
  /\ run[r] = NoRun
  /\ left.cli > 0
  /\ left' = [left EXCEPT !.cli = @ - 1]
  /\ run' = [run EXCEPT ![r] = [NoRun EXCEPT !.pc = "start"]]
  /\ UNCHANGED <<daemonVars, lock, detached, manualVars, indexVars>>

\* decide_units: every unit is decided before the first parse.
ToParse == IF wiped THEN Files ELSE Stale

\* Mutant of TakeLock: the lock of another run does not count.
TakeLockBlind(r) ==
  /\ run[r].pc = "start"
  /\ lock' = r
  /\ run' = [run EXCEPT ![r] = [NoRun EXCEPT !.pc = "units", !.todo = ToParse]]
  /\ UNCHANGED <<detached, daemonVars, manualVars, indexVars, left>>

\* index_run_lock does not wait.
TakeLock(r) ==
  /\ run[r].pc = "start"
  /\ \/ /\ lock = None
        /\ lock' = r
        /\ run' = [run EXCEPT ![r] = [NoRun EXCEPT !.pc = "units", !.todo = ToParse]]
        /\ UNCHANGED detached
     \/ /\ lock # None
        /\ Exit(r, "already_running")
  /\ UNCHANGED <<daemonVars, manualVars, indexVars, left>>

\* raise_if_superseded at the head of the loop; then the parse, without a lock.
BeginUnit(r, f) ==
  /\ run[r].pc = "units"
  /\ f \in run[r].todo
  /\ ~Paused
  /\ run' = [run EXCEPT ![r] = [run[r] EXCEPT !.pc = "parsed", !.unit = f]]
  /\ UNCHANGED <<daemonVars, lock, detached, manualVars, indexVars, left>>

\* Also before a manifest checkpoint, hence after the last unit.
Superseded(r) ==
  /\ run[r].pc = "units"
  /\ Paused
  /\ Exit(r, "superseded")
  /\ UNCHANGED <<daemonVars, manualVars, indexVars, left>>

\* The store under write.lock; the rows carry the hash of the decision.
StoreUnit(r) ==
  LET f == run[r].unit
  IN /\ run[r].pc = "parsed"
     /\ run' = [run EXCEPT ![r] = [run[r] EXCEPT !.pc = "units", !.unit = None,
                                                 !.todo = run[r].todo \ {f}]]
     /\ index' = IF r \in detached THEN index ELSE Stored(f, f \notin run[r].old)
     /\ UNCHANGED <<daemonVars, lock, detached, manualVars, events, wiped, dropped, left>>

\* The unit cannot be parsed or stored: it is skipped, and the run goes on, to end with
\* exit 0.  Of a deleted index it has no rows then.
SkipUnit(r, f) ==
  /\ run[r].pc = "parsed"
  /\ f = run[r].unit
  /\ run' = [run EXCEPT ![r] = [run[r] EXCEPT !.pc = "units", !.unit = None,
                                              !.todo = run[r].todo \ {f}]]
  /\ index' = IF wiped /\ r \notin detached THEN [index EXCEPT ![f] = "behind"] ELSE index
  /\ dropped' = IF wiped \/ (r = child /\ f \notin run[r].old) THEN dropped \cup {f} ELSE dropped
  /\ UNCHANGED <<daemonVars, lock, detached, manualVars, events, wiped, left>>

\* Post-processing, then the end of the run.
Complete(r) ==
  /\ run[r].pc = "units"
  /\ run[r].todo = {}
  /\ Exit(r, "ok")
  /\ wiped' = (wiped /\ r \in detached)
  /\ UNCHANGED <<daemonVars, manualVars, index, events, dropped, left>>

\* An error, a signal, or write.lock not free within its timeout.
Fail(r) ==
  /\ run[r].pc \in {"start", "units", "parsed"}
  /\ Exit(r, "failed")
  /\ UNCHANGED <<daemonVars, manualVars, indexVars, left>>

RunStep(r) ==
  \/ TakeLock(r)
  \/ \E f \in Files : BeginUnit(r, f) \/ SkipUnit(r, f)
  \/ Superseded(r)
  \/ StoreUnit(r)
  \/ Complete(r)

-----------------------------------------------------------------------------
(***************************************************************************)
(* The daemon.                                                             *)
(***************************************************************************)
Running == daemon \in {"boot", "turn", "gate", "wait"}

\* _PendingWork.set
SetPending == pending' = TRUE /\ marker' = TRUE

\* Mutant of HideIfDone: a change that came during the run loses its marker.
HideAlways == marker' = FALSE

\* _PendingWork.hide_if_done
HideIfDone == marker' = (marker /\ pending)

\* daemon_main takes watcher.lock, and removes a marker of a dead daemon.
Boot ==
  /\ daemon = "off"
  /\ left.boots > 0
  /\ left' = [left EXCEPT !.boots = @ - 1]
  /\ daemon' = "boot"
  /\ marker' = FALSE
  /\ UNCHANGED <<pending, superseded, gaveUp, child, runVars, manualVars, indexVars>>

\* The check at the start, when nobody holds the index.  It finds no work
\* without index.db, and when it fails; the error is logged.
StartupCheck ==
  /\ daemon = "boot"
  /\ ~Paused
  /\ daemon' = "turn"
  /\ \/ /\ Stale # {} /\ ~wiped
        /\ SetPending
        /\ UNCHANGED gaveUp
     \/ /\ Stale = {} /\ ~wiped
        /\ UNCHANGED <<pending, marker, gaveUp>>
     \/ /\ gaveUp' = TRUE
        /\ UNCHANGED <<pending, marker>>
  /\ UNCHANGED <<superseded, child, runVars, manualVars, indexVars, left>>

\* The watch reports the changes since its last report.
WatchEvent ==
  /\ Running
  /\ events # {}
  /\ events' = {}
  /\ SetPending
  /\ UNCHANGED <<daemon, superseded, gaveUp, child, runVars, manualVars, index, wiped, dropped, left>>

\* The watch fails, and begins anew after 5 s: what changed since its last report is lost.
WatchFails ==
  /\ Running
  /\ events # {}
  /\ events' = {}
  /\ dropped' = dropped \cup events
  /\ UNCHANGED <<daemonVars, runVars, manualVars, index, wiped, left>>

\* The head of the loop, up to the end of the debounce.
Debounce ==
  /\ daemon = "turn"
  /\ pending
  /\ daemon' = "gate"
  /\ UNCHANGED <<pending, marker, superseded, gaveUp, child, runVars, manualVars, indexVars, left>>

\* A manual operation outlasts _PAUSE_WAIT_S.
PauseOutlasts ==
  /\ daemon = "gate"
  /\ Paused
  /\ daemon' = "turn"
  /\ UNCHANGED <<pending, marker, superseded, gaveUp, child, runVars, manualVars, indexVars, left>>

\* The flag is cleared before the run starts, which takes up what was dropped.
Spawn(r) ==
  /\ daemon = "gate"
  /\ ~Paused
  /\ run[r] = NoRun
  /\ pending' = FALSE
  /\ gaveUp' = FALSE
  /\ run' = [run EXCEPT ![r] = [NoRun EXCEPT !.pc = "start"]]
  /\ child' = r
  /\ daemon' = "wait"
  /\ dropped' = {}
  /\ UNCHANGED <<marker, superseded, lock, detached, manualVars, index, events, wiped, left>>

\* The subprocess cannot start: the work is dropped until the next change.
SpawnFails ==
  /\ daemon = "gate"
  /\ ~Paused
  /\ pending' = FALSE
  /\ marker' = FALSE
  /\ gaveUp' = TRUE
  /\ superseded' = 0
  /\ daemon' = "turn"
  /\ UNCHANGED <<child, runVars, manualVars, indexVars, left>>

\* Mutant of OutcomeAlreadyRunning: the work is left to the run that has the lock.
OutcomeAlreadyRunningDropped(code) ==
  /\ code = "already_running"
  /\ HideIfDone
  /\ UNCHANGED <<pending, superseded, gaveUp>>

\* Another run had the lock: do it again.
OutcomeAlreadyRunning(code) ==
  /\ code = "already_running"
  /\ SetPending
  /\ UNCHANGED <<superseded, gaveUp>>

\* A manual operation took the index: do it again, but not for ever.
OutcomeSuperseded(code) ==
  /\ code = "superseded"
  /\ superseded + 1 < SupersededRunsMax
  /\ superseded' = superseded + 1
  /\ SetPending
  /\ UNCHANGED gaveUp

\* Mutant of OutcomeFinal: the flag is cleared after the run, not before it.
OutcomeFinalClears(code) ==
  /\ code \in {"ok", "failed"}
  /\ superseded' = 0
  /\ gaveUp' = (code # "ok")
  /\ pending' = FALSE
  /\ marker' = FALSE

\* Done, failed, or superseded too often.
OutcomeFinal(code) ==
  /\ \/ code \in {"ok", "failed"}
     \/ code = "superseded" /\ superseded + 1 >= SupersededRunsMax
  /\ superseded' = 0
  /\ gaveUp' = (code # "ok")
  /\ HideIfDone
  /\ UNCHANGED pending

\* _wait_index returned the exit code of the run.
Outcome ==
  /\ daemon = "wait"
  /\ run[child].pc = "done"
  /\ LET code == run[child].code
     IN OutcomeAlreadyRunning(code) \/ OutcomeSuperseded(code) \/ OutcomeFinal(code)
  /\ run' = [run EXCEPT ![child] = NoRun]
  /\ child' = None
  /\ daemon' = "turn"
  /\ UNCHANGED <<lock, detached, manualVars, indexVars, left>>

\* SIGTERM, or no ping for PING_TIMEOUT.
Stop ==
  /\ Running
  /\ daemon' = "stopping"
  /\ UNCHANGED <<pending, marker, superseded, gaveUp, child, runVars, manualVars, indexVars, left>>

\* What the process of the daemon knew is gone.
Gone ==
  /\ daemon' = "off"
  /\ events' = {}
  /\ child' = None
  /\ pending' = FALSE
  /\ superseded' = 0
  /\ gaveUp' = FALSE
  /\ dropped' = {}
  /\ UNCHANGED <<marker, manualVars, index, wiped, left>>

\* _cleanup_daemon, with the run terminated.  It removes a marker of its own in
\* the parent of the index directory, where there never is one.
Cleanup ==
  /\ daemon = "stopping"
  /\ Gone
  /\ IF child # None
       THEN /\ run' = [run EXCEPT ![child] = NoRun]
            /\ lock' = IF lock = child THEN None ELSE lock
            /\ detached' = detached \ {child}
       ELSE UNCHANGED runVars

\* SIGKILL: the run of the daemon goes on as nobody's child.
DaemonDies ==
  /\ daemon # "off"
  /\ Gone
  /\ IF child # None /\ run[child].pc = "done"
       THEN run' = [run EXCEPT ![child] = NoRun]
       ELSE UNCHANGED run
  /\ UNCHANGED <<lock, detached>>

\* A status reader removes the marker of a dead daemon (PidFile.is_active).
ReadStaleMarker ==
  /\ daemon = "off"
  /\ marker
  /\ marker' = FALSE
  /\ UNCHANGED <<daemon, pending, superseded, gaveUp, child, runVars, manualVars, indexVars, left>>

DaemonStep ==
  \/ StartupCheck
  \/ Debounce
  \/ \E r \in Runs : Spawn(r)
  \/ Outcome
  \/ Cleanup

-----------------------------------------------------------------------------
Next ==
  \/ \E f \in Files : Edit(f)
  \/ \E m \in Manuals, f \in Files : ReindexParse(m, f)
  \/ \E m \in Manuals : ResetPause(m) \/ ManualStep(m) \/ ReindexFails(m) \/ ManualDies(m)
  \/ \E r \in Runs : StartCli(r) \/ RunStep(r) \/ Fail(r)
  \/ Boot
  \/ WatchEvent
  \/ WatchFails
  \/ DaemonStep
  \/ PauseOutlasts
  \/ SpawnFails
  \/ Stop
  \/ DaemonDies
  \/ ReadStaleMarker

\* Processes that run make progress, and the watch reports what it saw; nobody
\* has to edit, start, stop or kill anything.
Fairness ==
  /\ \A m \in Manuals : WF_vars(ManualStep(m))
  /\ \A r \in Runs : WF_vars(RunStep(r))
  /\ WF_vars(WatchEvent)
  /\ WF_vars(DaemonStep)

Spec == Init /\ [][Next]_vars /\ Fairness

-----------------------------------------------------------------------------
(***************************************************************************)
(* Properties.                                                             *)
(***************************************************************************)
RunStates == [pc : {"off", "start", "units", "parsed", "done"},
              todo : SUBSET Files,
              old : SUBSET Files,
              unit : Files \cup {None},
              code : Codes \cup {None}]

OpStates == [pc : {"idle", "parsed", "storing", "deleting", "resuming"},
             unit : Files \cup {None},
             fresh : BOOLEAN]

\* Every variable has the shape the code gives it.
TypeOK ==
  /\ index \in [Files -> Rows]
  /\ events \subseteq Files
  /\ daemon \in {"off", "boot", "turn", "gate", "wait", "stopping"}
  /\ pending \in BOOLEAN
  /\ marker \in BOOLEAN
  /\ superseded \in 0..(SupersededRunsMax - 1)
  /\ gaveUp \in BOOLEAN
  /\ child \in Runs \cup {None}
  /\ run \in [Runs -> RunStates]
  /\ lock \in Runs \cup {None}
  /\ detached \subseteq Runs \cup Manuals
  /\ wiped \in BOOLEAN
  /\ dropped \subseteq Files
  /\ pause \in Manuals \cup {None}
  /\ manual \in [Manuals -> OpStates]
  /\ left \in [edits : 0..MaxEdits, cli : 0..MaxCli, ops : 0..MaxOps, boots : 0..MaxBoots]

\* The run the daemon waits for will still read the newest text of f, or will
\* tell the daemon that it did not.
InHand(f) ==
  /\ daemon = "wait"
  /\ \/ run[child].pc = "start"
     \/ run[child].pc \in {"units", "parsed"} /\ f \in run[child].todo \ run[child].old
     \/ run[child].pc = "done" /\ run[child].code # "ok"

\* The order clear-then-run of _reindex_loop: while the daemon is in its loop,
\* a change that nobody indexed is never forgotten, whatever runs and manual
\* operations come between.  It waits in the watch, in the flag, or in the run
\* the daemon waits for, unless the daemon gave up, the daemon's run skipped that
\* unit, or the watch failed before it reported the change.
NoForgottenChange ==
  \A f \in Files :
     index[f] = "behind" /\ daemon \in {"turn", "gate", "wait"} /\ ~gaveUp /\ ~wiped
        => f \in events \/ pending \/ InHand(f) \/ f \in dropped

\* The same without a skipped unit or a change lost by the watch excused.
EveryChangeRemembered ==
  \A f \in Files :
     index[f] = "behind" /\ daemon \in {"turn", "gate", "wait"} /\ ~gaveUp /\ ~wiped
        => f \in events \/ pending \/ InHand(f)

\* What reindex.pending shows is the truth: while the daemon is in its loop the
\* marker is there exactly when it has work that is not done (_PendingWork).
MarkerTellsTheTruth ==
  daemon \in {"turn", "gate", "wait"} => (marker <=> pending \/ daemon = "wait")

\* An index run takes units to index only while it owns the index, whatever
\* daemons and users do: an orphaned run and the run of the next daemon exclude
\* each other.
OneIndexer ==
  \A r, s \in Runs :
     run[r].pc \in {"units", "parsed"} /\ run[s].pc \in {"units", "parsed"} => r = s

\* Every change is indexed in the end, unless the daemon stops, gives up, or the
\* index was deleted, its run skips that unit, or the watch loses the change.
ChangesGetIndexed ==
  \A f \in Files :
     index[f] = "behind" ~> \/ index[f] # "behind"
                            \/ gaveUp
                            \/ f \in dropped
                            \/ daemon \in {"off", "stopping"}
                            \/ wiped

\* _index_held and the comment on EXIT_ALREADY_RUNNING: "the next turn waits for
\* that run".  The daemon starts no run while another one holds the index.
DaemonWaitsForRuns == [][child = None /\ child' # None => lock = None]_vars

\* raise_if_superseded: a run that reset_index took the index from gives up; it
\* does not complete over an index that is gone.  (While the marker is there the
\* end of a run and its giving up are the same step, hence ~Paused.)
CompletedRunIsWhole ==
  [][\A r \in Runs : ~Paused /\ Complete(r) => r \notin detached]_vars

\* _PendingWork: _cleanup_daemon removes the marker "when the daemon stops".
MarkerGoneAfterStop == [][daemon = "stopping" /\ Cleanup => ~marker']_vars
=============================================================================
