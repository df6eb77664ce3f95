# fw-context: a TLA+ model of its stores, its reindexing, its servers and its call graph

fw-context indexes C/C++ firmware projects and answers questions about them
over MCP. Much of it is sequential: parse, extract, write rows, format an
answer. What is hard is what several *processes* do to the same files (index
runs, watcher daemons, MCP servers and a garbage collector share SQLite stores,
lock files and marker files), what a run that *stops* leaves to the next one,
what the threads of one server do to its connection, and a few graph
*algorithms* whose wrong answer nobody would see. This directory models these.

Line numbers below refer to `src/src/fw_context_mcp/`. `PROJECT.json` maps every
definition to its lines.

## 1. Inventory

| component | state it keeps | operations | why it is hard | correctness |
|---|---|---|---|---|
| publication `store_v2/publish.py` | `semantic_states` rows (absent, staging with an owner's lease, published, quarantined), `integrity_events` | publish one-shot, complete a claim, stage a claim, renew a lease | concurrent writers, leases that run out, busy store, uncommitted rows of a connection | a published digest never changes while it is there; success reports stay true until a sweep; conflicts leave an event |
| certification hook `store_v2/certify.py` | none of its own | publish, then bind or poison, close | two transactions per TU, errors isolated per TU | a refused TU is recorded as poisoned |
| worlds `store_v2/worlds.py` | `snapshot_builds`, `builds`, `tu_bindings`; in memory `V2WorldContext` | ensure world rows, bind, record poison, finalize | retries and concurrent runs over one identity, rollback behind the context's back | one world per identity, immutable rows, completion only with every recorded row |
| collector `store_v2/gc.py` | none; the caller holds a `GCAnalysis` | analyze, apply, mark failed / retained / retired | the analysis ages between the two steps | no referenced state and no root world is deleted; no claim is swept |
| query views `mcp/shared/queryview.py` | session pins | resolve, reuse a pin, unpin | pins outlive worlds | a handler gets a queryable world |
| index run `indexer/runner.py`, `cli/_index.py`, `indexer/db/_locking.py` | `index.lock`, `write.lock`, its decisions in memory | take lock, decide, parse, store, complete, fail, give up | files change during the run, a manual operation takes the index, the process dies | one run at a time, nothing old taken for new |
| daemon `mcp/daemon.py` | pending flag, `reindex.pending`, superseded count, child | watch, debounce, gate, spawn, judge the outcome, stop | changes during a run, runs of others, kills, restarts | no change is forgotten; the marker is true |
| markers `mcp/background.py`, `mcp/shared/pid_file.py` | `reindex.pause`, `reindex.pending`, `reindex.pid`, `watcher.lock` | write, remove if ours, test | dead owners, overwritten markers | a marker names its living owner |
| manual operations `mcp/handlers/maintenance.py` | none | `reindex_file`, `reset_index` | they write and delete under runs | runs notice that they lost the index |
| run marker, manifest, post-processing `indexer/_run_marker.py`, `manifest.py`, `_manifest_updater.py`, `_postprocess.py` | run marker, `manifest.json`, staleness hashes, TEMP table of dispatches | mark, checkpoint, clear, recover, expand macros, resolve dispatches | crash between two steps, two units reading two texts of one header | a unit kept as unchanged is current; what a stopped run lost is made by the next |
| tool wrapper and query executor `mcp/server.py`, `mcp/shared/executor.py` | the slot, executors with a connection and the identity of its file | take the slot, time out, open, check, query, interrupt, invalidate | database replaced under readers, threads that outlive their call | a query reads an index of its time; only abandoned queries are stopped; every call is answered |
| watcher's life `mcp/server.py`, `background.py`, `daemon.py`, `cli/_watch.py` | `watcher.lock`, `watcher.pid`, `daemon.sock` | ping, spawn, start, stop, clean up, restart | two servers spawn at once, cleanup of another's files, lost pings | the daemon that serves is the one that can be found; one comes back; none is left over |
| call graph `indexer/db/_callgraph.py` | none; reads `refs`, `symbols` | callers, callees, path, dead code | bridged edges, two fronts, iterative Tarjan | real and shortest paths; exactly the unreachable functions |
| M6 store, admission `store_v2/m6_*.py`, `admission.py` | shared facts and references, world builds | materialize, finalize, sweep, fast reuse | partial worlds, reference counts | no fact is shared or dropped wrongly |
| cache server/client, LLM router, search, parsers, CLI, builders | caches, configuration | calls to services, formatting, extraction | retries | (not stateful between processes) |

How they interact. A user's `fw-context index` and the daemon's child are the
same program; `index.lock` excludes them. An index run writes the legacy
database in compatibility mode, and, behind a flag, publishes states and binds
TUs into a world of the v2 store, completing the world at its end. MCP servers
read through pinned views, and change the index by hand under a pause marker
that running index runs poll. The daemon watches files, keeps a pending flag
with a marker for status readers, and spawns index runs. The collector works on
the v2 store with ids of pins and running builds handed in by its caller.

Scope conditions of the code itself:

- The worlds of `worlds.py` are written when `FW_CONTEXT_V2_WRITE_AUTHORITY` is on
  and `FW_CONTEXT_M6_WRITE_AUTHORITY` is off; M6 is the default successor (section 8).
- `stage_claim`, `publish_staged_completion`, `heartbeat_claim` and `gc.py` are
  called by the tests only so far (`tests/test_slice1_publication.py`, the
  slice 2 and M5 tests); they are modelled because they write the same rows.
- `index.db` is written in legacy compatibility mode
  (`FW_CONTEXT_LEGACY_COMPATIBILITY_MODE`); `ReindexCoordination` and `RunRecovery`
  model that configuration, in which the staleness check, both manual operations
  and the post-processing have a database to work on.

## 2. Plan

1. `StatePublication` with `PublishedFacts`, its abstract specification, and proofs (done).
2. `WorldStore` and proofs (done); it uses publication as one set of published states.
3. `ReindexCoordination` and proofs (done).
4. `RunRecovery` and proofs (done): what one run remembers for the next, with stops at
   every point; it is the inside of the run that `ReindexCoordination` takes as a whole.
5. `CallGraph`, `CallPath` and `DeadCode` with proofs (done): pure algorithms as state
   machines, against a reference definition.
6. `ToolServer` and proofs (done): one MCP server, its slot, its executor, and
   deletions of the index.
7. `WatcherLifecycle` and proofs (done): how daemons start and go; `ReindexCoordination` is
   what they do in between.
8. Next: composition of `StatePublication` and `WorldStore` (the set `pub` replaced by the
   rows, so that `WorldStore` is refined by the pair); the marker protocol of
   `pid_file.py` in two steps (read, then unlink); the transactions of one
   `reindex_file` under two pause markers; several builds and the claims of headers
   between units; `include_possible` of `find_call_path`; cache client retries.

## 3. Modules

### PublishedFacts, StatePublication

`PublishedFacts` is the promise: a key's digest is chosen while there is none, never
changes while it is there, and is withdrawn only by the collector, which names the key
beforehand. `StatePublication` models `publish.py` and, of `gc.py`, the deletion of rows of
the same table (303-312). Each function runs in one `BEGIN IMMEDIATE`
transaction, so a call is one action; its alternatives are the branches of the
code (`OneShotNew`, `OneShotPublished`, `OneShotQuarantined`, `OneShotStaging`, ...).
`heartbeat_claim` is two actions, because its SELECT runs outside of a transaction. The
collector is `AnalyzeGC`, which names rows that worlds refer to (which worlds, is
`WorldStore`'s subject: here it is any set of rows that were published), and `ApplyGC`, which
sweeps those of them that no world refers to by then, whatever they have become. One
analysis can be applied late, and twice.

| variable | code |
|---|---|
| `row` | the `semantic_states` row of a key: publication, `completeness_sha`, owner and liveness of `owner_lease` |
| `events` | committed `integrity_events` |
| `pending` | rows a connection wrote after its last commit (`stage_claim`, 558-566) |
| `renewing` | a renewal between its SELECT and its UPDATE |
| `last` | the `PublishOutcome` of a process's latest call |
| `doomed` | the keys that the latest `GCAnalysis` names (`eligible_state_keys`) |

A lease has no clock: it is live until `ExpireLease`, which may come at any moment.
Hot facts and cold payloads are written in the transaction of their row and are
part of it. `busy` is returned when another connection keeps the lock; a retry that
succeeds is the action itself. Quarantined rows exist from the start, since nothing
under `src/` sets that status. `publish_staged_completion` publishes under the digest
the claim carries. A deleted `state_id` can be given to a new row, and with it the renewal
that had read it (`ReusesId`). `worlds.py` (315-327) writes integrity events of other kinds
into the same table; nothing reads them, and they are left out.

### WorldStore

One TU of a run takes two transactions: `Certify` (publication, possibly refused,
possibly an error) and `Bind` / `RecordPoison` / `RecordError`. `Finalize` ends a run;
`Crash` ends it without. The collector is `AnalyzeGC`, then any number of `ApplyGC`
of that analysis. Sessions resolve, reuse, answer and unpin.

| variable | code |
|---|---|
| `world`, `binding`, `pub`, `buildRows` | `snapshot_builds`, `tu_bindings`, published `semantic_states`, `builds` |
| `running`, `snap`, `build`, `todo`, `noted` | a run and its `V2WorldContext`: snapshot, `build_identity_sha`, TUs to do, `processed_tu_contexts` |
| `unit` | the TU between publication and recording |
| `analysis` | the `GCAnalysis` somebody holds |
| `pin`, `view` | `_session_pins` and the view of a running handler |

A TU stands for its `tu_context_id` and its source path. One namespace. World ids
follow SQLite's rule for a rowid without AUTOINCREMENT, so a deleted last id is
reused. The two SELECTs of `analyze_gc` are one step; `apply_gc` counts references
again. `RecordError` rolls the rows back but may leave the anchored build identity in
the context, as `_ensure_world_rows` does.

### ReindexCoordination

| variable | code |
|---|---|
| `index` | per file, the rows against its newest text: current, behind, or overtaken (an older parse stored over newer rows) |
| `events` | changes the watch has not reported |
| `daemon`, `pending`, `marker`, `superseded`, `child` | position in `_reindex_loop`, `_PendingWork`'s flag and file, `superseded_runs`, the child |
| `gaveUp` | work the daemon dropped by its own rules, until its next run |
| `run`, `lock` | index runs with what is left to parse and what was edited since the decision; `index.lock` |
| `detached`, `wiped` | who has a deleted `index.db` open; nobody completed a run since the delete |
| `pause`, `manual` | `reindex.pause` and the operations of the MCP servers |
| `dropped` | history: changes the daemon had in hand and lost, because its run skipped the unit or its watch failed |
| `left` | bounds on users' edits, runs, operations and daemon starts |

`reindex.pid` does not appear: its writer `_claim_index` has no caller, so the file
never exists (see `MCReindexCoordinationWaits`). Abstractions: a marker is read and removed in
one step and its write does not fail; deleted source files, `force_refs` and multi-variant
builds are left out; SIGTERM and the ping timeout are one action `Stop`. A unit whose parse
or store fails is skipped (`SkipUnit`; `_unit_processor.py:421-429, 765-773, 1096-1097`,
`runner.py:1067-1071, 1141-1143`): the run still ends with exit 0, and the daemon takes its
work for done. A watch that fails is started again after five seconds (`WatchFails`,
`daemon.py:499-501`): what it had not reported, and what changes in the gap, is lost. Either
loss is in `dropped` until the file changes again or the daemon starts its next run, which
looks at every file.

### RunRecovery

One build, one process at a time (the index lock is `ReindexCoordination`'s). A run is
`Start` (load the manifest, read the marker, decide every unit), one of `SkipUnchanged`,
`SkipFailed`, `StoreUnit`+`RecordUnit` per unit, a checkpoint after any stored unit, then
`EndLoop`, `SaveManifest`, `ExpandMacros`, `ResolveDispatches`, `ClearPending` in the order of
`_STEPS`. `Stop` ends it anywhere; files change anywhere, to a text nobody has seen (`Edit`)
or to one they had before (`Revert`: a branch switch, an undo; `tests/test_branch_switch.py`).

| variable | code |
|---|---|
| `disk`, `header` | texts of the units' sources and of the header they share; a text is its hash |
| `newest` | how many texts each file has had, so that `Edit` takes a new one and `Revert` an old one |
| `rows`, `edges`, `expanded` | rows of a unit (by the texts they come from), its dispatch edges, its macro values |
| `manifest` | per unit the recorded source hash, the shared hash of the header, the entries marked as behind |
| `marker` | `index_run.<config_hash>.pending`: there or not, and the units it names |
| `run` | lists of one run: decisions, hashes read, reparsed units, units for the marker, the TEMP table |
| `apart` | history: units whose last store is in no manifest on disk: the run is still to write it, stopped before, failed to write it, or wrote the hash of the decision where the parse read another text |
| `excused` | history: what the code gives up. Rows: an earlier text came back to a unit in `apart`. Edges: such a unit, or one a forced run stored and the manifest agrees with, before the marker named it; a failed dispatch step; a named unit that did not parse. Macro values: such a unit before the first mark of a run, or one that failed to expand |

`FoldedHeader` is `fold_headers`: when units read two texts, the hash is one that no file
has. Legacy compatibility mode only; one listing per file, one build; who owns a
header and the structural fingerprint are left out. `excused` is history only: no guard reads
it, and it grows only in `Revert`, `StoreUnit`, `ExpandMacros`, `ResolveDispatches` and
`ClearPending`, so an exception is always one of the events named there.

### CallGraph, CallPath, DeadCode

`CallGraph` is the graph as the queries read it from `refs`, with alias pairs, global
constructors and dispatch transits, and the two recursive CTEs as functions by level.
`CallPath` is `find_call_path`: `Round`, `Expand`, `Follow`, `EndFront` are the loops of the
code, for the sides "f" and "r"; an edge is one step. `DeadCode` is `find_dead_code`: `Visit`
(worklist), `Classify` (the ladder), and `_tarjan_scc` with its explicit stack
(`StartComponent`, `FollowEdge`, `Return`). Functions are USRs, names resolve to given sets,
the order of rows is any, SQL limits and `include_possible` of `find_call_path` are left out.

### ToolServer

| variable | code |
|---|---|
| `slot` | `_SERVER_LOCK` (with `_MAINT_LOCK` for a maintenance tool) |
| `pc`, `local`, `reply` | the worker thread of a call, what it holds, what the client got |
| `executors`, `registry`, `registryLock` | `SyncQueryExecutor` objects, `_executors`, `_registry_lock` |
| `file`, `created` | which database is at `db_path` |
| `seen` | history: what was at `db_path` during a call |

`Timeout` answers the client, releases the slot and interrupts; the thread goes on. Opening
is two steps, as in `_open_connection`: `Connect`, then `Stat`, which records the identity;
the file may be deleted or replaced in between, and either may raise (`OpenFails`: the call
fails, and an executor that was being reopened is left with a closed connection).
A file is its number, so an inode that is reused at once is not told apart by it, and the
mtime half of the identity is left out. SQLite creates a missing file (`Connect`). Left out:
the pid-file edge of `_check_reindex`, the loop of `reindex_file` over builds,
`annotate_index_state`. Two things seen while modelling that no property states:
`interrupt_all` takes `_registry_lock` on the event loop, so a slow open stops the loop (the
guard of `Timeout`); and `invalidate` closes a connection without the executor's lock.

### WatcherLifecycle

| variable | code |
|---|---|
| `pc` | the ping thread of a server, or a `watch restart`, inside `_ensure_daemon_running` |
| `daemon` | where a daemon process is between start and exit |
| `lockFile`, `files`, `holds` | `watcher.lock` as a name, and the flocks on opened files |
| `sock`, `pidFile` | whose `daemon.sock` and `watcher.pid` are there |
| `target` | the daemon a restart waits for |
| `unmarked` | history: daemons whose `watcher.pid` another daemon removed that could not listen |

A lock belongs to an open file and outlives its name, which is what POSIX does and what
`RemoveLockFile` runs into. `try_lock` does not wait, in the parent and in the daemon, so a
child that comes before its parent has released exits. A daemon that cannot listen gives
the lock back (`ListenFails`) and then unlinks `watcher.pid` (`RemoveMarker`,
`daemon.py:218-221`): two steps, between which another daemon can boot. Such a failure is
one of the bounded faults, so a socket that can never be bound is not in the model. The
ping timeout is looked at between turns of the daemon's loop, so while a run goes on it
comes once the run has ended; the run is not part of this module. Opening and locking are
one step; the project keeps its index; Windows is left out.

## 4. Runs

All bounds are CONSTANTs in the `.cfg` files.

| run | shows | bounds |
|---|---|---|
| `publication` | `TypeOK`, `SuccessStands`, `OneShotConflictRecorded`, `LiveClaimRespected`, `NoDivergentAdoption`, `ImplementsPublishedFacts` | two processes, two keys, two digests: a takeover, a conflict, an event left by the other key's call, and a sweep of a row that was published again or is claimed again all occur; `FewEvents` keeps states with one committed event, `OneDoomed` analyses that name one key |
| `worlds` | `TypeOK`, `OneWorldPerIdentity`, `BoundToPublished`, `SpellingUnique`, `RowsImmutable`, `ActivatedWorldKeepsRun` | two runs, two TUs, one spelling-sensitive state, two world ids (the two builds of a snapshot), one session; `FewActors` keeps states with at most three of running runs, existing worlds, pins and analysis together, enough for a collector between two transactions of a run, two runs over one world, or a run beside two worlds |
| `worlds_served_pin` | `ServedIsQueryable` is violated | one run, one session |
| `reindex` | `TypeOK`, `NoForgottenChange`, `MarkerTellsTheTruth`, `OneIndexer` | two files, two process slots, two servers, an edit, a user's run, two operations, two daemon starts: an orphaned run and its successor, overwritten pause markers; any unit may be skipped and any watch may fail; `FewWhenLost` keeps, of the states in which a change is lost, those with at most three of the operations, users' runs and daemon starts |
| `reindex_liveness` | `ChangesGetIndexed` | one file, three operations, enough to supersede the daemon three times and make it give up |
| `reindex_whole` | `CompletedRunIsWhole` is violated | one file, one operation |
| `recovery` | `TypeOK`, `UnchangedMeansCurrent`, `LostEdgesReparsed`, `LostMacrosExpanded`, `IndexConverges`, `SettledRunsParseNothing` | two units that share a header, one with dispatches, two texts of each file, one return of an earlier text, two faults, and by `FewDisturbances` at most four edits, returns and faults in one history: enough for a conflict of reads, a run stopped twice, a stop after a failed write, and each way of `excused` |
| `callpath` | `TypeOK`, `PathsAreReal`, `PathsAgreeWithCallers`, `CalleesInvertCallers`, `SearchEnds` | all graphs of up to four calls over four functions, and of up to three with an alias, a global constructor or a transit; one and two sources, depths (zero among them) and a node limit that do and do not cut the search, two paths at most: fronts that meet in either loop, cycles, a full list |
| `deadcode` | `TypeOK`, `ReportedIsUnreachable`, `ReachedHasReason`, `ComponentsAreCycles` | all programs of four functions with up to five calls and one root, of up to two calls with one fact of each other kind: two separate cycles, a cycle inside a cycle, overrides of overrides' callers, aliases to functions outside |
| `toolserver` | `TypeOK`, `FreshReads`, `StopsOnlyAbandoned`, `EveryCallReturns` | two queries and a `reset_index`; one deletion by others, one fatal error; the deletion and the file that comes after it may fall between an open and the record of its identity; the fault may be an open that raises. A thread that outlives its call meets a new one on one executor, and a reset closes a connection in use |
| `toolserver_interleave` | `MaintenanceAlone` is violated | a query, a `reindex_file` and a `reset_index`, no faults |
| `watcher` | `TypeOK`, `EndpointOfTheWatcher`, `WatcherReturns`, `DaemonsLeave` | two servers, one restart, two slots of daemons (used again when a daemon is gone), one fault, which may be a listen that fails |

The reindex runs do not check for deadlock: when the bounds in `left` are used up
and everything is indexed, the system really rests. Neither do the call graph runs
(the search is over), `toolserver` (every call is done) and `watcher` (everybody has
left). Symmetry is over interchangeable model values only and not used in a run with
liveness. The worlds run keeps one snapshot and one state; the theorems of section 7
hold for any number.

What the violated statements say of the code:

- `resolve_or_reuse_view` returns a pin its own check refused (`queryview.py:549-566`).
- `raise_if_superseded` sees a manual operation only while its marker is there
  (`runner.py:149-186`), so a short `reset_index` goes unnoticed.
- A maintenance tool that timed out gives its slot back and runs on
  (`server.py:384-405`), so two of them can interleave after all (`server.py:134-141`).

## 5. Further configurations

Each of these checks one statement of a comment or docstring; TLC finds a
counterexample to each (`tlc -config <cfg> <module>`). They are kept beside the runs
because the same facts bound what the runs' properties can say. For most of them section
7 names a theorem that says when the statement does hold, and so that nothing else in the
model breaks it.

| configuration | property | what the code does |
|---|---|---|
| `MCStatePublicationStageConflict` | `StageConflictRecorded` | `stage_claim` records its integrity event after its commit and leaves it uncommitted, and the file locked (`publish.py:554-566`; the docstring, 27, requires the event) |
| `MCStatePublicationHeartbeat` | `HeartbeatOwnerConditional` | `heartbeat_claim` is owner-conditional in its SELECT only (`publish.py:601-616`) |
| `MCStatePublicationCollector` | `CollectorSparesClaims` | applied a second time, an analysis deletes a row that has been claimed since (`gc.py:299-312` asks for bindings only, and a claim has none), although "re-running with the same analysis is safe" (245-246) |
| `MCWorldStoreRoots` | `RootsSurvive` | `apply_gc` does not look again at the status of the worlds it deletes (`gc.py:279-297`), so a world completed after the analysis is lost |
| `MCWorldStoreBuildRow` | `WorldHasBuild` | `_ensure_world_rows` remembers a build identity whose rows were rolled back (`worlds.py:272-287`): the run completes a world that the strict resolver refuses |
| `MCReindexCoordinationSkipped` | `EveryChangeRemembered` | a unit that cannot be parsed or stored is skipped and the run ends with exit 0 (`runner.py:1067-1071, 1141-1143`), so the daemon forgets its change; a watch that fails loses what it had not reported (`daemon.py:499-501`) |
| `MCReindexCoordinationWaits` | `DaemonWaitsForRuns` | the daemon cannot see a user's run, because nobody writes `reindex.pid` (`daemon.py:720-732`, `cli/_index.py:753`) |
| `MCReindexCoordinationMarkerStop` | `MarkerGoneAfterStop` | `_cleanup_daemon` removes `reindex.pending` from the wrong directory (`daemon.py:860`) |
| `MCRunRecoveryRevert`, `MCRunRecoveryStop` | `EveryUnchangedIsCurrent` | an earlier text that comes back (a branch switch) makes rows of another text pass as unchanged, against `UnitDecision` (`_unit_processor.py:939`). There are two windows: between the decision and the parse, since the entry has the hash of the decision (the first configuration, without faults); and, when the run stops or a write fails, between the store and the next write of the manifest (`runner.py:1073-1164`; the second, in which files change between runs only) |
| `MCRunRecoveryEdges`, `MCRunRecoveryEdgesRevert` | `StopLosesNoEdges` | the marker comes after the first store and then at checkpoints only (`runner.py:1114-1125, 1152`), not "before the first unit" (`_run_marker.py:21-22`): a run that stops in between loses the edges of a unit that the manifest agrees with, because the run is forced (the first configuration), or because the earlier text of the file came back (the second) |
| `MCRunRecoveryHeaderless` | `SettledRunsParseNothing` | the empty list of a unit without headers is dropped on its way to the manifest, against the comment at `runner.py:1126-1131`; such a unit is parsed again by every run after an edit |
| `MCCallPathBridges` | `BridgesAreFollowed` | an alias or `main` with global constructors has its edges put into `_edge_cache`, so the rows of `refs` are never read for it: the calls of `main` itself are not followed (`_callgraph.py:557-593`) |
| `MCDeadCodeVector` | `VectorSlotIsUncertain` | the query of references leaves the vector kinds out (`_callgraph.py:1220-1227`), so a function in a vector slot is `dead`, not `possibly_dead` (1145-1156) |
| `MCToolServerOpen` | `EveryReadIsFresh` | the identity is taken after the open (`executor.py:123, 152-163`): a file replaced in between is taken for the one that is open |
| `MCWatcherLifecycleMarker` | `MarkerOfTheWatcher` | a daemon that cannot listen releases `watcher.lock` before it unlinks `watcher.pid` (`daemon.py:219-220`), which can be the file of the daemon that has booted in between: that one serves unnamed, and `watch status` and `watch restart` do not find it |
| `MCWatcherLifecycleOne` | `OneDaemonPerProject` | `watch restart` removes the name of a lock that a live daemon holds (`cli/_watch.py:232`), and a second daemon locks a new file; the comment there counts on the removal to fail, which it does on Windows only |

## 6. Fairness

`ReindexCoordination!Spec` assumes weak fairness of `ManualStep`, `RunStep`,
`WatchEvent` and `DaemonStep`: an MCP server's thread, an index process, the watch and
the event loop of the daemon go on when they can. They are operating-system
processes without a wait that another of them could hold for ever: the lock of a run
is taken without waiting, the pause gate polls, and `write.lock` has a timeout whose
expiry is the action `Fail`. Nothing that a user does (edits, starts, stops, kills)
and no failure is fair, nor is a unit that is skipped or a watch that fails:
`ChangesGetIndexed` excepts the changes these lose, because the code loses them.
`StatePublication` and `WorldStore` have no fairness: their
callers give up on busy stores, and nothing promises that a claim is completed.

`RunRecovery!Spec`: weak fairness of the steps of a run, and none of its start: after a run
that ended with exit 0 nothing starts another one until a file changes, a daemon starts
or a user asks. So `IndexConverges` says what happens *if* runs are started again and
again (`RunsGoOn`). Edits, returns of texts, stops and failures are bounded and not fair;
the two liveness properties say what is true once they are over. `CallPath!Spec`: the loop goes on. `ToolServer!Spec`: a call that waits gets
the slot when it is free for good, the clock reaches 300 s, and an open ends, well or badly
(SQLite's busy timeout); no fairness of queries, so one may run for ever. `WatcherLifecycle!Spec`: weak
fairness of every process, none of leaving, crashing or restarting; and strong fairness
of two races: again and again a parent that has started a child releases the lock
before the child comes to it, and a starting daemon finds the lock free. The first
takes a few microseconds against the start of an interpreter, and the lock is held
for the length of a ping every 15 s; without them a child could lose to some
parent for ever, and the comment at `background.py:289` that a daemon waits for the lock is
not what `try_lock` does.

## 7. Proofs

The `*Proofs` modules prove, for every value of the constants that satisfies the
named ASSUMEs:

- `StatePublicationProofs`: `TypeCorrect`, `SuccessIsStable`, `ClaimsNotDiverted`,
  `PublicationRefinement`, `LiveClaimsAreRespected`, `ConflictsAreRecorded`. The heart is
  one lemma per action: no step but a sweep changes a published row, and the only step
  to published keeps the digest of the claim. The refinement maps every step to a choice
  of one key, an analysis, a sweep or a stutter. `SuccessIsStable` is an action property:
  an answer is true when it is given, and only a sweep of its key ends that. Events are only ever added, and an answer of a conflict commits its
  own in the same step.
- `WorldStoreProofs`: `TypeCorrect`, `WorldsAreUnique`, `BindingsAreSound`,
  `SpellingsAreUnique`, `RowsNeverChange`, `ActivationKeepsRun`. Strengthening: a world id
  has an identity exactly when it exists (`WorldsFormed`). Every step is one of five
  `RowStep`s (nothing, publishing, recording, marking, collecting), so each
  invariant is proved once per kind of step. `BindingsAreSound` needs the second
  count of references in `apply_gc`: an aged analysis is harmless for states,
  although it is not for worlds (`MCWorldStoreRoots`).
- `ReindexCoordinationProofs`: `TypeCorrect`, `IndexersExclude`, `MarkerIsTrue`,
  `NothingForgotten`. None of them is inductive alone. `IInv` adds: a run that takes
  units holds the lock (`LockHeld`); only the run with the lock can be left with a
  deleted database, and there is no index as long as it goes on (`DetachedHolds`); a
  daemon that waits has a child that is there (`ChildThere`); the marker facts of the
  whole loop (`MarkerHolds`); and `NotMissed`. `NoForgottenChange` speaks of a project
  that has an index, and after `reset_index` there is none until a run completes;
  `NotMissed` says what must hold meanwhile for the promise to be true again at that
  moment: the run that rebuilds the index still has every changed file on its list,
  unless the watch or the daemon knows of the change, or the change was dropped.

- `RunRecoveryProofs`: `TypeCorrect`, `UnchangedUnitsAreCurrent`, `LostEdgesAreReparsed`,
  `LostMacrosAreExpanded`, `StopsLoseOnlyGivenUpEdges`, for any texts that come back and any
  faults. `HonestyInv`: the entry of a unit, in the manifest on disk or in that of a run, records the rows that are there (`Records`), or the unit is in
  `apart` and the entry is `Behind`: it speaks of an earlier text, so unless the rows agree
  with the files too it agrees with them only when that text comes back, and then
  `excused` takes the unit. `LossInv` adds what a run knows and the disk does not: every lost result
  is covered by the marker, a stale entry or `excused`, and it still will be after the
  run's next write (`LossInRun`), which rests on how its lists and the marker on disk
  belong together (`Bookkeeping`), on the lost results that only the run knows being those
  of units in `apart` (`LossIsApart`), and on what is left at its end (`LossAtEnd`).
- `CallPathProofs`: `SearchTypes`, `PathsHold`, `ShortestPathsHold`,
  `CalleesInvertHolds`, `TransitsAreFollowed`, `UnbridgedTargetsAreFound`, for any graph
  and limits. `PathInv`: a chain is a walk from where its front began with as many edges
  as the distance beside it says, and a queue holds the functions of the round before,
  then those of this round; so two chains that meet make a path of the graph, and its
  depth is right. `SearchInv` is what makes a first path a shortest one, for a graph
  without aliases and constructors: every edge, call or transit, of a function that has
  left a queue was followed, a front that has gone `k` rounds therefore holds every
  function within `k` edges, and while nothing is found the fronts are apart. So no
  source is as near to the target as the two fronts together have come, and a function
  on a shortest path is in both when they have come that far. The distances are those of
  `get_callers_recursive` by `LevelsEquation` (a recursive function has the value its
  equation says, by the least level at which it would not) and `AwayFromBothEnds` (what
  reaches `h` in `n` edges is what `h` is reached from, edges reversed), which also
  gives `CalleesInvertHolds`. Inductions over levels go through the least number of a
  set.
- `DeadCodeProofs`: `TypeCorrect`, `ReportedFunctionsAreUnreachable`,
  `ReachedFunctionsHaveReason`, `ComponentsHold`, for any program, finite or not.
  `SearchInv`: every set that holds the roots and is closed under the edges holds what is
  reached, and the edges of what is reached and not on the worklist lead to what is
  reached; with an empty worklist the reached set is the least closed set. `TarjanInv`, for
  the components: a function with a number is on the stack or in a component that was
  output; the frames are on the stack in the order of their numbers, each reaches what
  is above it on the stack, and everything on the stack reaches the frame at or below it;
  the low link of a function is the number of one on the stack that it reaches, and is
  at most the number behind every edge already followed out of it; a component that was
  output is closed against the stack. When a frame closes with its own number as its low
  link, no function above it reaches anything below it, so what it pops is exactly one
  cycle of the graph.
- `ToolServerProofs`: `TypeCorrect`, `QueriesReadFresh`, `OnlyAbandonedAreStopped`.
  Freshness needs that an executor's identity is the file of its connection, unless the
  file changed during that open (`moved`), and that a query past the check has a connection its
  own call may use. The last theorem needs that a thread which runs without the slot
  has timed out: so an interrupt, which a timeout sends to whatever runs, meets nobody else.
- `WatcherLifecycleProofs`: `TypeCorrect` (with the exclusion of the locks and who holds
  one) and `TheWatcherIsAtItsEndpoint`. `EndpointInv`: until a restart every lock is on the one
  file there is, so the booted daemon is alone; its marker is written before it listens,
  and the files are removed before the lock goes. The exception is the one daemon at a
  time that could not listen and has yet to unlink `watcher.pid`.

Further theorems give the other side of the violated statements: the step that TLC's
counterexample takes is the only kind of step that breaks them. Each has that step as a
hypothesis (`[][...]_vars`, a predicate in the conclusion, or a value of a constant), and
holds otherwise for every behaviour of the specification.

| violated statement | theorem | it holds as long as |
|---|---|---|
| `ServedIsQueryable` (run `worlds_served_pin`) | `UndisturbedPinsAreQueryable` | nobody marks a pinned world, and no run completes a world while somebody holds an analysis (`NoPinnedMarked`, `NoneCompleted`) |
| `RootsSurvive` | `RootsSurviveQuietCollections`, `PinsKeepTheirWorld` | no run completes a world while somebody holds an analysis (`NoneCompleted`); then a handler also reads the world it resolved, whatever marks do |
| `WorldHasBuild` | `WorldsHaveBuildRows` | no recording is rolled back after it anchored the run's build identity (`NoHalfRecording`) |
| `CompletedRunIsWhole` (run `reindex_whole`) | `PatientResetsKeepRunsWhole` | the marker goes only when no run has a deleted database and no operation is about to delete (`NoEarlyResume`) |
| `DaemonWaitsForRuns` | `SoleLaunchersWait` | nobody but the daemon starts runs, and it is not killed during one (`SoleLauncher`) |
| `MaintenanceAlone` (run `toolserver_interleave`) | `OnlyTimeoutsInterleave` | neither of the two calls has timed out |
| `OneDaemonPerProject` | `OneDaemonUntilUnlink` | no restart has removed the name of the lock (`LockFileStays`) |
| `StopLosesNoEdges` | `StopsLoseOnlyGivenUpEdges` | the edges are not given up: the marker named the unit, or the manifest does not agree with the files |
| `StageConflictRecorded` | `ConflictsAreLostByClosing`, `OpenTransactionStopsTheStore` | the connection of the conflict is not closed; meanwhile its transaction stops every other writer |
| `HeartbeatOwnerConditional` | `TimelyRenewalsAreOwnerConditional` | a renewal reads a live lease, which does not run out before its UPDATE, nor is the row swept (`InTime`) |
| `BridgesAreFollowed` | `UnbridgedTargetsAreFound` | there is no alias and no global constructor (`Unbridged`) |
| `PathsAgreeWithCallers` with transits (the recursive query does not read them) | `TransitsAreFollowed` | there is no alias and no global constructor; paths are walks over calls and transits; with transits the search has a round and the target is no source (`Plain`) |

Most of them rest on an invariant of their own, of which `PinInv` (WorldStore) says most: an analysis names no completed
and no pinned world, a pin names the world it was resolved to, and a view is its pin.
`NoLockIsLost` (ToolServer) proves `LocksAreUsed`: the slot, the registry and every executor
are held by a thread that is on its way to the release. It is the safety half of
`EveryCallReturns`: a call that waits does not wait for a lock somebody forgot.

Every invariant and every action property of a passing run is stated by one of these
theorems. Model-checked only: the liveness properties (`ChangesGetIndexed`, `IndexConverges`,
`SettledRunsParseNothing`, `SearchEnds`, `EveryCallReturns`, `WatcherReturns`, `DaemonsLeave`), which
the prover does not reach; and two violated statements without a theorem beside them
(`MarkerGoneAfterStop`, `VectorSlotIsUncertain`). The statements `EveryUnchangedIsCurrent`,
`EveryChangeRemembered`, `EveryReadIsFresh`, `MarkerOfTheWatcher` and `CollectorSparesClaims` are
violated as they stand; `UnchangedUnitsAreCurrent`, `NothingForgotten`, `QueriesReadFresh`,
`TheWatcherIsAtItsEndpoint` and `LiveClaimsAreRespected` prove them with their one exception
each, which the model's history variables record.

One of the proofs changed the model. `find_call_path` takes `max_depth` as it comes (the
handler does not clamp it), and the direct edge is looked at before the limit: with
`max_depth = 0` a path of one edge is found, and otherwise paths of up to `2 * max_depth` edges
are, since each front goes `max_depth` rounds, where the docstring has "Maximum call path
depth" (`_callgraph.py:338`). `Horizon` says this, and the queries of `MCCallPath` have a
depth of zero among them.

## 8. Not modelled

Parsing and extraction, search and ranking, embeddings, LLM and cache services,
handlers that only read, configuration, builders: they keep no state between processes,
or only a cache. The computation of certificates and keys is an arbitrary choice of a
state. Fast-reuse admission binds through `bind_tu`, which is modelled.

The M6 store (`store_v2/m6_*.py`) is not modelled because it is not whole: it imports
`prototype_a` from a directory `.dsh-control/` that the repository does not contain, so its
materialization fails at the import and what it would compute is not in the source.
What can be read of it: `BuildSetStore` loads its caches once per process
(`m6_store.py:78-91`) and a server never renews them (`m6_query.py:46-66`), so a server does not
see sets of builds that a later run makes; a fact that exists is returned without
merging its builds; facts are only ever added; the collector of M6 has no caller.

Of modelled components: variants and several builds of one project; deleted sources;
Windows; the two steps of `unlink_if_ours`; the transactions inside one `reindex_file`;
SQL limits and the order of rows. The hazards in `PROJECT.json` without a property say why.
