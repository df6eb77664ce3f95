------------------------------- MODULE ToolServer -------------------------------
(***************************************************************************)
(* One MCP server: the tool calls of its client (mcp/server.py _wrap_tool),*)
(* the query executor they share (mcp/shared/executor.py), reset_index     *)
(* (mcp/handlers/maintenance.py) and the index file, which other processes *)
(* delete and create as well.                                              *)
(*                                                                         *)
(* A handler runs in a worker thread.  The wrapper gives it the slot, and  *)
(* takes the slot back after 300 s; the thread then goes on with nobody    *)
(* waiting for it.                                                         *)
(***************************************************************************)
EXTENDS Naturals, Sequences, FiniteSets

CONSTANTS Call,              \* calls of tools
          Kind,              \* Kind[c]: "query", "reindex" (reindex_file) or "reset"
          NoCall,
          MaxDeletes,        \* deletions of the index by other processes
          MaxFaults          \* fatal errors of a connection

ASSUME ToolServerAssumption ==
  /\ Kind \in [Call -> {"query", "reindex", "reset"}]
  /\ NoCall \notin Call
  /\ {MaxDeletes, MaxFaults} \subseteq Nat

VARIABLES file,         \* the database at db_path: 0 when there is none, else which
          created,      \* files created so far
          slot,         \* who holds _SERVER_LOCK (and, of a maintenance tool, _MAINT_LOCK)
          pc,           \* where the call, or its thread, is
          reply,        \* what the client got
          executors,    \* the SyncQueryExecutor objects: [open, conn, identity, lock; moved,
                        \* history: the file changed between the open and the identity]
          registry,     \* _executors[db_key], 0 when there is none
          registryLock,
          local,        \* of a thread: [mine, the executor it holds; opening, the file its new
                        \* connection is on; after, where it goes then; retried]
          seen,         \* history: what was at db_path during a call
          left          \* [deletes, faults] still to come

vars == <<file, created, slot, pc, reply, executors, registry, registryLock, local, seen,
          left>>

Maintenance(c) == Kind[c] # "query"

\* The thread of a call is alive between the slot and its end.
Waiting == {"idle", "slot"}
Running(c) == pc[c] \notin Waiting \cup {"done"}

NoLocal == [mine |-> 0, opening |-> 0, after |-> "lock", retried |-> FALSE]
Mine(c) == local[c].mine

Init ==
  /\ file \in {0, 1} /\ created = file
  /\ slot = NoCall
  /\ pc = [c \in Call |-> "idle"]
  /\ reply = [c \in Call |-> "none"]
  /\ executors = << >> /\ registry = 0 /\ registryLock = NoCall
  /\ local = [c \in Call |-> NoLocal]
  /\ seen = [c \in Call |-> {}]
  /\ left = [deletes |-> MaxDeletes, faults |-> MaxFaults]

GoTo(c, where) == pc' = [pc EXCEPT ![c] = where]

disk == <<file, created, seen>>
server == <<slot, reply>>
registered == <<executors, registry, registryLock>>

\* What is at db_path changes, and every running call lives through it.
Seeing(new) == [c \in Call |-> IF Running(c) THEN seen[c] \cup {new} ELSE seen[c]]
PutFile(new) == file' = new /\ seen' = Seeing(new)

\* The handler returns or raises; the client hears of it if it still waits.
EndsHavingSeen(c, result, history) ==
  /\ seen' = [history EXCEPT ![c] = {}]
  /\ GoTo(c, "done")
  /\ local' = [local EXCEPT ![c] = NoLocal]
  /\ IF slot = c THEN slot' = NoCall /\ reply' = [reply EXCEPT ![c] = result]
     ELSE UNCHANGED <<slot, reply>>

Ends(c, result) == EndsHavingSeen(c, result, seen)

(***************************************************************************)
(* The wrapper.                                                            *)
(***************************************************************************)
Arrive(c) ==
  /\ pc[c] = "idle"
  /\ GoTo(c, "slot")
  /\ UNCHANGED <<disk, server, registered, local, left>>

\* A query does not wait longer than 5 s.
Busy(c) ==
  /\ pc[c] = "slot" /\ ~ Maintenance(c) /\ slot # NoCall
  /\ GoTo(c, "done")
  /\ reply' = [reply EXCEPT ![c] = "busy"]
  /\ UNCHANGED <<disk, slot, registered, local, left>>

\* Mutant: a maintenance tool runs beside a query.
AcquireUnwrapped(c) ==
  /\ pc[c] = "slot" /\ (slot = NoCall \/ Maintenance(c))
  /\ slot' = c
  /\ GoTo(c, "resolve")
  /\ seen' = [seen EXCEPT ![c] = {file}]
  /\ UNCHANGED <<file, created, reply, registered, local, left>>

\* _acquire_slot; the thread of the handler starts.
Acquire(c) ==
  /\ pc[c] = "slot" /\ slot = NoCall
  /\ slot' = c
  /\ GoTo(c, "resolve")
  /\ seen' = [seen EXCEPT ![c] = {file}]
  /\ UNCHANGED <<file, created, reply, registered, local, left>>

\* The threads whose statement interrupt_all stops: those of the registered executor.
Interruptible == {z \in Call : pc[z] = "running" /\ Mine(z) = registry}

\* Mutant: a call that timed out keeps the slot.
TimeoutKeepsSlot(c) ==
  /\ slot = c /\ Running(c) /\ registryLock = NoCall
  /\ reply' = [reply EXCEPT ![c] = "timeout"]
  /\ \E hit \in SUBSET Interruptible :
       pc' = [z \in Call |-> IF z \in hit THEN "interrupted" ELSE pc[z]]
  /\ UNCHANGED <<disk, slot, registered, local, left>>

\* 300 s are over.  interrupt_all stops the statement that runs, if one does; the
\* query goes on after it when it takes the error for an empty answer, as
\* _get_edges does.
Timeout(c) ==
  /\ slot = c /\ Running(c) /\ registryLock = NoCall
  /\ slot' = NoCall
  /\ reply' = [reply EXCEPT ![c] = "timeout"]
  /\ \E hit \in SUBSET Interruptible :
       pc' = [z \in Call |-> IF z \in hit THEN "interrupted" ELSE pc[z]]
  /\ UNCHANGED <<disk, registered, local, left>>

(***************************************************************************)
(* The handler: _resolve_handler_context.                                  *)
(***************************************************************************)
Resolve(c) ==
  /\ pc[c] = "resolve"
  /\ IF file = 0 THEN Ends(c, "error")
     ELSE GoTo(c, IF Kind[c] = "reset" THEN "invalidate" ELSE "registry") /\ UNCHANGED <<server, local, seen>>
  /\ UNCHANGED <<file, created, registered, left>>

NewExecutor == [open |-> FALSE, conn |-> 0, identity |-> 0, lock |-> NoCall, moved |-> FALSE]

\* get_executor; the registry stays locked while a new one opens its connection.
GetExecutor(c) ==
  /\ pc[c] = "registry" /\ registryLock = NoCall
  /\ IF registry # 0
     THEN /\ local' = [local EXCEPT ![c].mine = registry]
          /\ GoTo(c, "lock")
          /\ UNCHANGED <<executors, registryLock>>
     ELSE /\ executors' = Append(executors, NewExecutor)
          /\ local' = [local EXCEPT ![c].mine = Len(executors) + 1]
          /\ registryLock' = c
          /\ GoTo(c, "connect")
  /\ UNCHANGED <<disk, server, registry, left>>

\* _open_connection: SQLite creates the file when there is none.
Connect(c) ==
  /\ pc[c] = "connect"
  /\ IF file = 0
     THEN /\ PutFile(created + 1) /\ created' = created + 1
          /\ local' = [local EXCEPT ![c].opening = created + 1]
     ELSE /\ UNCHANGED disk
          /\ local' = [local EXCEPT ![c].opening = file]
  /\ GoTo(c, "stat")
  /\ UNCHANGED <<server, registered, left>>

\* Mutant: the identity is not recorded at the first open.
StatOnReconnectOnly(c) ==
  /\ pc[c] = "stat"
  /\ executors' = [executors EXCEPT ![Mine(c)] =
                     [@ EXCEPT !.open = TRUE, !.conn = local[c].opening,
                               !.identity = IF local[c].after = "lock" THEN 0 ELSE file,
                               !.moved = local[c].opening # file]]
  /\ IF local[c].after = "lock" THEN registry' = Mine(c) /\ registryLock' = NoCall
     ELSE UNCHANGED <<registry, registryLock>>
  /\ GoTo(c, local[c].after)
  /\ UNCHANGED <<disk, server, local, left>>

\* The rest of _open_connection: the identity, none when the file is gone.
Stat(c) ==
  /\ pc[c] = "stat"
  /\ executors' = [executors EXCEPT ![Mine(c)] =
                     [@ EXCEPT !.open = TRUE, !.conn = local[c].opening, !.identity = file,
                               !.moved = local[c].opening # file]]
  /\ IF local[c].after = "lock" THEN registry' = Mine(c) /\ registryLock' = NoCall
     ELSE UNCHANGED <<registry, registryLock>>
  /\ GoTo(c, local[c].after)
  /\ UNCHANGED <<disk, server, local, left>>

Unlocked(e) == [executors EXCEPT ![e].lock = NoCall]

\* The open raises, before or after SQLite has the file.  A new executor is dropped;
\* after _reconnect the connection stays closed, with the identity it had.
OpenFails(c) ==
  /\ pc[c] \in {"connect", "stat"}
  /\ Ends(c, "error")
  /\ IF local[c].after = "lock" THEN registryLock' = NoCall /\ UNCHANGED executors
     ELSE executors' = Unlocked(Mine(c)) /\ UNCHANGED registryLock
  /\ UNCHANGED <<file, created, registry, left>>

(***************************************************************************)
(* execute_sync.                                                           *)
(***************************************************************************)

\* Mutant: nobody waits for the lock.
LockShared(c) ==
  /\ pc[c] = "lock"
  /\ executors' = [executors EXCEPT ![Mine(c)].lock = c]
  /\ GoTo(c, "check")
  /\ UNCHANGED <<disk, server, registry, registryLock, local, left>>

Lock(c) ==
  /\ pc[c] = "lock" /\ executors[Mine(c)].lock = NoCall
  /\ executors' = [executors EXCEPT ![Mine(c)].lock = c]
  /\ GoTo(c, "check")
  /\ UNCHANGED <<disk, server, registry, registryLock, local, left>>

\* The start of _reconnect.
Reconnects(c, retry) ==
  /\ executors' = [executors EXCEPT ![Mine(c)].open = FALSE]
  /\ local' = [local EXCEPT ![c].after = "query", ![c].retried = retry]
  /\ GoTo(c, "connect")

\* _check_reindex: no file, or no identity, is no change.
CheckReindex(c) ==
  /\ pc[c] = "check"
  /\ IF file # 0 /\ executors[Mine(c)].identity \notin {0, file}
     THEN Reconnects(c, FALSE)
     ELSE GoTo(c, "health") /\ UNCHANGED <<executors, local>>
  /\ UNCHANGED <<disk, server, registry, registryLock, left>>

\* _health_check: SELECT 1 fails on a closed connection, if 60 s are over.
HealthCheck(c) ==
  /\ pc[c] = "health"
  /\ \/ GoTo(c, "query") /\ UNCHANGED <<executors, local>>
     \/ ~ executors[Mine(c)].open /\ Reconnects(c, FALSE)
  /\ UNCHANGED <<disk, server, registry, registryLock, left>>

\* A closed connection is no fatal error: it is raised.
StartQuery(c) ==
  /\ pc[c] = "query"
  /\ IF executors[Mine(c)].open
     THEN GoTo(c, "running") /\ UNCHANGED <<server, executors, local, seen>>
     ELSE Ends(c, "error") /\ executors' = Unlocked(Mine(c))
  /\ UNCHANGED <<file, created, registry, registryLock, left>>

FinishQuery(c) ==
  /\ pc[c] = "running"
  /\ Ends(c, "ok")
  /\ executors' = Unlocked(Mine(c))
  /\ UNCHANGED <<file, created, registry, registryLock, left>>

\* A fatal error: one new connection and one more try.
FatalError(c) ==
  /\ pc[c] = "running" /\ executors[Mine(c)].open /\ left.faults > 0
  /\ left' = [left EXCEPT !.faults = @ - 1]
  /\ IF local[c].retried
     THEN Ends(c, "error") /\ executors' = Unlocked(Mine(c))
     ELSE Reconnects(c, TRUE) /\ UNCHANGED <<server, seen>>
  /\ UNCHANGED <<file, created, registry, registryLock>>

\* An interrupted query is not tried again; neither is one whose connection was closed.
Raise(c) ==
  /\ pc[c] = "interrupted" \/ (pc[c] = "running" /\ ~ executors[Mine(c)].open)
  /\ Ends(c, "error")
  /\ executors' = Unlocked(Mine(c))
  /\ UNCHANGED <<file, created, registry, registryLock, left>>

(***************************************************************************)
(* reset_index, and the other processes.                                   *)
(***************************************************************************)
\* invalidate_executor closes the connection without the lock of the executor.
Invalidate(c) ==
  /\ pc[c] = "invalidate" /\ registryLock = NoCall
  /\ executors' = IF registry = 0 THEN executors ELSE [executors EXCEPT ![registry].open = FALSE]
  /\ registry' = 0
  /\ GoTo(c, "unlink")
  /\ UNCHANGED <<disk, server, registryLock, local, left>>

Unlink(c) ==
  /\ pc[c] = "unlink"
  /\ file' = 0
  /\ IF file = 0 THEN Ends(c, "error") ELSE EndsHavingSeen(c, "ok", Seeing(0))
  /\ UNCHANGED <<created, registered, left>>

\* The reset_index of another server.
DeletedElsewhere ==
  /\ file # 0 /\ left.deletes > 0
  /\ left' = [left EXCEPT !.deletes = @ - 1]
  /\ PutFile(0)
  /\ UNCHANGED <<created, pc, server, registered, local>>

\* An index run builds the index again; otherwise it writes in place.
IndexRun ==
  /\ file = 0
  /\ created' = created + 1
  /\ PutFile(created + 1)
  /\ UNCHANGED <<pc, server, registered, local, left>>

Thread(c) ==
  \/ Resolve(c) \/ GetExecutor(c) \/ Connect(c) \/ Stat(c) \/ OpenFails(c) \/ Lock(c)
  \/ CheckReindex(c) \/ HealthCheck(c) \/ StartQuery(c) \/ FinishQuery(c) \/ FatalError(c) \/ Raise(c)
  \/ Invalidate(c) \/ Unlink(c)

Next ==
  \/ \E c \in Call : Arrive(c) \/ Busy(c) \/ Acquire(c) \/ Timeout(c) \/ Thread(c)
  \/ DeletedElsewhere \/ IndexRun

\* The event loop gets to the waiting calls and to its clock, and an open ends, well or
\* badly: the busy timeout of SQLite bounds it.  A query may take forever.
Fairness ==
  \A c \in Call : /\ WF_vars(Acquire(c)) /\ WF_vars(Timeout(c))
                  /\ WF_vars(Connect(c) \/ Stat(c) \/ OpenFails(c))

Spec == Init /\ [][Next]_vars /\ Fairness

(***************************************************************************)
(* Properties                                                              *)
(***************************************************************************)
Executor ==
  [open : BOOLEAN, conn : Nat, identity : Nat, lock : Call \cup {NoCall}, moved : BOOLEAN]
Local == [mine : 0 .. Len(executors), opening : Nat, after : {"lock", "query"}, retried : BOOLEAN]
Place == Waiting \cup {"resolve", "registry", "connect", "stat", "lock", "check", "health", "query",
                       "running", "interrupted", "invalidate", "unlink", "done"}

\* Inside execute_sync, the opens of _reconnect included.
Executing(c) ==
  \/ pc[c] \in {"check", "health", "query", "running", "interrupted"}
  \/ pc[c] \in {"connect", "stat"} /\ local[c].after = "query"
Opening(c) == pc[c] \in {"connect", "stat"} /\ local[c].after = "lock"

\* Every variable has its type, and whoever uses an executor or makes one holds its lock.
TypeOK ==
  /\ file \in 0 .. created /\ created \in Nat
  /\ slot \in Call \cup {NoCall}
  /\ pc \in [Call -> Place]
  /\ reply \in [Call -> {"none", "busy", "ok", "error", "timeout"}]
  /\ executors \in Seq(Executor)
  /\ registry \in 0 .. Len(executors) /\ registryLock \in Call \cup {NoCall}
  /\ local \in [Call -> Local]
  /\ \A c \in Call : /\ Executing(c) \/ Opening(c) \/ pc[c] = "lock" => Mine(c) # 0
                     /\ Executing(c) => executors[Mine(c)].lock = c
                     /\ Opening(c) => registryLock = c
  /\ seen \in [Call -> SUBSET Nat]
  /\ left \in [deletes : 0 .. MaxDeletes, faults : 0 .. MaxFaults]

\* What the query of c reads was the index at some time during its call, or there was
\* no index for a moment of it.
Fresh(c) == executors[Mine(c)].conn \in seen[c] \/ 0 \in seen[c]

\* A query reads a fresh index: the connection of an earlier one is noticed, whoever
\* deleted that one and however often (executor.py:148-153, _check_reindex).  The one
\* exception is a connection under which the file changed between the open and the
\* record of its identity; it too is noticed at the next change, unless there was no file
\* to record.
FreshReads ==
  \A c \in Call : pc[c] = "running" =>
    \/ Fresh(c)
    \/ executors[Mine(c)].moved /\ executors[Mine(c)].identity \in seen[c] \cup {0}

\* What executor.py:148-153 says of the record at every open, the first included: no
\* change of the database goes undetected.
EveryReadIsFresh == \A c \in Call : pc[c] = "running" => Fresh(c)

\* interrupt_all never stops the query of a call whose client still waits: the
\* limitation that executor.py:307-314 accepts does not occur behind the slot.  And a
\* connection is closed under a query only when that call or a reset has timed out.
StopsOnlyAbandoned ==
  \A c \in Call :
    /\ pc[c] = "interrupted" => reply[c] = "timeout"
    /\ pc[c] = "running" /\ ~ executors[Mine(c)].open
         => \E d \in Call : reply[d] = "timeout" /\ (d = c \/ Kind[d] = "reset")

\* Every call is answered, even when a query never ends and its thread keeps the
\* executor.
EveryCallReturns == \A c \in Call : pc[c] = "slot" ~> reply[c] # "none"

\* What the server says of maintenance tools (server.py:134-141, 227-234): two of
\* them never interleave, and none runs while a query holds the slot.
MaintenanceAlone ==
  \A c, d \in Call :
    Maintenance(c) /\ Running(c) /\ Running(d) /\ (Maintenance(d) \/ slot = d) => c = d
=============================================================================
