----------------------------- MODULE WatcherLifecycle -----------------------------
(***************************************************************************)
(* How a project gets its watcher daemon and how the daemon goes: the ping *)
(* thread of each MCP server (mcp/server.py) and _ensure_daemon_running    *)
(* (mcp/background.py), the start and the cleanup of daemon_main           *)
(* (mcp/daemon.py), and `fw-context watch restart` (cli/_watch.py).        *)
(*                                                                         *)
(* They meet in three files: watcher.lock, an flock on an open file, which *)
(* outlives the name; daemon.sock; and watcher.pid.  What the daemon does  *)
(* between start and cleanup is ReindexCoordination.                       *)
(*                                                                         *)
(* A lock file is opened and locked in one step.  The project keeps its    *)
(* index.  Slots of daemon processes are used again; a file that names a   *)
(* process that ended names Nobody.                                        *)
(***************************************************************************)
EXTENDS Naturals

CONSTANTS Server,      \* MCP servers
          Restarter,   \* runs of fw-context watch restart
          Daemon,      \* slots of daemon processes
          Nobody,      \* of a file: the process it names has ended
          None,        \* of a file: it is not there
          MaxFaults    \* crashes of daemons, missed pings, failed spawns and listens

ASSUME WatcherAssumption ==
  /\ Server \cap Restarter = {} /\ (Server \cup Restarter) \cap Daemon = {}
  /\ {Nobody, None} \cap Daemon = {} /\ Nobody # None
  /\ MaxFaults \in Nat

VARIABLES pc,        \* pc[c]: where a server's ping thread, or a restart, is
          daemon,    \* daemon[d]: where the process in slot d is
          lockFile,  \* the file at watcher.lock, 0 when there is none
          files,     \* lock files created so far
          holds,     \* holds[p]: the lock file p has locked, or 0
          sock,      \* whose daemon.sock it is
          pidFile,   \* whom watcher.pid names
          target,    \* target[x]: the daemon a restart waits for
          faults,    \* faults still to come
          unmarked   \* history: whose watcher.pid a daemon that could not listen removed

vars == <<pc, daemon, lockFile, files, holds, sock, pidFile, target, faults, unmarked>>

Client == Server \cup Restarter
Process == Client \cup Daemon

Init ==
  /\ pc = [c \in Client |-> IF c \in Server THEN "ping" ELSE "idle"]
  /\ daemon = [d \in Daemon |-> "off"]
  /\ lockFile = 0 /\ files = 0
  /\ holds = [p \in Process |-> 0]
  /\ sock \in {None, Nobody} /\ pidFile \in {None, Nobody}
  /\ target = [x \in Restarter |-> None]
  /\ faults = MaxFaults
  /\ unmarked = {}

GoTo(c, where) == pc' = [pc EXCEPT ![c] = where]
Becomes(d, where) == daemon' = [daemon EXCEPT ![d] = where]
endpoint == <<sock, pidFile, unmarked>>
lock == <<lockFile, files, holds>>

Fault == faults > 0 /\ faults' = faults - 1

(***************************************************************************)
(* Locks, pings and ends.                                                  *)
(***************************************************************************)
\* A daemon listens until its cleanup closes the listener.
Listening == {"serve", "stopping"}
Answers(d) == sock = d /\ daemon[d] \in Listening
Reachable == \E d \in Daemon : Answers(d)
Up(c) == pc[c] # "gone"

\* The file at watcher.lock, made when it is not there.
LockFile == IF lockFile = 0 THEN files + 1 ELSE lockFile
OpensLockFile == lockFile' = LockFile /\ files' = IF lockFile = 0 THEN files + 1 ELSE files
Free(f) == \A p \in Process : holds[p] # f
Locks(p) == holds' = [holds EXCEPT ![p] = LockFile]
Unlocks(p) == holds' = [holds EXCEPT ![p] = 0]

\* A daemon process ends without its cleanup: the system takes its lock back.
Dies(d) ==
  /\ Becomes(d, "off")
  /\ Unlocks(d)
  /\ sock' = IF sock = d THEN Nobody ELSE sock
  /\ pidFile' = IF pidFile = d THEN Nobody ELSE pidFile
  /\ UNCHANGED unmarked

Forgotten(d) == [x \in Restarter |-> IF target[x] = d THEN None ELSE target[x]]

(***************************************************************************)
(* _ensure_daemon_running, from the ping thread or from a restart.         *)
(***************************************************************************)
\* Where a client is afterwards.
Rest(c) == IF c \in Server THEN "ping" ELSE "done"

Ping(c) ==
  /\ pc[c] = "ping"
  /\ GoTo(c, IF Reachable THEN Rest(c) ELSE "lock")
  /\ UNCHANGED <<daemon, lock, endpoint, target, faults>>

\* Mutant: the lock of another process does not count.
TryLockBlind(c) ==
  /\ pc[c] = "lock"
  /\ OpensLockFile
  /\ Locks(c) /\ GoTo(c, "check")
  /\ UNCHANGED <<daemon, endpoint, target, faults>>

TryLock(c) ==
  /\ pc[c] = "lock"
  /\ OpensLockFile
  /\ IF Free(LockFile) THEN Locks(c) /\ GoTo(c, "check")
     ELSE GoTo(c, Rest(c)) /\ UNCHANGED holds
  /\ UNCHANGED <<daemon, endpoint, target, faults>>

PingAgain(c) ==
  /\ pc[c] = "check"
  /\ GoTo(c, IF Reachable THEN "release" ELSE "spawn")
  /\ UNCHANGED <<daemon, lock, endpoint, target, faults>>

\* The error of a spawn that fails is recorded, and that is all.
Spawn(c) ==
  /\ pc[c] = "spawn"
  /\ GoTo(c, "release")
  /\ \/ (\E d \in Daemon : daemon[d] = "off" /\ Becomes(d, "start")) /\ UNCHANGED faults
     \/ Fault /\ UNCHANGED daemon
  /\ UNCHANGED <<lock, endpoint, target>>

Release(c) ==
  /\ pc[c] = "release"
  /\ Unlocks(c)
  /\ GoTo(c, Rest(c))
  /\ UNCHANGED <<daemon, lockFile, files, endpoint, target, faults>>

\* The client that a server serves goes, and the server with it.
Leave(c) ==
  /\ Up(c)
  /\ GoTo(c, "gone")
  /\ Unlocks(c)
  /\ UNCHANGED <<daemon, lockFile, files, endpoint, target, faults>>

Ensure(c) == Ping(c) \/ TryLock(c) \/ PingAgain(c) \/ Spawn(c) \/ Release(c)

(***************************************************************************)
(* daemon_main.                                                            *)
(***************************************************************************)
\* try_lock does not wait: with the lock held, by a parent too, the daemon exits.
Start(d) ==
  /\ daemon[d] = "start"
  /\ OpensLockFile
  /\ IF Free(LockFile) THEN Locks(d) /\ Becomes(d, "boot")
     ELSE Becomes(d, "off") /\ UNCHANGED holds
  /\ UNCHANGED <<pc, endpoint, target, faults>>

WritePid(d) ==
  /\ daemon[d] = "boot"
  /\ pidFile' = d /\ unmarked' = unmarked \ {d}
  /\ Becomes(d, "listen")
  /\ UNCHANGED <<pc, lock, sock, target, faults>>

\* A socket that is there is removed first.
Listen(d) ==
  /\ daemon[d] = "listen"
  /\ sock' = d
  /\ Becomes(d, "serve")
  /\ UNCHANGED <<pc, lock, pidFile, unmarked, target, faults>>

\* The socket cannot be removed, or not bound once it is: the lock goes first ...
ListenFails(d) ==
  /\ daemon[d] = "listen"
  /\ Fault
  /\ sock' \in {sock, None}
  /\ Unlocks(d)
  /\ Becomes(d, "unlisted")
  /\ UNCHANGED <<pc, lockFile, files, pidFile, unmarked, target>>

\* ... and then watcher.pid, whoever it names by now.
RemoveMarker(d) ==
  /\ daemon[d] = "unlisted"
  /\ pidFile' = None
  /\ unmarked' = unmarked \cup (({pidFile} \cap Daemon) \ {d})
  /\ Becomes(d, "off")
  /\ target' = Forgotten(d)
  /\ UNCHANGED <<pc, lock, sock, faults>>

\* Mutant: no ping is missed while a server runs.
PingExpiresAlone(d) ==
  /\ daemon[d] = "serve" /\ \A c \in Server : ~ Up(c)
  /\ Becomes(d, "stopping")
  /\ UNCHANGED <<pc, lock, endpoint, target, faults>>

\* Mutant: a daemon leaves only when its socket does.
PingExpiresUnheard(d) ==
  /\ daemon[d] = "serve" /\ sock # d
  /\ Becomes(d, "stopping")
  /\ UNCHANGED <<pc, lock, endpoint, target, faults>>

\* 60 s without a ping: nobody pings, or the pings go to another socket.  A server
\* that runs pings every 15 s; it is a fault when four are late.  The daemon looks
\* between two turns of its loop, so a run that is under way ends first.
PingExpires(d) ==
  /\ daemon[d] = "serve"
  /\ IF sock # d \/ \A c \in Server : ~ Up(c) THEN UNCHANGED faults ELSE Fault
  /\ Becomes(d, "stopping")
  /\ UNCHANGED <<pc, lock, endpoint, target>>

\* Mutant: the lock goes before the files.
CloseListenerAndLock(d) ==
  /\ daemon[d] = "stopping"
  /\ Becomes(d, "closed")
  /\ Unlocks(d)
  /\ UNCHANGED <<pc, lockFile, files, endpoint, target, faults>>

\* _cleanup_daemon.
CloseListener(d) ==
  /\ daemon[d] = "stopping"
  /\ Becomes(d, "closed")
  /\ UNCHANGED <<pc, lock, endpoint, target, faults>>

\* _cleanup_files does not look whose files they are.
RemoveFiles(d) ==
  /\ daemon[d] = "closed"
  /\ sock' = None /\ pidFile' = None
  /\ Becomes(d, "cleaned")
  /\ UNCHANGED <<pc, lock, unmarked, target, faults>>

Exit(d) ==
  /\ daemon[d] = "cleaned"
  /\ Becomes(d, "off")
  /\ Unlocks(d)
  /\ target' = Forgotten(d)
  /\ UNCHANGED <<pc, lockFile, files, endpoint, faults>>

Crash(d) ==
  /\ daemon[d] # "off"
  /\ Fault
  /\ Dies(d)
  /\ target' = Forgotten(d)
  /\ UNCHANGED <<pc, lockFile, files>>

DaemonStep(d) ==
  \/ Start(d) \/ WritePid(d) \/ Listen(d) \/ ListenFails(d) \/ RemoveMarker(d)
  \/ PingExpires(d) \/ CloseListener(d) \/ RemoveFiles(d) \/ Exit(d)

(***************************************************************************)
(* fw-context watch restart.                                               *)
(***************************************************************************)
\* stop_marker_process, SIGTERM: a daemon that listens stops, an earlier one has no
\* handler yet.  A marker of a process that ended is refused, and the restart goes on.
Terminate(x) ==
  /\ pc[x] = "idle"
  /\ IF pidFile \notin Daemon
     THEN GoTo(x, "unsock") /\ UNCHANGED <<daemon, holds, endpoint, target>>
     ELSE /\ GoTo(x, "wait")
          /\ IF daemon[pidFile] \in {"listen", "unlisted"}
             THEN Dies(pidFile) /\ UNCHANGED target
             ELSE /\ daemon' = [daemon EXCEPT ![pidFile] = IF @ = "serve" THEN "stopping" ELSE @]
                  /\ target' = [target EXCEPT ![x] = pidFile]
                  /\ UNCHANGED <<holds, endpoint>>
  /\ UNCHANGED <<lockFile, files, faults>>

\* The daemon is gone, or 3 s are over and SIGKILL ends it.
Stopped(x) ==
  /\ pc[x] = "wait"
  /\ GoTo(x, "unsock")
  /\ IF target[x] = None THEN UNCHANGED <<daemon, holds, endpoint, target>>
     ELSE Dies(target[x]) /\ target' = Forgotten(target[x])
  /\ UNCHANGED <<lockFile, files, faults>>

RemoveSocket(x) ==
  /\ pc[x] = "unsock"
  /\ sock' = None
  /\ GoTo(x, "unpid")
  /\ UNCHANGED <<daemon, lock, pidFile, unmarked, target, faults>>

RemovePid(x) ==
  /\ pc[x] = "unpid"
  /\ pidFile' = None
  /\ GoTo(x, "unlink")
  /\ UNCHANGED <<daemon, lock, sock, unmarked, target, faults>>

\* POSIX removes the name of a file that is locked.
RemoveLockFile(x) ==
  /\ pc[x] = "unlink"
  /\ lockFile' = 0
  /\ GoTo(x, "ping")
  /\ UNCHANGED <<daemon, files, holds, endpoint, target, faults>>

Restart(x) == Terminate(x) \/ Stopped(x) \/ RemoveSocket(x) \/ RemovePid(x) \/ RemoveLockFile(x)

Next ==
  \/ \E c \in Client : Ensure(c)
  \/ \E c \in Server : Leave(c)
  \/ \E d \in Daemon : DaemonStep(d) \/ Crash(d)
  \/ \E x \in Restarter : Restart(x)

\* Every process takes its steps; nobody has to leave, to crash or to restart.  A
\* parent releases the lock right after it has started its child, which takes long to
\* start, and the lock is nearly always free: so, again and again, a parent is done
\* before its child comes to the lock, and a child comes while nobody has it.
Releases == \E c \in Client : Release(c) /\ \E d \in Daemon : daemon[d] = "start"
GetsLock == \E d \in Daemon : Start(d) /\ Free(LockFile)

Fairness ==
  /\ \A c \in Client : WF_vars(Ensure(c))
  /\ \A d \in Daemon : WF_vars(DaemonStep(d))
  /\ \A x \in Restarter : WF_vars(pc[x] # "idle" /\ Restart(x))
  /\ SF_vars(Releases) /\ SF_vars(GetsLock)

Spec == Init /\ [][Next]_vars /\ Fairness

(***************************************************************************)
(* Properties                                                              *)
(***************************************************************************)
ClientPlace == {"idle", "wait", "unsock", "unpid", "unlink", "ping", "lock", "check", "spawn",
                "release", "done", "gone"}
Booted == {"boot", "listen", "serve", "stopping", "closed", "cleaned"}

\* Every variable has its type; a lock file has one holder; and who is past try_lock
\* has one.
TypeOK ==
  /\ pc \in [Client -> ClientPlace]
  /\ daemon \in [Daemon -> Booted \cup {"off", "start", "unlisted"}]
  /\ files \in Nat /\ lockFile \in 0 .. files
  /\ holds \in [Process -> 0 .. files]
  /\ \A p, q \in Process : holds[p] = holds[q] /\ holds[p] # 0 => p = q
  /\ \A c \in Client : holds[c] # 0 <=> pc[c] \in {"check", "spawn", "release"}
  /\ \A d \in Daemon : holds[d] # 0 <=> daemon[d] \in Booted
  /\ sock \in Daemon \cup {Nobody, None} /\ pidFile \in Daemon \cup {Nobody, None}
  /\ target \in [Restarter -> Daemon \cup {None}]
  /\ faults \in 0 .. MaxFaults
  /\ unmarked \subseteq Daemon

NobodyRestarts == \A x \in Restarter : pc[x] = "idle"

\* Until somebody restarts the daemon, the daemon that serves is the one that the
\* socket and watcher.pid lead to, whatever daemons come, crash and go: so there is
\* one (daemon_main, _cleanup_daemon: the files go before the lock).  One thing takes
\* its watcher.pid away, and not its socket: an earlier daemon that could not listen,
\* which lets go of the lock before it removes the file (daemon.py:218-221).
EndpointOfTheWatcher ==
  NobodyRestarts => \A d \in Daemon : daemon[d] \in Listening =>
    sock = d /\ pidFile = IF d \in unmarked THEN None ELSE d

\* The same with no daemon excused: watcher.pid names the daemon that serves, for watch
\* status and watch restart to find.
MarkerOfTheWatcher ==
  NobodyRestarts => \A d \in Daemon : daemon[d] \in Listening => pidFile = d

\* As long as a server runs, a daemon answers its pings again and again, after crashes,
\* missed pings, failed spawns, daemons that lost the lock to their parent, and a
\* restart that left two daemons behind (_start_ping_thread).
WatcherReturns == (\E c \in Server : Up(c)) ~> (Reachable \/ \A c \in Server : ~ Up(c))

\* Daemons do not outlive the servers (daemon.py:9-14).
DaemonsLeave == (\A c \in Server : ~ Up(c)) ~> (\A d \in Daemon : daemon[d] = "off")

\* One daemon per project (daemon.py:4-5; server.py _start_ping_thread: "exactly one daemon starts").
OneDaemonPerProject == \A d, e \in Daemon : daemon[d] \in Booted /\ daemon[e] \in Booted => d = e
=============================================================================
