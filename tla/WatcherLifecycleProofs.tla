-------------------------- MODULE WatcherLifecycleProofs --------------------------
(***************************************************************************)
(* Proofs about WatcherLifecycle: for any number of servers, restarts and  *)
(* slots of daemons, a lock file has one holder and the holders are those  *)
(* that are past try_lock; and, until somebody restarts the daemon, the    *)
(* daemon that serves is the one that the socket and the pid marker lead   *)
(* to.                                                                     *)
(***************************************************************************)
EXTENDS WatcherLifecycle, TLAPS

\* What Locks and Unlocks keep, by the kind of process: Held is TypeOK of the lock.
Held ==
  /\ files \in Nat /\ lockFile \in 0 .. files
  /\ holds \in [Process -> 0 .. files]
  /\ \A p, q \in Process : holds[p] = holds[q] /\ holds[p] # 0 => p = q
HeldByClients == \A c \in Client : holds[c] # 0 <=> pc[c] \in {"check", "spawn", "release"}
HeldByDaemons == \A d \in Daemon : holds[d] # 0 <=> daemon[d] \in Booted
Places ==
  /\ pc \in [Client -> ClientPlace]
  /\ daemon \in [Daemon -> Booted \cup {"off", "start", "unlisted"}]
Ends ==
  /\ sock \in Daemon \cup {Nobody, None} /\ pidFile \in Daemon \cup {Nobody, None}
  /\ target \in [Restarter -> Daemon \cup {None}]
  /\ faults \in 0 .. MaxFaults
  /\ unmarked \subseteq Daemon

LEMMA TypeParts == TypeOK <=> Held /\ HeldByClients /\ HeldByDaemons /\ Places /\ Ends
  BY DEF TypeOK, Held, HeldByClients, HeldByDaemons, Places, Ends

LEMMA TypePartsNext == Held' /\ HeldByClients' /\ HeldByDaemons' /\ Places' /\ Ends' => TypeOK'
  BY DEF TypeOK, Held, HeldByClients, HeldByDaemons, Places, Ends

LEMMA ProcessKinds ==
  /\ Client \subseteq Process /\ Daemon \subseteq Process
  /\ Client \cap Daemon = {} /\ Server \subseteq Client /\ Restarter \subseteq Client
  BY WatcherAssumption DEF Client, Process

(***************************************************************************)
(* The three things that can happen to the locks.                          *)
(***************************************************************************)
\* Nobody locks or unlocks; the file may lose its name.
LEMMA HeldKept ==
  ASSUME Held, holds' = holds, files' = files, lockFile' \in {0, lockFile}
  PROVE  Held'
  BY DEF Held

LEMMA HeldUnlocked ==
  ASSUME Held, NEW p \in Process, Unlocks(p), files' = files, lockFile' = lockFile
  PROVE  /\ Held' /\ holds'[p] = 0
         /\ \A q \in Process : q # p => holds'[q] = holds[q]
  BY DEF Held, Unlocks

LEMMA HeldOpened ==
  ASSUME Held, OpensLockFile, holds' = holds
  PROVE  Held'
  BY DEF Held, OpensLockFile, LockFile

LEMMA HeldLocked ==
  ASSUME Held, NEW p \in Process, OpensLockFile, Free(LockFile), Locks(p)
  PROVE  /\ Held' /\ holds'[p] # 0
         /\ \A q \in Process : q # p => holds'[q] = holds[q]
<1>1. LockFile \in 1 .. files' /\ files' \in Nat /\ files \in 0 .. files' /\ lockFile' = LockFile
  BY DEF Held, OpensLockFile, LockFile
<1>2. /\ holds' \in [Process -> 0 .. files'] /\ holds'[p] = LockFile
      /\ \A q \in Process : q # p => holds'[q] = holds[q]
  BY <1>1 DEF Held, Locks
<1>3. \A q \in Process : holds[q] # LockFile
  BY DEF Free
<1>4. \A q, r \in Process : holds'[q] = holds'[r] /\ holds'[q] # 0 => q = r
  BY <1>1, <1>2, <1>3 DEF Held
<1> QED
  BY <1>1, <1>2, <1>4 DEF Held

(***************************************************************************)
(* Type correctness.                                                       *)
(***************************************************************************)
LEMMA TypeInit == Init => TypeOK
<1> SUFFICES ASSUME Init PROVE TypeOK
  OBVIOUS
<1>1. Held
  BY DEF Init, Held
<1>2. HeldByClients /\ HeldByDaemons /\ Places
  BY ProcessKinds DEF Init, HeldByClients, HeldByDaemons, Places, ClientPlace, Booted
<1>3. Ends
  BY WatcherAssumption DEF Init, Ends
<1> QED
  BY <1>1, <1>2, <1>3, TypeParts

LEMMA EnsureKeepsType ==
  ASSUME TypeOK, NEW c \in Client, Ensure(c)
  PROVE  TypeOK'
<1> USE TypeParts, TypePartsNext, ProcessKinds
<1>0. Held /\ HeldByClients /\ HeldByDaemons /\ Places /\ Ends
  OBVIOUS
<1>r. Rest(c) \in {"ping", "done"}
  BY DEF Rest
<1>1. CASE Ping(c)
  <2>1. Held'
    BY <1>0, <1>1, HeldKept DEF Ping, lock
  <2>2. HeldByClients' /\ HeldByDaemons' /\ Places' /\ Ends'
    BY <1>0, <1>1, <1>r DEF Ping, lock, endpoint, GoTo, HeldByClients, HeldByDaemons, Places, Ends, ClientPlace
  <2> QED
    BY <2>1, <2>2
<1>2. CASE TryLock(c)
  <2>1. CASE Free(LockFile)
    <3>1. Locks(c) /\ GoTo(c, "check") /\ OpensLockFile
      BY <1>2, <2>1 DEF TryLock
    <3>2. Held' /\ holds'[c] # 0 /\ \A q \in Process : q # c => holds'[q] = holds[q]
      BY <1>0, <2>1, <3>1, HeldLocked
    <3>3. HeldByClients' /\ HeldByDaemons' /\ Places' /\ Ends'
      BY <1>0, <1>2, <3>1, <3>2 DEF TryLock, endpoint, GoTo, HeldByClients, HeldByDaemons, Places, Ends, ClientPlace
    <3> QED
      BY <3>2, <3>3
  <2>2. CASE ~ Free(LockFile)
    <3>1. GoTo(c, Rest(c)) /\ OpensLockFile /\ holds' = holds
      BY <1>2, <2>2 DEF TryLock
    <3>2. Held'
      BY <1>0, <3>1, HeldOpened
    <3>3. HeldByClients' /\ HeldByDaemons' /\ Places' /\ Ends'
      BY <1>0, <1>2, <1>r, <3>1 DEF TryLock, endpoint, GoTo, HeldByClients, HeldByDaemons, Places, Ends, ClientPlace
    <3> QED
      BY <3>2, <3>3
  <2> QED
    BY <2>1, <2>2
<1>3. CASE PingAgain(c)
  <2>1. Held'
    BY <1>0, <1>3, HeldKept DEF PingAgain, lock
  <2>2. HeldByClients' /\ HeldByDaemons' /\ Places' /\ Ends'
    BY <1>0, <1>3 DEF PingAgain, lock, endpoint, GoTo, HeldByClients, HeldByDaemons, Places, Ends, ClientPlace
  <2> QED
    BY <2>1, <2>2
<1>4. CASE Spawn(c)
  <2>1. Held' /\ holds' = holds
    BY <1>0, <1>4, HeldKept DEF Spawn, lock
  <2>2. Places' /\ HeldByDaemons' /\ faults' \in 0 .. MaxFaults
    <3>1. CASE \E d \in Daemon : daemon[d] = "off" /\ Becomes(d, "start")
      BY <1>0, <1>4, <2>1, <3>1, WatcherAssumption
        DEF Spawn, Fault, GoTo, Becomes, HeldByDaemons, Places, Ends, ClientPlace, Booted
    <3>2. CASE Fault /\ UNCHANGED daemon
      BY <1>0, <1>4, <2>1, <3>2, WatcherAssumption
        DEF Spawn, Fault, GoTo, HeldByDaemons, Places, Ends, ClientPlace
    <3> QED
      BY <1>4, <3>1, <3>2 DEF Spawn
  <2>3. HeldByClients' /\ Ends'
    BY <1>0, <1>4, <2>1, <2>2 DEF Spawn, GoTo, endpoint, HeldByClients, Ends, Places
  <2> QED
    BY <2>1, <2>2, <2>3
<1>5. CASE Release(c)
  <2>1. Held' /\ holds'[c] = 0 /\ \A q \in Process : q # c => holds'[q] = holds[q]
    BY <1>0, <1>5, HeldUnlocked DEF Release
  <2>2. HeldByClients' /\ HeldByDaemons' /\ Places' /\ Ends'
    BY <1>0, <1>5, <1>r, <2>1 DEF Release, endpoint, GoTo, HeldByClients, HeldByDaemons, Places, Ends, ClientPlace
  <2> QED
    BY <2>1, <2>2
<1> QED
  BY <1>1, <1>2, <1>3, <1>4, <1>5 DEF Ensure

LEMMA LeaveKeepsType ==
  ASSUME TypeOK, NEW c \in Server, Leave(c)
  PROVE  TypeOK'
<1> USE TypeParts, TypePartsNext, ProcessKinds
<1>1. Held' /\ holds'[c] = 0 /\ \A q \in Process : q # c => holds'[q] = holds[q]
  BY HeldUnlocked DEF Leave
<1>2. HeldByClients' /\ HeldByDaemons' /\ Places' /\ Ends'
  BY <1>1 DEF Leave, endpoint, GoTo, HeldByClients, HeldByDaemons, Places, Ends, ClientPlace
<1> QED
  BY <1>1, <1>2

\* A process that dies lets go of its lock and of the files that name it.
LEMMA DiesKeepsType ==
  ASSUME TypeOK, NEW d \in Daemon, Dies(d), files' = files, lockFile' = lockFile
  PROVE  /\ Held' /\ HeldByDaemons' /\ daemon' \in [Daemon -> Booted \cup {"off", "start", "unlisted"}]
         /\ \A c \in Client : holds'[c] = holds[c]
         /\ sock' \in Daemon \cup {Nobody, None} /\ pidFile' \in Daemon \cup {Nobody, None}
         /\ unmarked' \subseteq Daemon
<1> USE TypeParts, TypePartsNext, ProcessKinds
<1>1. Held' /\ holds'[d] = 0 /\ \A q \in Process : q # d => holds'[q] = holds[q]
  BY HeldUnlocked DEF Dies
<1>2. HeldByDaemons' /\ daemon' \in [Daemon -> Booted \cup {"off", "start", "unlisted"}]
  BY <1>1 DEF Dies, Becomes, HeldByDaemons, Places, Booted
<1>3. /\ sock' \in Daemon \cup {Nobody, None} /\ pidFile' \in Daemon \cup {Nobody, None}
      /\ unmarked' \subseteq Daemon
  BY DEF Dies, Ends
<1> QED
  BY <1>1, <1>2, <1>3

LEMMA DaemonStepKeepsType ==
  ASSUME TypeOK, NEW d \in Daemon, DaemonStep(d)
  PROVE  TypeOK'
<1> USE TypeParts, TypePartsNext, ProcessKinds
<1>0. Held /\ HeldByClients /\ HeldByDaemons /\ Places /\ Ends
  OBVIOUS
<1>1. CASE Start(d)
  <2>1. CASE Free(LockFile)
    <3>1. Locks(d) /\ Becomes(d, "boot") /\ OpensLockFile
      BY <1>1, <2>1 DEF Start
    <3>2. Held' /\ holds'[d] # 0 /\ \A q \in Process : q # d => holds'[q] = holds[q]
      BY <1>0, <2>1, <3>1, HeldLocked
    <3>3. HeldByClients' /\ HeldByDaemons' /\ Places' /\ Ends'
      BY <1>0, <1>1, <3>1, <3>2 DEF Start, endpoint, Becomes, HeldByClients, HeldByDaemons, Places, Ends, Booted
    <3> QED
      BY <3>2, <3>3
  <2>2. CASE ~ Free(LockFile)
    <3>1. Becomes(d, "off") /\ OpensLockFile /\ holds' = holds
      BY <1>1, <2>2 DEF Start
    <3>2. Held'
      BY <1>0, <3>1, HeldOpened
    <3>3. HeldByClients' /\ HeldByDaemons' /\ Places' /\ Ends'
      BY <1>0, <1>1, <3>1 DEF Start, endpoint, Becomes, HeldByClients, HeldByDaemons, Places, Ends, Booted
    <3> QED
      BY <3>2, <3>3
  <2> QED
    BY <2>1, <2>2
<1>2. CASE WritePid(d) \/ Listen(d) \/ PingExpires(d) \/ CloseListener(d) \/ RemoveFiles(d)
  <2>1. holds' = holds /\ files' = files /\ lockFile' = lockFile /\ pc' = pc /\ target' = target
    BY <1>2 DEF WritePid, Listen, PingExpires, CloseListener, RemoveFiles, lock, endpoint
  <2>2. Held'
    BY <1>0, <2>1, HeldKept
  <2>3. daemon[d] \in Booted /\ \E where \in Booted : Becomes(d, where)
    BY <1>2 DEF WritePid, Listen, PingExpires, CloseListener, RemoveFiles, Booted
  <2>4. HeldByClients' /\ HeldByDaemons' /\ Places'
    BY <1>0, <2>1, <2>3 DEF Becomes, HeldByClients, HeldByDaemons, Places
  <2>5. faults' \in 0 .. MaxFaults
    BY <1>0, <1>2, WatcherAssumption
      DEF WritePid, Listen, PingExpires, CloseListener, RemoveFiles, Fault, Ends
  <2>6. /\ sock' \in Daemon \cup {Nobody, None} /\ pidFile' \in Daemon \cup {Nobody, None}
        /\ unmarked' \subseteq Daemon
    BY <1>0, <1>2 DEF WritePid, Listen, PingExpires, CloseListener, RemoveFiles, endpoint, Ends
  <2> QED
    BY <1>0, <2>1, <2>2, <2>4, <2>5, <2>6 DEF Ends
<1>3. CASE Exit(d)
  <2>1. Held' /\ holds'[d] = 0 /\ \A q \in Process : q # d => holds'[q] = holds[q]
    BY <1>0, <1>3, HeldUnlocked DEF Exit
  <2>2. HeldByClients' /\ HeldByDaemons' /\ Places' /\ Ends'
    BY <1>0, <1>3, <2>1 DEF Exit, endpoint, Becomes, Forgotten, HeldByClients, HeldByDaemons, Places, Ends, Booted
  <2> QED
    BY <2>1, <2>2
<1>4. CASE ListenFails(d)
  <2>1. Held' /\ holds'[d] = 0 /\ \A q \in Process : q # d => holds'[q] = holds[q]
    BY <1>0, <1>4, HeldUnlocked DEF ListenFails
  <2>2. HeldByClients' /\ HeldByDaemons' /\ Places'
    BY <1>0, <1>4, <2>1 DEF ListenFails, Becomes, HeldByClients, HeldByDaemons, Places, Booted
  <2>3. Ends'
    BY <1>0, <1>4, WatcherAssumption DEF ListenFails, Fault, Ends
  <2> QED
    BY <2>1, <2>2, <2>3
<1>5. CASE RemoveMarker(d)
  <2>1. Held' /\ holds' = holds
    BY <1>0, <1>5, HeldKept DEF RemoveMarker, lock
  <2>2. HeldByClients' /\ HeldByDaemons' /\ Places'
    BY <1>0, <1>5, <2>1 DEF RemoveMarker, Becomes, HeldByClients, HeldByDaemons, Places, Booted
  <2>3. Ends'
    BY <1>0, <1>5 DEF RemoveMarker, Forgotten, Ends
  <2> QED
    BY <2>1, <2>2, <2>3
<1> QED
  BY <1>1, <1>2, <1>3, <1>4, <1>5 DEF DaemonStep

LEMMA CrashKeepsType ==
  ASSUME TypeOK, NEW d \in Daemon, Crash(d)
  PROVE  TypeOK'
<1> USE TypeParts, TypePartsNext, ProcessKinds
<1>1. Dies(d) /\ files' = files /\ lockFile' = lockFile /\ pc' = pc
  BY DEF Crash
<1>2. target' \in [Restarter -> Daemon \cup {None}] /\ faults' \in 0 .. MaxFaults
  BY WatcherAssumption DEF Crash, Fault, Forgotten, Ends
<1> QED
  BY <1>1, <1>2, DiesKeepsType DEF HeldByClients, Places, Ends

LEMMA RestartKeepsType ==
  ASSUME TypeOK, NEW x \in Restarter, Restart(x)
  PROVE  TypeOK'
<1> USE TypeParts, TypePartsNext, ProcessKinds
<1>0. Held /\ HeldByClients /\ HeldByDaemons /\ Places /\ Ends
  OBVIOUS
<1>g. ASSUME NEW from, NEW where, pc[x] = from, GoTo(x, where),
             from \in {"idle", "wait", "unsock", "unpid", "unlink"},
             where \in {"wait", "unsock", "unpid", "unlink", "ping"},
             \A c \in Client : holds'[c] = holds[c]
      PROVE  HeldByClients' /\ pc' \in [Client -> ClientPlace]
  BY <1>0, <1>g DEF GoTo, HeldByClients, Places, ClientPlace
<1>1. CASE Terminate(x)
  <2>0. pc[x] = "idle" /\ files' = files /\ lockFile' = lockFile /\ faults' = faults
    BY <1>1 DEF Terminate
  <2>1. CASE pidFile \notin Daemon
    <3>1. GoTo(x, "unsock") /\ UNCHANGED <<daemon, holds, endpoint, target>>
      BY <1>1, <2>1 DEF Terminate
    <3>2. Held'
      BY <1>0, <2>0, <3>1, HeldKept
    <3> QED
      BY <1>0, <1>g, <2>0, <3>1, <3>2 DEF HeldByDaemons, Places, Ends, endpoint
  <2>2. CASE pidFile \in Daemon /\ daemon[pidFile] \in {"listen", "unlisted"}
    <3>1. GoTo(x, "wait") /\ Dies(pidFile) /\ target' = target
      BY <1>1, <2>2 DEF Terminate
    <3> QED
      BY <1>0, <1>g, <2>0, <2>2, <3>1, DiesKeepsType DEF Places, Ends
  <2>3. CASE pidFile \in Daemon /\ daemon[pidFile] \notin {"listen", "unlisted"}
    <3>1. /\ GoTo(x, "wait") /\ holds' = holds /\ UNCHANGED endpoint
          /\ target' = [target EXCEPT ![x] = pidFile]
          /\ daemon' = [daemon EXCEPT ![pidFile] = IF @ = "serve" THEN "stopping" ELSE @]
      BY <1>1, <2>3 DEF Terminate, endpoint
    <3>2. Held'
      BY <1>0, <2>0, <3>1, HeldKept
    <3>3. HeldByDaemons' /\ daemon' \in [Daemon -> Booted \cup {"off", "start", "unlisted"}]
      BY <1>0, <2>3, <3>1 DEF HeldByDaemons, Places, Booted
    <3>4. Ends'
      BY <1>0, <2>0, <2>3, <3>1 DEF Ends, endpoint
    <3> QED
      BY <1>g, <2>0, <3>1, <3>2, <3>3, <3>4 DEF Places
  <2> QED
    BY <2>1, <2>2, <2>3
<1>2. CASE Stopped(x)
  <2>0. /\ pc[x] = "wait" /\ GoTo(x, "unsock")
        /\ files' = files /\ lockFile' = lockFile /\ faults' = faults
    BY <1>2 DEF Stopped
  <2>1. CASE target[x] = None
    <3>1. UNCHANGED <<daemon, holds, endpoint, target>>
      BY <1>2, <2>1 DEF Stopped
    <3>2. Held'
      BY <1>0, <2>0, <3>1, HeldKept
    <3> QED
      BY <1>0, <1>g, <2>0, <3>1, <3>2 DEF HeldByDaemons, Places, Ends, endpoint
  <2>2. CASE target[x] # None
    <3>1. Dies(target[x]) /\ target' = Forgotten(target[x]) /\ target[x] \in Daemon
      BY <1>0, <1>2, <2>2 DEF Stopped, Ends
    <3>2. target' \in [Restarter -> Daemon \cup {None}]
      BY <1>0, <3>1 DEF Forgotten, Ends
    <3> QED
      BY <1>0, <1>g, <2>0, <3>1, <3>2, DiesKeepsType DEF Places, Ends
  <2> QED
    BY <2>1, <2>2
<1>3. CASE RemoveSocket(x) \/ RemovePid(x) \/ RemoveLockFile(x)
  <2>1. /\ holds' = holds /\ files' = files /\ lockFile' \in {0, lockFile} /\ daemon' = daemon
        /\ target' = target /\ faults' = faults /\ sock' \in {sock, None} /\ pidFile' \in {pidFile, None}
        /\ unmarked' = unmarked
    BY <1>3 DEF RemoveSocket, RemovePid, RemoveLockFile, lock, endpoint
  <2>2. Held'
    BY <1>0, <2>1, HeldKept
  <2>3. HeldByClients' /\ pc' \in [Client -> ClientPlace]
    BY <1>3, <1>g, <2>1 DEF RemoveSocket, RemovePid, RemoveLockFile
  <2> QED
    BY <1>0, <2>1, <2>2, <2>3 DEF HeldByDaemons, Places, Ends
<1> QED
  BY <1>1, <1>2, <1>3 DEF Restart

LEMMA TypeStep == TypeOK /\ [Next]_vars => TypeOK'
<1> SUFFICES ASSUME TypeOK, [Next]_vars PROVE TypeOK'
  OBVIOUS
<1>1. CASE Next
  BY <1>1, EnsureKeepsType, LeaveKeepsType, DaemonStepKeepsType, CrashKeepsType, RestartKeepsType DEF Next
<1>2. CASE UNCHANGED vars
  BY <1>2 DEF vars, TypeOK
<1> QED
  BY <1>1, <1>2

\* For every number of servers, restarts and daemons, every variable has its type, a
\* lock file has one holder, and the holders are those that are past try_lock.
THEOREM TypeCorrect == Spec => []TypeOK
  BY TypeInit, TypeStep, PTL DEF Spec

(***************************************************************************)
(* The endpoint.                                                           *)
(***************************************************************************)
\* Until somebody restarts the daemon, there has been one lock file: so a daemon past
\* try_lock is alone, and what it wrote into the files stays until it removes it, or
\* until one that could not listen removes watcher.pid, and nothing else.
OneLockFile == \A p \in Process : holds[p] \in {0, lockFile}
Marker(d) == IF d \in unmarked THEN None ELSE d
MarkerOfTheBooted == \A d \in Daemon : daemon[d] = "listen" => pidFile = Marker(d)
FilesOfTheServing == \A d \in Daemon : daemon[d] \in Listening => sock = d /\ pidFile = Marker(d)

EndpointInv == NobodyRestarts => OneLockFile /\ MarkerOfTheBooted /\ FilesOfTheServing

LEMMA AloneBooted ==
  ASSUME TypeOK, OneLockFile, NEW d \in Daemon, daemon[d] \in Booted
  PROVE  \A e \in Daemon : daemon[e] \in Booted => e = d
  BY ProcessKinds DEF TypeOK, OneLockFile

\* What a process can do to the lock, except to remove the name of its file.
LocksChange(p) ==
  \/ lockFile' = lockFile /\ (holds' = holds \/ Unlocks(p))
  \/ OpensLockFile /\ (holds' = holds \/ Locks(p))

LEMMA OneLockFileKept ==
  ASSUME TypeOK, OneLockFile, NEW p \in Process, LocksChange(p)
  PROVE  OneLockFile'
<1>1. CASE lockFile' = lockFile /\ holds' = holds
  BY <1>1 DEF OneLockFile
<1>2. CASE lockFile' = lockFile /\ Unlocks(p)
  BY <1>2 DEF TypeOK, OneLockFile, Unlocks
<1>3. CASE OpensLockFile /\ (holds' = holds \/ Locks(p))
  <2>1. lockFile = 0 => \A q \in Process : holds[q] = 0
    BY DEF OneLockFile
  <2>2. lockFile' = LockFile
    BY <1>3 DEF OpensLockFile
  <2> QED
    BY <1>3, <2>1, <2>2 DEF TypeOK, OneLockFile, Locks, LockFile
<1> QED
  BY <1>1, <1>2, <1>3 DEF LocksChange

LEMMA ClientsOnLocks ==
  ASSUME NEW c \in Client, Ensure(c) \/ Leave(c)
  PROVE  LocksChange(c)
<1>1. CASE Ping(c) \/ PingAgain(c) \/ Spawn(c)
  BY <1>1 DEF Ping, PingAgain, Spawn, lock, LocksChange
<1>2. CASE TryLock(c)
  BY <1>2 DEF TryLock, LocksChange
<1>3. CASE Release(c) \/ Leave(c)
  BY <1>3 DEF Release, Leave, LocksChange
<1> QED
  BY <1>1, <1>2, <1>3 DEF Ensure

LEMMA DaemonsOnLocks ==
  ASSUME NEW d \in Daemon, DaemonStep(d) \/ Crash(d)
  PROVE  LocksChange(d)
<1>1. CASE Start(d)
  BY <1>1 DEF Start, LocksChange
<1>2. CASE WritePid(d) \/ Listen(d) \/ PingExpires(d) \/ CloseListener(d) \/ RemoveFiles(d)
  BY <1>2 DEF WritePid, Listen, PingExpires, CloseListener, RemoveFiles, lock, LocksChange
<1>3. CASE Exit(d) \/ Crash(d) \/ ListenFails(d) \/ RemoveMarker(d)
  BY <1>3 DEF Exit, Crash, Dies, ListenFails, RemoveMarker, lock, LocksChange
<1> QED
  BY <1>1, <1>2, <1>3 DEF DaemonStep

\* A restart unlocks what the daemon it ends has locked.
LEMMA RestartsOnLocks ==
  ASSUME TypeOK, NEW x \in Restarter, Restart(x), ~ RemoveLockFile(x)
  PROVE  \E p \in Process : LocksChange(p)
<1>0. x \in Process
  BY ProcessKinds
<1>1. CASE Terminate(x)
  <2>1. lockFile' = lockFile /\ (holds' = holds \/ (pidFile \in Daemon /\ Dies(pidFile)))
    BY <1>1 DEF Terminate
  <2> QED
    BY <1>0, <2>1, ProcessKinds DEF Dies, LocksChange
<1>2. CASE Stopped(x)
  <2>1. lockFile' = lockFile /\ (holds' = holds \/ (target[x] \in Daemon /\ Dies(target[x])))
    BY <1>2 DEF Stopped, TypeOK
  <2> QED
    BY <1>0, <2>1, ProcessKinds DEF Dies, LocksChange
<1>3. CASE RemoveSocket(x) \/ RemovePid(x)
  BY <1>0, <1>3 DEF RemoveSocket, RemovePid, lock, LocksChange
<1> QED
  BY <1>1, <1>2, <1>3 DEF Restart

LEMMA EndpointInit == Init => EndpointInv
  BY DEF Init, EndpointInv, OneLockFile, MarkerOfTheBooted, FilesOfTheServing, Listening, Process

\* A step of a restart leaves it at another place than where it begins.
LEMMA RestartGoesOn ==
  ASSUME TypeOK, NEW x \in Restarter, Restart(x)
  PROVE  ~ NobodyRestarts'
<1>1. \E where \in {"wait", "unsock", "unpid", "unlink", "ping"} : GoTo(x, where)
  BY DEF Restart, Terminate, Stopped, RemoveSocket, RemovePid, RemoveLockFile
<1> QED
  BY <1>1, ProcessKinds DEF GoTo, TypeOK, NobodyRestarts

\* Nor does a step of anybody else put it back there.
LEMMA ClientsStayStarted ==
  ASSUME TypeOK, NobodyRestarts', NEW c \in Client, NEW where,
         where # "idle", GoTo(c, where)
  PROVE  NobodyRestarts
  BY ProcessKinds DEF GoTo, TypeOK, NobodyRestarts

LEMMA EnsureKeepsEndpoint ==
  ASSUME TypeOK, EndpointInv, NEW c \in Client, Ensure(c) \/ Leave(c), NobodyRestarts'
  PROVE  EndpointInv'
<1>1. \E where \in {"ping", "done", "lock", "check", "release", "spawn", "gone"} : GoTo(c, where)
  BY DEF Ensure, Ping, TryLock, PingAgain, Spawn, Release, Leave, Rest
<1>2. OneLockFile /\ MarkerOfTheBooted /\ FilesOfTheServing
  BY <1>1, ClientsStayStarted DEF EndpointInv
<1>3. OneLockFile'
  BY <1>2, ClientsOnLocks, OneLockFileKept, ProcessKinds
<1>4. UNCHANGED endpoint
  BY DEF Ensure, Ping, TryLock, PingAgain, Spawn, Release, Leave, endpoint
<1>5. \A d \in Daemon : daemon'[d] \in Booted => daemon'[d] = daemon[d]
  BY DEF TypeOK, Ensure, Ping, TryLock, PingAgain, Spawn, Release, Leave, Becomes, Booted
<1> QED
  BY <1>2, <1>3, <1>4, <1>5
    DEF EndpointInv, MarkerOfTheBooted, FilesOfTheServing, Marker, endpoint, Listening, Booted

LEMMA DaemonKeepsEndpoint ==
  ASSUME TypeOK, EndpointInv, NEW d \in Daemon, DaemonStep(d) \/ Crash(d), NobodyRestarts'
  PROVE  EndpointInv'
<1>1. pc' = pc
  BY DEF DaemonStep, Start, WritePid, Listen, ListenFails, RemoveMarker, PingExpires, CloseListener,
         RemoveFiles, Exit, Crash
<1>2. OneLockFile /\ MarkerOfTheBooted /\ FilesOfTheServing
  BY <1>1 DEF EndpointInv, NobodyRestarts
<1>3. OneLockFile'
  BY <1>2, DaemonsOnLocks, OneLockFileKept, ProcessKinds
<1>4. daemon[d] \in Booted => \A e \in Daemon : daemon[e] \in Booted => e = d
  BY <1>2, AloneBooted
<1>5. \A e \in Daemon : e # d => daemon'[e] = daemon[e]
  BY DEF TypeOK, DaemonStep, Start, WritePid, Listen, ListenFails, RemoveMarker, PingExpires,
         CloseListener, RemoveFiles, Exit, Crash, Dies, Becomes
<1>6. MarkerOfTheBooted' /\ FilesOfTheServing'
  <2> USE DEF MarkerOfTheBooted, FilesOfTheServing, Marker, Listening
  <2>1. CASE Start(d)
    <3>1. UNCHANGED endpoint /\ daemon'[d] \in {"boot", "off"}
      BY <2>1 DEF Start, Becomes, TypeOK
    <3> QED
      BY <1>2, <1>5, <3>1 DEF endpoint
  <2>2. CASE WritePid(d)
    <3>1. /\ daemon[d] \in Booted /\ daemon'[d] = "listen" /\ pidFile' = d
          /\ unmarked' = unmarked \ {d}
      BY <2>2 DEF WritePid, Becomes, TypeOK, Booted
    <3>2. \A e \in Daemon : e # d => daemon'[e] \notin Booted
      BY <1>4, <1>5, <3>1
    <3> QED
      BY <3>1, <3>2 DEF Booted
  <2>3. CASE Listen(d)
    <3>1. /\ daemon[d] = "listen" /\ daemon'[d] = "serve" /\ sock' = d
          /\ pidFile' = pidFile /\ unmarked' = unmarked
      BY <2>3 DEF Listen, Becomes, TypeOK
    <3>2. \A e \in Daemon : e # d => daemon'[e] \notin Booted
      BY <1>4, <1>5, <3>1 DEF Booted
    <3> QED
      BY <1>2, <3>1, <3>2 DEF Booted
  <2>4. CASE ListenFails(d)
    <3>1. daemon[d] \in Booted /\ daemon'[d] = "unlisted"
      BY <2>4 DEF ListenFails, Becomes, TypeOK, Booted
    <3>2. \A e \in Daemon : e # d => daemon'[e] \notin Booted
      BY <1>4, <1>5, <3>1
    <3> QED
      BY <3>1, <3>2 DEF Booted
  <2>5. CASE RemoveMarker(d)
    <3>1. /\ daemon[d] = "unlisted" /\ daemon'[d] = "off" /\ sock' = sock
          /\ pidFile' = None /\ unmarked' = unmarked \cup (({pidFile} \cap Daemon) \ {d})
      BY <2>5 DEF RemoveMarker, Becomes, TypeOK
    <3>2. \A e \in Daemon : daemon'[e] \in {"listen", "serve", "stopping"} => e # d /\ daemon'[e] = daemon[e]
      BY <1>5, <3>1
    <3>3. \A e \in Daemon : daemon'[e] \in {"listen", "serve", "stopping"} => e \in unmarked'
      BY <1>2, <3>1, <3>2
    <3> QED
      BY <1>2, <3>1, <3>2, <3>3
  <2>6. CASE PingExpires(d) \/ CloseListener(d)
    <3>1. UNCHANGED endpoint
      BY <2>6 DEF PingExpires, CloseListener
    <3>2. daemon'[d] = "closed" \/ (daemon[d] = "serve" /\ daemon'[d] = "stopping")
      BY <2>6 DEF PingExpires, CloseListener, Becomes, TypeOK
    <3> QED
      BY <1>2, <1>5, <3>1, <3>2 DEF endpoint
  <2>7. CASE RemoveFiles(d)
    <3>1. daemon[d] \in Booted /\ daemon'[d] = "cleaned"
      BY <2>7 DEF RemoveFiles, Becomes, TypeOK, Booted
    <3>2. \A e \in Daemon : e # d => daemon'[e] \notin Booted
      BY <1>4, <1>5, <3>1
    <3> QED
      BY <3>1, <3>2 DEF Booted
  <2>8. CASE Exit(d)
    <3>1. UNCHANGED endpoint /\ daemon'[d] = "off"
      BY <2>8 DEF Exit, Becomes, TypeOK
    <3> QED
      BY <1>2, <1>5, <3>1 DEF endpoint
  <2>9. CASE Crash(d)
    <3>1. /\ daemon'[d] = "off" /\ unmarked' = unmarked
          /\ sock # d => sock' = sock
          /\ pidFile # d => pidFile' = pidFile
      BY <2>9 DEF Crash, Dies, Becomes, TypeOK
    <3> QED
      BY <1>2, <1>5, <3>1, WatcherAssumption
  <2> QED
    BY <2>1, <2>2, <2>3, <2>4, <2>5, <2>6, <2>7, <2>8, <2>9 DEF DaemonStep
<1> QED
  BY <1>3, <1>6 DEF EndpointInv

LEMMA EndpointStep == TypeOK /\ EndpointInv /\ [Next]_vars => EndpointInv'
<1> SUFFICES ASSUME TypeOK, EndpointInv, [Next]_vars PROVE EndpointInv'
  OBVIOUS
<1>1. CASE ~ NobodyRestarts'
  BY <1>1 DEF EndpointInv
<1>2. CASE NobodyRestarts'
  <2>1. ASSUME NEW c \in Client, Ensure(c) PROVE EndpointInv'
    BY <1>2, <2>1, EnsureKeepsEndpoint
  <2>2. ASSUME NEW c \in Server, Leave(c) PROVE EndpointInv'
    BY <1>2, <2>2, EnsureKeepsEndpoint, ProcessKinds
  <2>3. ASSUME NEW d \in Daemon, DaemonStep(d) \/ Crash(d) PROVE EndpointInv'
    BY <1>2, <2>3, DaemonKeepsEndpoint
  <2>4. ASSUME NEW x \in Restarter, Restart(x) PROVE EndpointInv'
    BY <1>2, <2>4, RestartGoesOn
  <2>5. CASE UNCHANGED vars
    BY <2>5 DEF vars, EndpointInv, NobodyRestarts, OneLockFile, MarkerOfTheBooted, FilesOfTheServing, Marker
  <2> QED
    BY <2>1, <2>2, <2>3, <2>4, <2>5 DEF Next
<1> QED
  BY <1>1, <1>2

\* For every number of servers and daemons: until somebody restarts the daemon, the one
\* that listens is the one that daemon.sock and watcher.pid lead to (daemon_main,
\* _cleanup_daemon), except that a daemon that could not listen may have removed its
\* watcher.pid.
THEOREM TheWatcherIsAtItsEndpoint == Spec => []EndpointOfTheWatcher
<1>1. EndpointInv => EndpointOfTheWatcher
  BY DEF EndpointInv, EndpointOfTheWatcher, FilesOfTheServing, Marker
<1> QED
  BY <1>1, TypeInit, TypeStep, EndpointInit, EndpointStep, PTL DEF Spec

(***************************************************************************)
(* One daemon.                                                             *)
(***************************************************************************)
\* Nobody has removed the name of the lock file: restarts may be on their way, and may
\* have ended daemons and removed files.
LockFileStays == \A x \in Restarter : pc[x] \in {"idle", "wait", "unsock", "unpid", "unlink"}

LEMMA LockFileStaysBefore ==
  ASSUME TypeOK, [Next]_vars, LockFileStays'
  PROVE  LockFileStays /\ \A x \in Restarter : ~ RemoveLockFile(x)
<1> DEFINE Early == {"idle", "wait", "unsock", "unpid", "unlink"}
<1>1. \A x \in Restarter : ~ RemoveLockFile(x)
  BY ProcessKinds DEF RemoveLockFile, GoTo, TypeOK, LockFileStays
<1>2. \A x \in Restarter : pc[x] \in Early
  <2>1. ASSUME NEW c \in Client, Ensure(c) \/ Leave(c) PROVE \A x \in Restarter : pc[x] \in Early
    <3>1. \E where \in {"ping", "done", "lock", "check", "release", "spawn", "gone"} : GoTo(c, where)
      BY <2>1 DEF Ensure, Ping, TryLock, PingAgain, Spawn, Release, Leave, Rest
    <3> QED
      BY <3>1, ProcessKinds DEF GoTo, TypeOK, LockFileStays
  <2>2. ASSUME NEW d \in Daemon, DaemonStep(d) \/ Crash(d) PROVE \A x \in Restarter : pc[x] \in Early
    <3>1. pc' = pc
      BY <2>2 DEF DaemonStep, Start, WritePid, Listen, ListenFails, RemoveMarker, PingExpires, CloseListener,
         RemoveFiles, Exit, Crash
    <3> QED
      BY <3>1 DEF LockFileStays
  <2>3. ASSUME NEW y \in Restarter, Restart(y) PROVE \A x \in Restarter : pc[x] \in Early
    <3>1. pc[y] \in Early /\ \E where : GoTo(y, where)
      BY <2>3 DEF Restart, Terminate, Stopped, RemoveSocket, RemovePid, RemoveLockFile
    <3> QED
      BY <3>1, ProcessKinds DEF GoTo, TypeOK, LockFileStays
  <2>4. CASE UNCHANGED vars
    BY <2>4 DEF vars, LockFileStays
  <2> QED
    BY <2>1, <2>2, <2>3, <2>4, ProcessKinds DEF Next
<1> QED
  BY <1>1, <1>2 DEF LockFileStays

LEMMA OneLockFileStep ==
  ASSUME TypeOK, LockFileStays => OneLockFile, [Next]_vars, LockFileStays'
  PROVE  OneLockFile'
<1>1. OneLockFile /\ \A x \in Restarter : ~ RemoveLockFile(x)
  BY LockFileStaysBefore
<1>2. CASE Next
  <2>1. \E p \in Process : LocksChange(p)
    BY <1>1, <1>2, ClientsOnLocks, DaemonsOnLocks, RestartsOnLocks, ProcessKinds DEF Next
  <2> QED
    BY <1>1, <2>1, OneLockFileKept
<1>3. CASE UNCHANGED vars
  BY <1>1, <1>3 DEF vars, OneLockFile
<1> QED
  BY <1>2, <1>3

\* There is one daemon per project, whatever daemons crash and whatever a restart has
\* ended, until a restart removes the lock file while it is locked
\* (_cli/_watch.py, the unlink of watcher.lock): nothing else in these programs breaks it.
THEOREM OneDaemonUntilUnlink == Spec => [](LockFileStays => OneDaemonPerProject)
<1> DEFINE Inv == LockFileStays => OneLockFile
<1>1. Init => Inv
  BY DEF Init, OneLockFile
<1>2. TypeOK /\ Inv /\ [Next]_vars => Inv'
  BY OneLockFileStep
<1>3. TypeOK /\ Inv => (LockFileStays => OneDaemonPerProject)
  BY AloneBooted DEF OneDaemonPerProject
<1> HIDE DEF Inv
<1> QED
  BY <1>1, <1>2, <1>3, TypeInit, TypeStep, PTL DEF Spec
=============================================================================
