----------------------------- MODULE ToolServerProofs -----------------------------
(***************************************************************************)
(* Theorems about ToolServer, for any number of calls, deletions and       *)
(* faults.                                                                 *)
(***************************************************************************)
EXTENDS ToolServer, SequenceTheorems, TLAPS

USE ToolServerAssumption

\* A thread that has no executor yet, or no longer, has no local state.
NoLocalYet ==
  \A c \in Call : pc[c] \in Waiting \cup {"resolve", "registry", "invalidate", "unlink", "done"}
                    => local[c] = NoLocal

TypeInv == TypeOK /\ NoLocalYet

(***************************************************************************)
(* Updates of one place.                                                   *)
(***************************************************************************)
LEMMA ExecutorUpdate ==
  ASSUME executors \in Seq(Executor), NEW e \in 1 .. Len(executors), NEW new \in Executor
  PROVE  /\ [executors EXCEPT ![e] = new] \in Seq(Executor)
         /\ Len([executors EXCEPT ![e] = new]) = Len(executors)
         /\ \A d \in 1 .. Len(executors) :
              [executors EXCEPT ![e] = new][d] = IF d = e THEN new ELSE executors[d]
<1>. HIDE DEF Executor
<1>. QED
  BY ExceptSeq

(***************************************************************************)
(* TypeOK in parts, and the parts that an action keeps.                    *)
(***************************************************************************)
DiskOK == file \in 0 .. created /\ created \in Nat /\ seen \in [Call -> SUBSET Nat]
ServerOK ==
  /\ slot \in Call \cup {NoCall} /\ pc \in [Call -> Place]
  /\ reply \in [Call -> {"none", "busy", "ok", "error", "timeout"}]
  /\ left \in [deletes : 0 .. MaxDeletes, faults : 0 .. MaxFaults]
ExecutorsOK ==
  /\ executors \in Seq(Executor) /\ registry \in 0 .. Len(executors)
  /\ registryLock \in Call \cup {NoCall} /\ local \in [Call -> Local]
LocksOK(c) ==
  /\ Executing(c) \/ Opening(c) \/ pc[c] = "lock" => Mine(c) # 0
  /\ Executing(c) => executors[Mine(c)].lock = c
  /\ Opening(c) => registryLock = c

LEMMA TypeParts == TypeOK <=> DiskOK /\ ServerOK /\ ExecutorsOK /\ \A c \in Call : LocksOK(c)
BY DEF TypeOK, DiskOK, ServerOK, ExecutorsOK, LocksOK

\* A thread whose place, local state and executor stay keeps its locks.
LEMMA OthersKeepLocks ==
  ASSUME NEW d \in Call, LocksOK(d), pc'[d] = pc[d], local'[d] = local[d],
         Executing(d) => executors'[Mine(d)].lock = executors[Mine(d)].lock,
         Opening(d) => registryLock' = registryLock
  PROVE  LocksOK(d)'
BY DEF LocksOK, Executing, Opening, Mine

LEMMA TypeInit == Init => TypeInv
<1>. SUFFICES ASSUME Init PROVE TypeInv
  OBVIOUS
<1>1. DiskOK
  BY DEF Init, DiskOK
<1>2. ServerOK
  BY DEF Init, ServerOK, Place, Waiting
<1>3. ExecutorsOK
  <2>1. executors = << >> /\ Len(executors) = 0
    BY DEF Init
  <2>2. NoLocal \in Local
    BY <2>1 DEF NoLocal, Local
  <2>. QED
    BY <2>1, <2>2 DEF Init, ExecutorsOK
<1>4. \A c \in Call : LocksOK(c)
  BY DEF Init, LocksOK, Executing, Opening
<1>5. NoLocalYet
  BY DEF Init, NoLocalYet
<1>. QED
  BY <1>1, <1>2, <1>3, <1>4, <1>5, TypeParts DEF TypeInv

(***************************************************************************)
(* A step of one call: what is left to show for TypeInv'.                  *)
(***************************************************************************)
NoLocalPlaces == Waiting \cup {"resolve", "registry", "invalidate", "unlink", "done"}

LEMMA OneCallTypes ==
  ASSUME TypeInv, NEW c \in Call, NEW w \in Place, NEW l,
         pc' = [pc EXCEPT ![c] = w], local' = [local EXCEPT ![c] = l], l \in Local',
         w \in NoLocalPlaces => l = NoLocal,
         DiskOK',
         slot' \in Call \cup {NoCall},
         reply' \in [Call -> {"none", "busy", "ok", "error", "timeout"}],
         left' \in [deletes : 0 .. MaxDeletes, faults : 0 .. MaxFaults],
         executors' \in Seq(Executor), Len(executors') >= Len(executors),
         registry' \in 0 .. Len(executors'), registryLock' \in Call \cup {NoCall},
         LocksOK(c)',
         \A d \in Call : d # c /\ Executing(d) => executors'[Mine(d)].lock = d,
         \A d \in Call : d # c /\ Opening(d) => registryLock' = d
  PROVE  TypeInv'
<1>1. ServerOK'
  BY DEF ServerOK, TypeInv, TypeOK
<1>2. ExecutorsOK'
  <2>1. Local \subseteq Local'
    <3>1. Len(executors) \in Nat /\ Len(executors') \in Nat
      BY DEF TypeInv, TypeOK
    <3>. QED
      BY <3>1 DEF Local
  <2>2. local' \in [Call -> Local']
    <3>. HIDE DEF Local
    <3>. QED
      BY <2>1 DEF TypeInv, TypeOK
  <2>. QED
    BY <2>2 DEF ExecutorsOK
<1>3. \A d \in Call : LocksOK(d)'
  <2>. SUFFICES ASSUME NEW d \in Call, d # c PROVE LocksOK(d)'
    OBVIOUS
  <2>1. pc'[d] = pc[d] /\ local'[d] = local[d]
    BY DEF TypeInv, TypeOK
  <2>2. LocksOK(d)
    BY TypeParts DEF TypeInv
  <2>. QED
    BY <2>1, <2>2 DEF LocksOK, Executing, Opening, Mine
<1>4. NoLocalYet'
  BY DEF NoLocalYet, NoLocalPlaces, TypeInv, TypeOK
<1>. QED
  BY <1>1, <1>2, <1>3, <1>4 DEF TypeInv, TypeOK, DiskOK, ServerOK, ExecutorsOK, LocksOK

\* Executors that stay keep the locks of the others.
LEMMA SameExecutors ==
  ASSUME TypeInv
  PROVE  /\ executors \in Seq(Executor) /\ Len(executors) \in Nat /\ registry \in 0 .. Len(executors)
         /\ \A d \in Call : /\ Executing(d) => executors[Mine(d)].lock = d
                            /\ Opening(d) => registryLock = d
                            /\ local[d] \in Local /\ pc[d] \in Place
                            /\ Executing(d) \/ Opening(d) \/ pc[d] = "lock" => Mine(d) \in 1 .. Len(executors)
<1>. SUFFICES ASSUME NEW d \in Call
     PROVE  /\ Executing(d) => executors[Mine(d)].lock = d
            /\ Opening(d) => registryLock = d
            /\ local[d] \in Local /\ pc[d] \in Place
            /\ Executing(d) \/ Opening(d) \/ pc[d] = "lock" => Mine(d) \in 1 .. Len(executors)
  BY DEF TypeInv, TypeOK
<1>1. local[d] \in Local /\ pc[d] \in Place
  <2>. HIDE DEF Local, Place
  <2>. QED
    BY DEF TypeInv, TypeOK
<1>2. Mine(d) \in 0 .. Len(executors)
  BY <1>1 DEF Local, Mine
<1>. QED
  BY <1>1, <1>2 DEF TypeInv, TypeOK

\* One executor changes: its lock stays, or was free or held by the call that steps.
LEMMA ChangedExecutor ==
  ASSUME TypeInv, NEW c \in Call, NEW e \in 1 .. Len(executors), NEW new \in Executor,
         executors' = [executors EXCEPT ![e] = new],
         new.lock = executors[e].lock \/ executors[e].lock \in {NoCall, c}
  PROVE  /\ executors' \in Seq(Executor) /\ Len(executors') = Len(executors)
         /\ executors'[e] = new
         /\ \A d \in 1 .. Len(executors) : d # e => executors'[d] = executors[d]
         /\ \A d \in Call : d # c /\ Executing(d) => executors'[Mine(d)].lock = d
<1>1. /\ executors' \in Seq(Executor) /\ Len(executors') = Len(executors)
      /\ \A d \in 1 .. Len(executors) : executors'[d] = IF d = e THEN new ELSE executors[d]
  <2>. HIDE DEF Executor
  <2>. QED
    BY SameExecutors, ExecutorUpdate
<1>2. ASSUME NEW d \in Call, d # c, Executing(d) PROVE executors'[Mine(d)].lock = d
  <2>1. executors[Mine(d)].lock = d /\ Mine(d) \in 1 .. Len(executors)
    BY <1>2, SameExecutors
  <2>2. d # NoCall
    OBVIOUS
  <2>. QED
    BY <2>1, <2>2, <1>1, <1>2
<1>. QED
  BY <1>1, <1>2

\* The executor of a call that uses one.
LEMMA MyExecutor ==
  ASSUME TypeInv, NEW c \in Call, Executing(c) \/ Opening(c) \/ pc[c] = "lock"
  PROVE  /\ Mine(c) \in 1 .. Len(executors) /\ executors[Mine(c)] \in Executor
         /\ Mine(c) = local[c].mine
         /\ executors[Mine(c)] = [open |-> executors[Mine(c)].open, conn |-> executors[Mine(c)].conn,
                                  identity |-> executors[Mine(c)].identity, lock |-> executors[Mine(c)].lock,
                                  moved |-> executors[Mine(c)].moved]
<1>1. Mine(c) \in 1 .. Len(executors)
  BY SameExecutors
<1>2. executors[Mine(c)] \in Executor
  <2>. HIDE DEF Executor
  <2>. QED
    BY <1>1, SameExecutors, ElementOfSeq
<1>. QED
  BY <1>1, <1>2 DEF Executor, Mine

\* A step that leaves the executors alone.
LEMMA KeptExecutors ==
  ASSUME TypeInv, executors' = executors, registry' = registry, registryLock' = registryLock
  PROVE  /\ executors' \in Seq(Executor) /\ Len(executors') >= Len(executors) /\ Local' = Local
         /\ registry' \in 0 .. Len(executors') /\ registryLock' \in Call \cup {NoCall}
         /\ \A d \in Call : Executing(d) => executors'[Mine(d)].lock = d
         /\ \A d \in Call : Opening(d) => registryLock' = d
<1>1. registryLock \in Call \cup {NoCall}
  BY DEF TypeInv, TypeOK
<1>2. Local' = Local
  BY DEF Local
<1>. QED
  BY <1>1, <1>2, SameExecutors

LEMMA RestTypes ==
  ASSUME TypeInv
  PROVE  /\ slot \in Call \cup {NoCall} /\ registryLock \in Call \cup {NoCall}
         /\ reply \in [Call -> {"none", "busy", "ok", "error", "timeout"}]
         /\ left \in [deletes : 0 .. MaxDeletes, faults : 0 .. MaxFaults]
BY DEF TypeInv, TypeOK

\* What the end of a call leaves.
LEMMA EndTypes ==
  ASSUME TypeInv, NEW c \in Call, NEW result \in {"ok", "error"}, NEW history \in [Call -> SUBSET Nat],
         EndsHavingSeen(c, result, history)
  PROVE  /\ pc' = [pc EXCEPT ![c] = "done"] /\ local' = [local EXCEPT ![c] = NoLocal]
         /\ slot' \in Call \cup {NoCall}
         /\ reply' \in [Call -> {"none", "busy", "ok", "error", "timeout"}]
         /\ seen' \in [Call -> SUBSET Nat]
         /\ pc'[c] = "done" /\ LocksOK(c)'
<1>1. pc' = [pc EXCEPT ![c] = "done"] /\ local' = [local EXCEPT ![c] = NoLocal]
  BY DEF EndsHavingSeen, GoTo
<1>2. pc'[c] = "done"
  BY <1>1 DEF TypeInv, TypeOK
<1>3. seen' \in [Call -> SUBSET Nat]
  BY DEF EndsHavingSeen
<1>4. slot' \in Call \cup {NoCall} /\ reply' \in [Call -> {"none", "busy", "ok", "error", "timeout"}]
  <2>1. slot \in Call \cup {NoCall} /\ reply \in [Call -> {"none", "busy", "ok", "error", "timeout"}]
    BY DEF TypeInv, TypeOK
  <2>. QED
    BY <2>1 DEF EndsHavingSeen
<1>5. LocksOK(c)'
  BY <1>2 DEF LocksOK, Executing, Opening
<1>. QED
  BY <1>1, <1>2, <1>3, <1>4, <1>5

LEMMA NoLocalIsLocal == ASSUME TypeInv PROVE NoLocal \in Local
BY SameExecutors DEF NoLocal, Local

LEMMA SeeingType ==
  ASSUME TypeInv, NEW new \in Nat PROVE Seeing(new) \in [Call -> SUBSET Nat]
BY DEF Seeing, TypeInv, TypeOK

(***************************************************************************)
(* The wrapper.                                                            *)
(***************************************************************************)
LEMMA WrapperTypes ==
  ASSUME TypeInv, NEW c \in Call, Arrive(c) \/ Busy(c) \/ Acquire(c)
  PROVE  TypeInv'
<1>1. /\ executors' = executors /\ registry' = registry /\ registryLock' = registryLock
      /\ local' = local /\ left' = left /\ file' = file /\ created' = created
  BY DEF Arrive, Busy, Acquire, disk, server, registered
<1>2. \E w \in {"slot", "done", "resolve"} : pc' = [pc EXCEPT ![c] = w]
  BY DEF Arrive, Busy, Acquire, GoTo
<1>3. pc[c] \in Waiting
  BY DEF Arrive, Busy, Acquire, Waiting
<1>4. DiskOK'
  BY <1>1 DEF Arrive, Busy, Acquire, disk, TypeInv, TypeOK, DiskOK
<1>5. ServerOK'
  <2>1. pc' \in [Call -> Place]
    BY <1>2 DEF TypeInv, TypeOK, Place, Waiting
  <2>2. slot' \in Call \cup {NoCall} /\ reply' \in [Call -> {"none", "busy", "ok", "error", "timeout"}]
    BY DEF Arrive, Busy, Acquire, server, TypeInv, TypeOK
  <2>. QED
    BY <2>1, <2>2, <1>1 DEF ServerOK, TypeInv, TypeOK
<1>6. ExecutorsOK'
  BY <1>1 DEF ExecutorsOK, Local, TypeInv, TypeOK
<1>7. \A d \in Call : LocksOK(d)'
  <2>. SUFFICES ASSUME NEW d \in Call PROVE LocksOK(d)'
    OBVIOUS
  <2>1. CASE d = c
    <3>1. pc'[d] \in {"slot", "done", "resolve"}
      BY <2>1, <1>2 DEF TypeInv, TypeOK
    <3>. QED
      BY <3>1 DEF LocksOK, Executing, Opening
  <2>2. CASE d # c
    <3>1. pc'[d] = pc[d]
      BY <2>2, <1>2 DEF TypeInv, TypeOK
    <3>2. LocksOK(d)
      BY TypeParts DEF TypeInv
    <3>. QED
      BY <3>1, <3>2, <1>1, OthersKeepLocks
  <2>. QED
    BY <2>1, <2>2
<1>8. NoLocalYet'
  BY <1>1, <1>2, <1>3 DEF TypeInv, TypeOK, NoLocalYet
<1>. QED
  BY <1>4, <1>5, <1>6, <1>7, <1>8 DEF TypeInv, TypeOK, DiskOK, ServerOK, ExecutorsOK, LocksOK

LEMMA TimeoutTypes == ASSUME TypeInv, NEW c \in Call, Timeout(c) PROVE TypeInv'
<1>1. PICK hit \in SUBSET Interruptible : pc' = [z \in Call |-> IF z \in hit THEN "interrupted" ELSE pc[z]]
  BY DEF Timeout
<1>2. /\ executors' = executors /\ registry' = registry /\ registryLock' = registryLock
      /\ local' = local /\ left' = left /\ file' = file /\ created' = created /\ seen' = seen
      /\ slot' = NoCall /\ reply' = [reply EXCEPT ![c] = "timeout"]
  BY DEF Timeout, disk, registered
<1>3. \A z \in hit : pc[z] = "running" /\ z \in Call
  BY DEF Interruptible
<1>4. DiskOK' /\ ExecutorsOK'
  BY <1>2 DEF TypeInv, TypeOK, DiskOK, ExecutorsOK, Local
<1>5. ServerOK'
  <2>1. pc' \in [Call -> Place]
    BY <1>1 DEF TypeInv, TypeOK, Place, Waiting
  <2>. QED
    BY <2>1, <1>2 DEF TypeInv, TypeOK, ServerOK
<1>6. \A d \in Call : LocksOK(d)'
  <2>. SUFFICES ASSUME NEW d \in Call PROVE LocksOK(d)'
    OBVIOUS
  <2>1. LocksOK(d)
    BY TypeParts DEF TypeInv
  <2>2. Executing(d)' = Executing(d) /\ Opening(d)' = Opening(d) /\ (pc'[d] = "lock" <=> pc[d] = "lock")
    BY <1>1, <1>2, <1>3 DEF Executing, Opening
  <2>. QED
    BY <2>1, <2>2, <1>2 DEF LocksOK, Mine
<1>7. NoLocalYet'
  BY <1>1, <1>2 DEF TypeInv, TypeOK, NoLocalYet, Waiting
<1>. QED
  BY <1>4, <1>5, <1>6, <1>7 DEF TypeInv, TypeOK, DiskOK, ServerOK, ExecutorsOK, LocksOK

(***************************************************************************)
(* The handler.                                                            *)
(***************************************************************************)
LEMMA ResolveTypes == ASSUME TypeInv, NEW c \in Call, Resolve(c) PROVE TypeInv'
<1>1. /\ file' = file /\ created' = created /\ left' = left
      /\ executors' = executors /\ registry' = registry /\ registryLock' = registryLock
  BY DEF Resolve, registered
<1>2. Local' = Local /\ pc[c] = "resolve" /\ local[c] = NoLocal
  BY <1>1 DEF Local, Resolve, TypeInv, NoLocalYet
<1>3. CASE file = 0
  <2>1. EndsHavingSeen(c, "error", seen)
    BY <1>3 DEF Resolve, Ends
  <2>2. seen \in [Call -> SUBSET Nat]
    BY DEF TypeInv, TypeOK
  <2>3. DiskOK'
    BY <2>1, <2>2, <1>1, EndTypes DEF DiskOK, TypeInv, TypeOK
  <2>. QED
    BY <2>1, <2>2, <2>3, <1>1, <1>2, EndTypes, NoLocalIsLocal, KeptExecutors, RestTypes, OneCallTypes
       DEF Place
<1>4. CASE file # 0
  <2>1. PICK w \in {"invalidate", "registry"} : pc' = [pc EXCEPT ![c] = w]
    BY <1>4 DEF Resolve, GoTo
  <2>2. local' = local /\ seen' = seen /\ slot' = slot /\ reply' = reply
    BY <1>4 DEF Resolve, server
  <2>3. local' = [local EXCEPT ![c] = NoLocal]
    BY <2>2, <1>2 DEF TypeInv, TypeOK
  <2>4. DiskOK'
    BY <2>2, <1>1 DEF DiskOK, TypeInv, TypeOK
  <2>5. pc'[c] = w
    BY <2>1 DEF TypeInv, TypeOK
  <2>6. LocksOK(c)'
    BY <2>5 DEF LocksOK, Executing, Opening
  <2>7. w \in Place
    BY DEF Place
  <2>. QED
    BY <2>1, <2>2, <2>3, <2>4, <2>6, <2>7, <1>1, <1>2, NoLocalIsLocal, KeptExecutors, RestTypes, OneCallTypes
<1>. QED
  BY <1>3, <1>4

LEMMA GetExecutorTypes == ASSUME TypeInv, NEW c \in Call, GetExecutor(c) PROVE TypeInv'
<1>1. /\ file' = file /\ created' = created /\ seen' = seen /\ left' = left
      /\ slot' = slot /\ reply' = reply /\ registry' = registry
  BY DEF GetExecutor, disk, server
<1>2. pc[c] = "registry" /\ local[c] = NoLocal /\ registryLock = NoCall
  BY DEF GetExecutor, TypeInv, NoLocalYet
<1>3. DiskOK'
  BY <1>1 DEF DiskOK, TypeInv, TypeOK
<1>4. CASE registry # 0
  <2>1. executors' = executors /\ registryLock' = registryLock
    BY <1>4 DEF GetExecutor
  <2>2. pc' = [pc EXCEPT ![c] = "lock"] /\ local' = [local EXCEPT ![c].mine = registry]
    BY <1>4 DEF GetExecutor, GoTo
  <2>. DEFINE l == [NoLocal EXCEPT !.mine = registry]
  <2>3. local' = [local EXCEPT ![c] = l]
    BY <2>2, <1>2 DEF TypeInv, TypeOK
  <2>4. l \in Local'
    BY <2>1, SameExecutors DEF Local, NoLocal
  <2>5. pc'[c] = "lock" /\ local'[c].mine = registry
    BY <2>2, <2>3 DEF TypeInv, TypeOK, NoLocal
  <2>6. LocksOK(c)'
    BY <2>5, <1>4 DEF LocksOK, Executing, Opening, Mine
  <2>7. "lock" \in Place /\ "lock" \notin NoLocalPlaces
    BY DEF Place, NoLocalPlaces, Waiting
  <2>8. \A d \in Call : d # c /\ Executing(d) => executors'[Mine(d)].lock = d
    BY <2>1, <1>1, KeptExecutors
  <2>. HIDE DEF l
  <2>. QED
    BY <2>1, <2>2, <2>3, <2>4, <2>6, <2>7, <2>8, <1>1, <1>3, KeptExecutors, RestTypes, OneCallTypes
<1>5. CASE registry = 0
  <2>. DEFINE new == NewExecutor
              l == [NoLocal EXCEPT !.mine = Len(executors) + 1]
  <2>1. /\ executors' = Append(executors, new) /\ registryLock' = c
        /\ pc' = [pc EXCEPT ![c] = "connect"]
        /\ local' = [local EXCEPT ![c].mine = Len(executors) + 1]
    BY <1>5 DEF GetExecutor, GoTo
  <2>2. local' = [local EXCEPT ![c] = l]
    BY <2>1, <1>2 DEF TypeInv, TypeOK
  <2>3. new \in Executor
    BY DEF Executor, NewExecutor
  <2>4. /\ executors' \in Seq(Executor) /\ Len(executors') = Len(executors) + 1
        /\ \A d \in 1 .. Len(executors) : executors'[d] = executors[d]
    <3>. HIDE DEF new, Executor
    <3>. QED
      BY <2>1, <2>3, SameExecutors, AppendProperties
  <2>5. l \in Local'
    <3>1. Len(executors') = Len(executors) + 1 /\ Len(executors) \in Nat
      BY <2>4, SameExecutors
    <3>2. \A m \in 0 .. Len(executors') : [NoLocal EXCEPT !.mine = m] \in Local'
      BY <3>1 DEF NoLocal, Local
    <3>3. Len(executors) + 1 \in 0 .. Len(executors')
      BY <3>1
    <3>. QED
      BY <3>2, <3>3
  <2>6. pc'[c] = "connect" /\ local'[c] = l /\ l.mine = Len(executors) + 1 /\ l.after = "lock"
    BY <2>1, <2>2 DEF TypeInv, TypeOK, NoLocal
  <2>7. LocksOK(c)'
    BY <2>6, <2>1, SameExecutors DEF LocksOK, Executing, Opening, Mine
  <2>8. "connect" \in Place /\ "connect" \notin NoLocalPlaces
    BY DEF Place, NoLocalPlaces, Waiting
  <2>10. \A d \in Call : d # c /\ Executing(d) => executors'[Mine(d)].lock = d
    BY <2>4, SameExecutors
  <2>11. \A d \in Call : ~ Opening(d)
    BY <1>2, SameExecutors
  <2>12. registry' \in 0 .. Len(executors') /\ Len(executors') >= Len(executors)
    BY <1>1, <2>4, SameExecutors
  <2>. HIDE DEF l, new
  <2>. QED
    BY <2>1, <2>2, <2>4, <2>5, <2>7, <2>8, RestTypes, <2>10, <2>11, <2>12, <1>1, <1>3, OneCallTypes
<1>. QED
  BY <1>4, <1>5

LEMMA ConnectTypes == ASSUME TypeInv, NEW c \in Call, Connect(c) PROVE TypeInv'
<1>1. /\ slot' = slot /\ reply' = reply /\ left' = left
      /\ executors' = executors /\ registry' = registry /\ registryLock' = registryLock
      /\ pc' = [pc EXCEPT ![c] = "stat"] /\ pc[c] = "connect"
  BY DEF Connect, server, registered, GoTo
<1>2. Local' = Local /\ file \in Nat /\ created \in Nat /\ local[c] \in Local
  BY <1>1, SameExecutors DEF Local, TypeInv, TypeOK
<1>3. PICK f \in Nat : local' = [local EXCEPT ![c].opening = f]
  BY <1>2 DEF Connect
<1>. DEFINE l == [local[c] EXCEPT !.opening = f]
<1>4. local' = [local EXCEPT ![c] = l]
  BY <1>3 DEF TypeInv, TypeOK
<1>5. l \in Local'
  BY <1>2 DEF Local
<1>6. DiskOK'
  <2>1. CASE file = 0
    <3>1. file' = created + 1 /\ created' = created + 1 /\ seen' = Seeing(created + 1)
      BY <2>1 DEF Connect, PutFile
    <3>. QED
      BY <3>1, <1>2, SeeingType DEF DiskOK
  <2>2. CASE file # 0
    BY <2>2 DEF Connect, disk, DiskOK, TypeInv, TypeOK
  <2>. QED
    BY <2>1, <2>2
<1>7. pc'[c] = "stat" /\ local'[c].mine = local[c].mine /\ local'[c].after = local[c].after
  BY <1>1, <1>2, <1>4 DEF TypeInv, TypeOK, Local
<1>8. LocksOK(c)'
  <2>1. LocksOK(c)
    BY TypeParts DEF TypeInv
  <2>. QED
    BY <2>1, <1>1, <1>7 DEF LocksOK, Executing, Opening, Mine
<1>9. "stat" \in Place /\ "stat" \notin NoLocalPlaces
  BY DEF Place, NoLocalPlaces, Waiting
<1>. HIDE DEF l
<1>. QED
  BY <1>1, <1>4, <1>5, <1>6, <1>8, <1>9, KeptExecutors, RestTypes, OneCallTypes

LEMMA StatTypes == ASSUME TypeInv, NEW c \in Call, Stat(c) PROVE TypeInv'
<1>. DEFINE new == [executors[Mine(c)] EXCEPT !.open = TRUE, !.conn = local[c].opening, !.identity = file,
                                              !.moved = local[c].opening # file]
<1>1. /\ file' = file /\ created' = created /\ seen' = seen /\ left' = left
      /\ slot' = slot /\ reply' = reply /\ local' = local /\ pc[c] = "stat"
      /\ pc' = [pc EXCEPT ![c] = local[c].after]
      /\ executors' = [executors EXCEPT ![Mine(c)] = new]
  BY DEF Stat, disk, server, GoTo
<1>2. Executing(c) \/ Opening(c)
  BY <1>1, SameExecutors DEF Executing, Opening, Local
<1>3. local[c] \in Local /\ file \in Nat /\ local[c].opening \in Nat /\ local[c].after \in {"lock", "query"}
  BY SameExecutors DEF Local, TypeInv, TypeOK
<1>4. new \in Executor /\ new.lock = executors[Mine(c)].lock
  BY <1>2, <1>3, MyExecutor DEF Executor
<1>5. /\ executors' \in Seq(Executor) /\ Len(executors') = Len(executors)
      /\ executors'[Mine(c)] = new
      /\ \A d \in Call : d # c /\ Executing(d) => executors'[Mine(d)].lock = d
  <2>. HIDE DEF new
  <2>. QED
    BY <1>1, <1>2, <1>4, MyExecutor, ChangedExecutor
<1>6. DiskOK' /\ local' = [local EXCEPT ![c] = local[c]]
  BY <1>1 DEF DiskOK, TypeInv, TypeOK
<1>7. local[c] \in Local'
  BY <1>3, <1>5 DEF Local
<1>8. pc'[c] = local[c].after /\ local[c].after \in Place /\ local[c].after \notin NoLocalPlaces
  BY <1>1, <1>3 DEF TypeInv, TypeOK, Place, NoLocalPlaces, Waiting
<1>9. LocksOK(c)'
  <2>1. LocksOK(c)
    BY TypeParts DEF TypeInv
  <2>. QED
    BY <2>1, <1>1, <1>2, <1>3, <1>4, <1>5, <1>8 DEF LocksOK, Executing, Opening, Mine
<1>10. registry' \in 0 .. Len(executors') /\ registryLock' \in Call \cup {NoCall}
  <2>1. registryLock \in Call \cup {NoCall}
    BY DEF TypeInv, TypeOK
  <2>2. Mine(c) \in 1 .. Len(executors)
    BY <1>2, MyExecutor
  <2>3. \/ registry' = Mine(c) /\ registryLock' = NoCall
        \/ registry' = registry /\ registryLock' = registryLock
    BY DEF Stat
  <2>. QED
    BY <2>1, <2>2, <2>3, <1>5, SameExecutors
<1>11. \A d \in Call : d # c /\ Opening(d) => registryLock' = d
  <2>. SUFFICES ASSUME NEW d \in Call, d # c, Opening(d) PROVE registryLock' = d
    OBVIOUS
  <2>1. registryLock = d
    BY SameExecutors
  <2>2. ~ Opening(c)
    BY <2>1, SameExecutors
  <2>3. local[c].after # "lock"
    BY <2>2, <1>1 DEF Opening
  <2>. QED
    BY <2>1, <2>3 DEF Stat
<1>12. Len(executors') >= Len(executors)
  BY <1>5, SameExecutors
<1>. HIDE DEF new
<1>. QED
  BY <1>1, <1>5, <1>6, <1>7, <1>8, <1>9, <1>10, <1>11, <1>12, RestTypes, OneCallTypes

(***************************************************************************)
(* execute_sync.                                                           *)
(***************************************************************************)
LEMMA LockTypes == ASSUME TypeInv, NEW c \in Call, Lock(c) PROVE TypeInv'
<1>. DEFINE new == [executors[Mine(c)] EXCEPT !.lock = c]
<1>1. /\ file' = file /\ created' = created /\ seen' = seen /\ left' = left
      /\ slot' = slot /\ reply' = reply /\ local' = local /\ pc[c] = "lock"
      /\ registry' = registry /\ registryLock' = registryLock
      /\ pc' = [pc EXCEPT ![c] = "check"] /\ executors[Mine(c)].lock = NoCall
      /\ executors' = [executors EXCEPT ![Mine(c)].lock = c]
  BY DEF Lock, disk, server, GoTo
<1>2. Mine(c) \in 1 .. Len(executors) /\ executors[Mine(c)] \in Executor
  BY <1>1, MyExecutor
<1>3. new \in Executor
  BY <1>2 DEF Executor
<1>4. executors' = [executors EXCEPT ![Mine(c)] = new]
  BY <1>1
<1>5. /\ executors' \in Seq(Executor) /\ Len(executors') = Len(executors)
      /\ executors'[Mine(c)] = new
      /\ \A d \in Call : d # c /\ Executing(d) => executors'[Mine(d)].lock = d
  <2>1. executors[Mine(c)].lock \in {NoCall, c}
    BY <1>1
  <2>. HIDE DEF new, Executor
  <2>. QED
    BY <1>2, <1>3, <1>4, <2>1, ChangedExecutor
<1>6. DiskOK' /\ local' = [local EXCEPT ![c] = local[c]] /\ pc'[c] = "check"
  BY <1>1 DEF DiskOK, TypeInv, TypeOK
<1>7. local[c] \in Local' /\ Len(executors') >= Len(executors) /\ registry' \in 0 .. Len(executors')
  BY <1>1, <1>5, SameExecutors DEF Local
<1>8. new.lock = c
  BY <1>2 DEF Executor
<1>9. LocksOK(c)'
  <2>1. Mine(c)' = Mine(c) /\ Mine(c) # 0
    BY <1>1, <1>2 DEF Mine
  <2>2. ~ Opening(c)'
    BY <1>6 DEF Opening
  <2>. HIDE DEF new
  <2>. QED
    BY <2>1, <2>2, <1>5, <1>8 DEF LocksOK
<1>10. "check" \in Place /\ "check" \notin NoLocalPlaces
  BY DEF Place, NoLocalPlaces, Waiting
<1>11. registryLock' \in Call \cup {NoCall} /\ \A d \in Call : Opening(d) => registryLock' = d
  BY <1>1, SameExecutors, RestTypes
<1>. HIDE DEF new
<1>. QED
  BY <1>1, <1>5, <1>6, <1>7, <1>9, <1>10, <1>11, RestTypes, OneCallTypes

\* The next step of a query, with the lock kept.
LEMMA GoesOnTypes ==
  ASSUME TypeInv, NEW c \in Call, pc[c] \in {"check", "health", "query"},
         NEW w \in {"health", "query", "running"}, GoTo(c, w),
         UNCHANGED <<file, created, seen, left, slot, reply, local, executors, registry, registryLock>>
  PROVE  TypeInv'
<1>1. DiskOK' /\ local' = [local EXCEPT ![c] = local[c]] /\ pc'[c] = w /\ pc' = [pc EXCEPT ![c] = w]
  BY DEF DiskOK, TypeInv, TypeOK, GoTo
<1>2. Executing(c) /\ Executing(c)' /\ ~ Opening(c)' /\ pc'[c] # "lock"
  BY <1>1 DEF Executing, Opening
<1>3. LocksOK(c)'
  <2>1. Mine(c) # 0 /\ Mine(c)' = Mine(c) /\ executors[Mine(c)].lock = c
    BY <1>2, MyExecutor, SameExecutors DEF Mine
  <2>. QED
    BY <2>1, <1>2 DEF LocksOK
<1>4. local[c] \in Local'
  BY SameExecutors, KeptExecutors
<1>5. w \in Place /\ w \notin NoLocalPlaces
  BY DEF Place, NoLocalPlaces, Waiting
<1>. QED
  BY <1>1, <1>3, <1>4, <1>5, KeptExecutors, RestTypes, OneCallTypes

\* A new connection, with the lock kept.
LEMMA ReconnectTypes ==
  ASSUME TypeInv, NEW c \in Call, pc[c] \in {"check", "health", "running"}, NEW retry \in BOOLEAN,
         Reconnects(c, retry), left' \in [deletes : 0 .. MaxDeletes, faults : 0 .. MaxFaults],
         UNCHANGED <<file, created, seen, slot, reply, registry, registryLock>>
  PROVE  TypeInv'
<1>. DEFINE new == [executors[Mine(c)] EXCEPT !.open = FALSE]
            l == [local[c] EXCEPT !.after = "query", !.retried = retry]
<1>1. /\ executors' = [executors EXCEPT ![Mine(c)].open = FALSE]
      /\ local' = [local EXCEPT ![c].after = "query", ![c].retried = retry]
      /\ pc' = [pc EXCEPT ![c] = "connect"]
  BY DEF Reconnects, GoTo
<1>2. Executing(c)
  BY DEF Executing
<1>3. Mine(c) \in 1 .. Len(executors) /\ executors[Mine(c)] \in Executor /\ executors[Mine(c)].lock = c
  BY <1>2, MyExecutor, SameExecutors
<1>4. new \in Executor /\ new.lock = c
  BY <1>3 DEF Executor
<1>5. executors' = [executors EXCEPT ![Mine(c)] = new]
  BY <1>1
<1>6. /\ executors' \in Seq(Executor) /\ Len(executors') = Len(executors)
      /\ executors'[Mine(c)] = new
      /\ \A d \in Call : d # c /\ Executing(d) => executors'[Mine(d)].lock = d
  <2>. HIDE DEF new
  <2>. QED
    BY <1>3, <1>4, <1>5, ChangedExecutor
<1>7. local' = [local EXCEPT ![c] = l] /\ local[c] \in Local
  BY <1>1, SameExecutors DEF TypeInv, TypeOK
<1>8. l \in Local'
  BY <1>6, <1>7 DEF Local
<1>9. l.mine = Mine(c) /\ l.after = "query"
  BY <1>7 DEF Local, Mine
<1>10. DiskOK' /\ pc'[c] = "connect" /\ local'[c] = l
  BY <1>1, <1>7 DEF DiskOK, TypeInv, TypeOK
<1>11. LocksOK(c)'
  <2>1. Mine(c)' = Mine(c) /\ ~ Opening(c)'
    BY <1>9, <1>10 DEF Mine, Opening
  <2>. HIDE DEF new, l
  <2>. QED
    BY <2>1, <1>3, <1>4, <1>6 DEF LocksOK
<1>12. "connect" \in Place /\ "connect" \notin NoLocalPlaces
  BY DEF Place, NoLocalPlaces, Waiting
<1>13. /\ registryLock' \in Call \cup {NoCall} /\ \A d \in Call : Opening(d) => registryLock' = d
       /\ registry' \in 0 .. Len(executors') /\ Len(executors') >= Len(executors)
  BY <1>6, SameExecutors, RestTypes
<1>. HIDE DEF new, l
<1>. QED
  BY <1>1, <1>6, <1>7, <1>8, <1>10, <1>11, <1>12, <1>13, RestTypes, OneCallTypes

\* The end of a query, with the lock released.
Releases(c) == executors' = Unlocked(Mine(c))

LEMMA EndQueryTypes ==
  ASSUME TypeInv, NEW c \in Call, Executing(c), NEW result \in {"ok", "error"}, Ends(c, result),
         Releases(c), left' \in [deletes : 0 .. MaxDeletes, faults : 0 .. MaxFaults],
         UNCHANGED <<file, created, registry, registryLock>>
  PROVE  TypeInv'
<1>. DEFINE new == [executors[Mine(c)] EXCEPT !.lock = NoCall]
<1>1. executors' = [executors EXCEPT ![Mine(c)] = new]
  BY DEF Releases, Unlocked
<1>2. Mine(c) \in 1 .. Len(executors) /\ executors[Mine(c)] \in Executor /\ executors[Mine(c)].lock = c
  BY MyExecutor, SameExecutors
<1>3. new \in Executor
  BY <1>2 DEF Executor
<1>4. /\ executors' \in Seq(Executor) /\ Len(executors') = Len(executors)
      /\ \A d \in Call : d # c /\ Executing(d) => executors'[Mine(d)].lock = d
  <2>1. executors[Mine(c)].lock \in {NoCall, c}
    BY <1>2
  <2>. HIDE DEF new, Executor
  <2>. QED
    BY <1>1, <1>2, <1>3, <2>1, ChangedExecutor
<1>5. EndsHavingSeen(c, result, seen) /\ seen \in [Call -> SUBSET Nat]
  BY DEF Ends, TypeInv, TypeOK
<1>6. DiskOK'
  BY <1>5, EndTypes DEF DiskOK, TypeInv, TypeOK
<1>7. NoLocal \in Local'
  BY <1>4, SameExecutors DEF NoLocal, Local
<1>8. "done" \in Place
  BY DEF Place
<1>9. /\ registryLock' \in Call \cup {NoCall} /\ \A d \in Call : Opening(d) => registryLock' = d
      /\ registry' \in 0 .. Len(executors') /\ Len(executors') >= Len(executors)
  BY <1>4, SameExecutors, RestTypes
<1>. HIDE DEF new
<1>. QED
  BY <1>4, <1>5, <1>6, <1>7, <1>8, <1>9, EndTypes, OneCallTypes

\* A failed open ends the call, in get_executor or inside execute_sync.
LEMMA OpenFailsTypes == ASSUME TypeInv, NEW c \in Call, OpenFails(c) PROVE TypeInv'
<1>1. /\ file' = file /\ created' = created /\ registry' = registry /\ left' = left
      /\ Ends(c, "error") /\ pc[c] \in {"connect", "stat"}
  BY DEF OpenFails
<1>2. local[c].after \in {"lock", "query"}
  BY SameExecutors DEF Local
<1>3. CASE local[c].after = "query"
  <2>1. Executing(c) /\ Releases(c) /\ registryLock' = registryLock
    BY <1>1, <1>3 DEF OpenFails, Executing, Releases
  <2>. QED
    BY <2>1, <1>1, RestTypes, EndQueryTypes
<1>4. CASE local[c].after = "lock"
  <2>1. Opening(c) /\ executors' = executors /\ registryLock' = NoCall
    BY <1>1, <1>4 DEF OpenFails, Opening
  <2>2. EndsHavingSeen(c, "error", seen) /\ seen \in [Call -> SUBSET Nat]
    BY <1>1 DEF Ends, TypeInv, TypeOK
  <2>3. DiskOK'
    BY <1>1, <2>2, EndTypes DEF DiskOK, TypeInv, TypeOK
  <2>4. NoLocal \in Local'
    BY <2>1, SameExecutors DEF NoLocal, Local
  <2>5. "done" \in Place
    BY DEF Place
  <2>6. \A d \in Call : d # c => ~ Opening(d)
    BY <2>1, SameExecutors
  <2>7. /\ executors' \in Seq(Executor) /\ Len(executors') >= Len(executors)
        /\ registry' \in 0 .. Len(executors')
        /\ \A d \in Call : Executing(d) => executors'[Mine(d)].lock = d
    BY <1>1, <2>1, SameExecutors
  <2>. QED
    BY <1>1, <2>1, <2>2, <2>3, <2>4, <2>5, <2>6, <2>7, EndTypes, RestTypes, OneCallTypes
<1>. QED
  BY <1>2, <1>3, <1>4

LEMMA QueryTypes ==
  ASSUME TypeInv, NEW c \in Call,
         CheckReindex(c) \/ HealthCheck(c) \/ StartQuery(c) \/ FinishQuery(c) \/ FatalError(c) \/ Raise(c)
  PROVE  TypeInv'
<1>1. CASE CheckReindex(c)
  <2>1. /\ pc[c] = "check" /\ left' = left
        /\ UNCHANGED <<file, created, seen, slot, reply, registry, registryLock>>
        /\ \/ Reconnects(c, FALSE)
           \/ GoTo(c, "health") /\ executors' = executors /\ local' = local
    BY <1>1 DEF CheckReindex, disk, server
  <2>. QED
    BY <2>1, GoesOnTypes, ReconnectTypes, RestTypes
<1>2. CASE HealthCheck(c)
  <2>1. /\ pc[c] = "health" /\ left' = left
        /\ UNCHANGED <<file, created, seen, slot, reply, registry, registryLock>>
        /\ \/ Reconnects(c, FALSE)
           \/ GoTo(c, "query") /\ executors' = executors /\ local' = local
    BY <1>2 DEF HealthCheck, disk, server
  <2>. QED
    BY <2>1, GoesOnTypes, ReconnectTypes, RestTypes
<1>3. CASE StartQuery(c)
  <2>1. /\ pc[c] = "query" /\ left' = left
        /\ UNCHANGED <<file, created, registry, registryLock>>
        /\ \/ Ends(c, "error") /\ Releases(c)
           \/ GoTo(c, "running") /\ UNCHANGED <<slot, reply, executors, local, seen>>
    BY <1>3 DEF StartQuery, Releases, server
  <2>2. Executing(c)
    BY <2>1 DEF Executing
  <2>. QED
    BY <2>1, <2>2, GoesOnTypes, EndQueryTypes, RestTypes
<1>4. CASE FinishQuery(c)
  <2>1. /\ Executing(c) /\ left' = left /\ UNCHANGED <<file, created, registry, registryLock>>
        /\ Ends(c, "ok") /\ Releases(c)
    BY <1>4 DEF FinishQuery, Releases, Executing
  <2>. QED
    BY <2>1, EndQueryTypes, RestTypes
<1>5. CASE FatalError(c)
  <2>1. /\ pc[c] = "running" /\ left.faults > 0 /\ left' = [left EXCEPT !.faults = @ - 1]
        /\ UNCHANGED <<file, created, registry, registryLock>>
        /\ \/ Ends(c, "error") /\ Releases(c)
           \/ Reconnects(c, TRUE) /\ UNCHANGED <<slot, reply, seen>>
    BY <1>5 DEF FatalError, Releases, server
  <2>2. left' \in [deletes : 0 .. MaxDeletes, faults : 0 .. MaxFaults]
    BY <2>1, RestTypes
  <2>3. Executing(c)
    BY <2>1 DEF Executing
  <2>. QED
    BY <2>1, <2>2, <2>3, EndQueryTypes, ReconnectTypes
<1>6. CASE Raise(c)
  <2>1. /\ Executing(c) /\ left' = left /\ UNCHANGED <<file, created, registry, registryLock>>
        /\ Ends(c, "error") /\ Releases(c)
    BY <1>6 DEF Raise, Releases, Executing
  <2>. QED
    BY <2>1, EndQueryTypes, RestTypes
<1>. QED
  BY <1>1, <1>2, <1>3, <1>4, <1>5, <1>6

(***************************************************************************)
(* reset_index, and the other processes.                                   *)
(***************************************************************************)
LEMMA InvalidateTypes == ASSUME TypeInv, NEW c \in Call, Invalidate(c) PROVE TypeInv'
<1>1. /\ file' = file /\ created' = created /\ seen' = seen /\ left' = left
      /\ slot' = slot /\ reply' = reply /\ local' = local /\ pc[c] = "invalidate"
      /\ registry' = 0 /\ registryLock' = registryLock
      /\ pc' = [pc EXCEPT ![c] = "unlink"]
  BY DEF Invalidate, disk, server, GoTo
<1>2. /\ executors' \in Seq(Executor) /\ Len(executors') = Len(executors)
      /\ \A d \in Call : d # c /\ Executing(d) => executors'[Mine(d)].lock = d
  <2>1. CASE registry = 0
    BY <2>1, SameExecutors DEF Invalidate
  <2>2. CASE registry # 0
    <3>. DEFINE new == [executors[registry] EXCEPT !.open = FALSE]
    <3>1. executors' = [executors EXCEPT ![registry] = new]
      BY <2>2 DEF Invalidate
    <3>2. registry \in 1 .. Len(executors)
      BY <2>2, SameExecutors
    <3>3. executors[registry] \in Executor
      <4>. HIDE DEF Executor
      <4>. QED
        BY <3>2, SameExecutors, ElementOfSeq
    <3>4. new \in Executor /\ new.lock = executors[registry].lock
      BY <3>3 DEF Executor
    <3>. HIDE DEF new
    <3>. QED
      BY <3>1, <3>2, <3>4, ChangedExecutor
  <2>. QED
    BY <2>1, <2>2
<1>3. DiskOK' /\ local' = [local EXCEPT ![c] = NoLocal] /\ pc'[c] = "unlink"
  BY <1>1 DEF DiskOK, TypeInv, TypeOK, NoLocalYet
<1>4. NoLocal \in Local' /\ Len(executors') >= Len(executors) /\ registry' \in 0 .. Len(executors')
  BY <1>1, <1>2, SameExecutors DEF Local, NoLocal
<1>5. LocksOK(c)'
  BY <1>3 DEF LocksOK, Executing, Opening
<1>6. "unlink" \in Place
  BY DEF Place
<1>7. registryLock' \in Call \cup {NoCall} /\ \A d \in Call : Opening(d) => registryLock' = d
  BY <1>1, SameExecutors, RestTypes
<1>. QED
  BY <1>1, <1>2, <1>3, <1>4, <1>5, <1>6, <1>7, RestTypes, OneCallTypes

LEMMA UnlinkTypes == ASSUME TypeInv, NEW c \in Call, Unlink(c) PROVE TypeInv'
<1>1. /\ file' = 0 /\ created' = created /\ left' = left
      /\ executors' = executors /\ registry' = registry /\ registryLock' = registryLock
  BY DEF Unlink, registered
<1>2. PICK result \in {"ok", "error"}, history \in {seen, Seeing(0)} : EndsHavingSeen(c, result, history)
  BY DEF Unlink, Ends
<1>3. history \in [Call -> SUBSET Nat]
  BY <1>2, SeeingType DEF TypeInv, TypeOK
<1>4. DiskOK'
  BY <1>1, <1>2, <1>3, EndTypes DEF DiskOK, TypeInv, TypeOK
<1>5. NoLocal \in Local' /\ "done" \in Place
  BY <1>1, KeptExecutors, NoLocalIsLocal DEF Place
<1>. QED
  BY <1>1, <1>2, <1>3, <1>4, <1>5, EndTypes, KeptExecutors, RestTypes, OneCallTypes

LEMMA EnvironmentTypes == ASSUME TypeInv, DeletedElsewhere \/ IndexRun PROVE TypeInv'
<1>1. /\ pc' = pc /\ slot' = slot /\ reply' = reply /\ local' = local
      /\ executors' = executors /\ registry' = registry /\ registryLock' = registryLock
  BY DEF DeletedElsewhere, IndexRun, server, registered
<1>2. left' \in [deletes : 0 .. MaxDeletes, faults : 0 .. MaxFaults]
  BY RestTypes DEF DeletedElsewhere, IndexRun
<1>3. DiskOK'
  <2>1. file \in Nat /\ created \in Nat
    BY DEF TypeInv, TypeOK
  <2>2. Seeing(0) \in [Call -> SUBSET Nat] /\ Seeing(created + 1) \in [Call -> SUBSET Nat]
    BY <2>1, SeeingType
  <2>. QED
    BY <2>1, <2>2 DEF DeletedElsewhere, IndexRun, PutFile, DiskOK, TypeInv, TypeOK
<1>4. ExecutorsOK'
  BY <1>1 DEF ExecutorsOK, Local, TypeInv, TypeOK
<1>5. \A c \in Call : LocksOK(c)'
  BY <1>1, TypeParts DEF TypeInv, LocksOK, Executing, Opening, Mine
<1>6. ServerOK' /\ NoLocalYet'
  BY <1>1, <1>2 DEF ServerOK, NoLocalYet, TypeInv, TypeOK
<1>. QED
  BY <1>3, <1>4, <1>5, <1>6 DEF TypeInv, TypeOK, DiskOK, ServerOK, ExecutorsOK, LocksOK

LEMMA TypeStep == ASSUME TypeInv, [Next]_vars PROVE TypeInv'
<1>1. CASE UNCHANGED vars
  BY <1>1 DEF vars, TypeInv, TypeOK, NoLocalYet, Local, Executing, Opening, Mine
<1>2. CASE DeletedElsewhere \/ IndexRun
  BY <1>2, EnvironmentTypes
<1>3. ASSUME NEW c \in Call, Arrive(c) \/ Busy(c) \/ Acquire(c) \/ Timeout(c) PROVE TypeInv'
  BY <1>3, WrapperTypes, TimeoutTypes
<1>4. ASSUME NEW c \in Call, Thread(c) PROVE TypeInv'
  BY <1>4, ResolveTypes, GetExecutorTypes, ConnectTypes, StatTypes, OpenFailsTypes, LockTypes, QueryTypes,
     InvalidateTypes, UnlinkTypes DEF Thread
<1>. QED
  BY <1>1, <1>2, <1>3, <1>4 DEF Next

\* The types hold in every reachable state, and with them the locks: no two threads
\* are inside execute_sync of one executor (executor.py execute_sync).
THEOREM TypeCorrect == Spec => []TypeOK
<1>1. TypeInv /\ [Next]_vars => TypeInv'
  BY TypeStep
<1>. QED
  BY <1>1, TypeInit, PTL DEF Spec, TypeInv

(***************************************************************************)
(* FreshReads: what a connection is on, and what its identity says of it.  *)
(***************************************************************************)
FreshAt(c) ==
  /\ pc[c] = "stat" => local[c].opening # 0
  /\ Running(c) => file \in seen[c]
  /\ pc[c] = "lock" \/ Executing(c) => executors[Mine(c)].conn # 0
  /\ Opening(c) => executors[Mine(c)].conn = 0
  /\ pc[c] \in {"health", "query", "running"} =>
       \/ Fresh(c)
       \/ executors[Mine(c)].moved /\ executors[Mine(c)].identity \in seen[c] \cup {0}

Identified ==
  /\ \A e \in 1 .. Len(executors) : ~ executors[e].moved => executors[e].identity = executors[e].conn
  /\ registry # 0 => executors[registry].conn # 0

FreshInv == Identified /\ \A c \in Call : FreshAt(c)

\* No connection moves to another file.
ConnsKept ==
  /\ Len(executors') >= Len(executors)
  /\ \A e \in 1 .. Len(executors) : /\ executors'[e].conn = executors[e].conn
                                    /\ executors'[e].identity = executors[e].identity
                                    /\ executors'[e].moved = executors[e].moved
  /\ \A e \in 1 .. Len(executors') : e > Len(executors) => executors'[e].conn = executors'[e].identity

LEMMA OtherFresh ==
  ASSUME TypeInv, NEW d \in Call, FreshAt(d), ConnsKept, file' = file,
         pc'[d] = pc[d], local'[d] = local[d], seen'[d] = seen[d]
  PROVE  FreshAt(d)'
<1>1. Executing(d)' = Executing(d) /\ Opening(d)' = Opening(d) /\ Running(d)' = Running(d) /\ Mine(d)' = Mine(d)
  BY DEF Executing, Opening, Running, Mine
<1>2. pc[d] \in {"health", "query", "running"} => Executing(d)
  BY DEF Executing
<1>3. Executing(d) \/ Opening(d) \/ pc[d] = "lock" =>
         /\ executors'[Mine(d)].conn = executors[Mine(d)].conn
         /\ executors'[Mine(d)].identity = executors[Mine(d)].identity
         /\ executors'[Mine(d)].moved = executors[Mine(d)].moved
  BY SameExecutors DEF ConnsKept
<1>. QED
  BY <1>1, <1>2, <1>3 DEF FreshAt, Fresh

LEMMA IdentifiedKept ==
  ASSUME TypeInv, Identified, ConnsKept, registry' \in {0, registry}, Len(executors') \in Nat
  PROVE  Identified'
<1>1. \A e \in 1 .. Len(executors') : e \in 1 .. Len(executors) \/ e > Len(executors)
  BY SameExecutors
<1>2. registry # 0 => registry \in 1 .. Len(executors)
  BY SameExecutors
<1>. QED
  BY <1>1, <1>2 DEF Identified, ConnsKept

LEMMA OneCallFresh ==
  ASSUME TypeInv, FreshInv, NEW c \in Call, ConnsKept, file' = file, registry' \in {0, registry},
         Len(executors') \in Nat,
         \A d \in Call : d # c => pc'[d] = pc[d] /\ local'[d] = local[d] /\ seen'[d] = seen[d],
         FreshAt(c)'
  PROVE  FreshInv'
<1>1. ASSUME NEW d \in Call PROVE FreshAt(d)'
  BY OtherFresh DEF FreshInv
<1>. QED
  BY <1>1, IdentifiedKept DEF FreshInv

LEMMA SameConns == ASSUME TypeInv, executors' = executors PROVE ConnsKept /\ Len(executors') \in Nat
BY SameExecutors DEF ConnsKept

LEMMA FreshInit == Init => FreshInv
<1>. SUFFICES ASSUME Init PROVE FreshInv
  OBVIOUS
<1>1. Len(executors) = 0
  BY DEF Init
<1>2. Identified
  BY <1>1 DEF Init, Identified
<1>. QED
  BY <1>2 DEF Init, FreshInv, FreshAt, Running, Waiting, Executing, Opening

LEMMA WrapperFresh ==
  ASSUME TypeInv, FreshInv, NEW c \in Call, Arrive(c) \/ Busy(c) \/ Acquire(c)
  PROVE  FreshInv'
<1>1. executors' = executors /\ registry' = registry /\ local' = local /\ file' = file
  BY DEF Arrive, Busy, Acquire, disk, server, registered
<1>2. \E w \in {"slot", "done", "resolve"} : pc' = [pc EXCEPT ![c] = w]
  BY DEF Arrive, Busy, Acquire, GoTo
<1>3. pc'[c] \in {"slot", "done", "resolve"} /\ \A d \in Call : d # c => pc'[d] = pc[d]
  BY <1>2 DEF TypeInv, TypeOK
<1>4. \A d \in Call : d # c => seen'[d] = seen[d]
  BY DEF Arrive, Busy, Acquire, disk, TypeInv, TypeOK
<1>5. Running(c)' => file \in seen'[c]
  <2>1. CASE Acquire(c)
    BY <2>1 DEF Acquire, TypeInv, TypeOK
  <2>2. CASE Arrive(c) \/ Busy(c)
    <3>1. pc'[c] \in {"slot", "done"}
      BY <2>2 DEF Arrive, Busy, GoTo, TypeInv, TypeOK
    <3>. QED
      BY <3>1 DEF Running, Waiting
  <2>. QED
    BY <2>1, <2>2
<1>6. FreshAt(c)'
  BY <1>1, <1>3, <1>5 DEF FreshAt, Executing, Opening
<1>. QED
  BY <1>1, <1>3, <1>4, <1>6, SameConns, OneCallFresh

LEMMA TimeoutFresh == ASSUME TypeInv, FreshInv, NEW c \in Call, Timeout(c) PROVE FreshInv'
<1>1. PICK hit \in SUBSET Interruptible : pc' = [z \in Call |-> IF z \in hit THEN "interrupted" ELSE pc[z]]
  BY DEF Timeout
<1>2. executors' = executors /\ registry' = registry /\ local' = local /\ file' = file /\ seen' = seen
  BY DEF Timeout, disk, registered
<1>3. ASSUME NEW d \in Call PROVE FreshAt(d)'
  <2>1. CASE d \in hit
    <3>1. pc[d] = "running" /\ pc'[d] = "interrupted"
      BY <1>1, <2>1 DEF Interruptible
    <3>2. FreshAt(d)
      BY DEF FreshInv
    <3>. QED
      BY <3>1, <3>2, <1>2 DEF FreshAt, Running, Waiting, Executing, Opening, Mine
  <2>2. CASE d \notin hit
    BY <2>2, <1>1, <1>2, SameConns, OtherFresh DEF FreshInv
  <2>. QED
    BY <2>1, <2>2
<1>. QED
  BY <1>2, <1>3 DEF FreshInv, Identified

\* The end of a call that leaves the file as it is.
LEMMA EndFresh ==
  ASSUME TypeInv, FreshInv, NEW c \in Call, NEW result, Ends(c, result), ConnsKept, Len(executors') \in Nat,
         file' = file, registry' = registry
  PROVE  FreshInv'
<1>1. /\ pc' = [pc EXCEPT ![c] = "done"] /\ local' = [local EXCEPT ![c] = NoLocal]
      /\ seen' = [seen EXCEPT ![c] = {}]
  BY DEF Ends, EndsHavingSeen, GoTo
<1>2. \A d \in Call : d # c => pc'[d] = pc[d] /\ local'[d] = local[d] /\ seen'[d] = seen[d]
  BY <1>1 DEF TypeInv, TypeOK
<1>3. pc'[c] = "done"
  BY <1>1 DEF TypeInv, TypeOK
<1>4. FreshAt(c)'
  BY <1>3 DEF FreshAt, Running, Executing, Opening
<1>. QED
  BY <1>2, <1>4, OneCallFresh

LEMMA ResolveFresh == ASSUME TypeInv, FreshInv, NEW c \in Call, Resolve(c) PROVE FreshInv'
<1>1. file' = file /\ executors' = executors /\ registry' = registry
  BY DEF Resolve, registered
<1>2. CASE file = 0
  BY <1>1, <1>2, SameConns, EndFresh DEF Resolve
<1>3. CASE file # 0
  <2>1. PICK w \in {"invalidate", "registry"} : pc' = [pc EXCEPT ![c] = w]
    BY <1>3 DEF Resolve, GoTo
  <2>2. local' = local /\ seen' = seen /\ pc[c] = "resolve"
    BY <1>3 DEF Resolve
  <2>3. pc'[c] = w /\ \A d \in Call : d # c => pc'[d] = pc[d]
    BY <2>1 DEF TypeInv, TypeOK
  <2>4. FreshAt(c)'
    <3>1. FreshAt(c)
      BY DEF FreshInv
    <3>. QED
      BY <3>1, <2>2, <2>3, <1>1 DEF FreshAt, Running, Waiting, Executing, Opening
  <2>. QED
    BY <1>1, <2>2, <2>3, <2>4, SameConns, OneCallFresh
<1>. QED
  BY <1>2, <1>3

LEMMA GetExecutorFresh == ASSUME TypeInv, FreshInv, NEW c \in Call, GetExecutor(c) PROVE FreshInv'
<1>1. file' = file /\ seen' = seen /\ registry' = registry /\ pc[c] = "registry"
  BY DEF GetExecutor, disk
<1>2. FreshAt(c) /\ Identified
  BY DEF FreshInv
<1>3. file \in seen[c]
  BY <1>1, <1>2 DEF FreshAt, Running, Waiting
<1>4. CASE registry # 0
  <2>1. executors' = executors /\ pc' = [pc EXCEPT ![c] = "lock"] /\ local' = [local EXCEPT ![c].mine = registry]
    BY <1>4 DEF GetExecutor, GoTo
  <2>2. pc'[c] = "lock" /\ \A d \in Call : d # c => pc'[d] = pc[d] /\ local'[d] = local[d]
    BY <2>1 DEF TypeInv, TypeOK
  <2>3. Mine(c)' = registry
    BY <2>1, SameExecutors DEF Mine, TypeInv, TypeOK, Local
  <2>4. FreshAt(c)'
    BY <2>1, <2>2, <2>3, <1>1, <1>2, <1>3, <1>4 DEF FreshAt, Identified, Opening
  <2>. QED
    BY <1>1, <2>1, <2>2, <2>4, SameConns, OneCallFresh
<1>5. CASE registry = 0
  <2>. DEFINE new == NewExecutor
  <2>1. /\ executors' = Append(executors, new) /\ pc' = [pc EXCEPT ![c] = "connect"]
        /\ local' = [local EXCEPT ![c].mine = Len(executors) + 1]
    BY <1>5 DEF GetExecutor, GoTo
  <2>2. pc'[c] = "connect" /\ \A d \in Call : d # c => pc'[d] = pc[d] /\ local'[d] = local[d]
    BY <2>1 DEF TypeInv, TypeOK
  <2>3. /\ Len(executors') = Len(executors) + 1 /\ executors'[Len(executors) + 1] = new
        /\ \A e \in 1 .. Len(executors) : executors'[e] = executors[e]
    <3>1. new \in Executor
      BY DEF Executor, NewExecutor
    <3>. HIDE DEF new, Executor
    <3>. QED
      BY <2>1, <3>1, SameExecutors, AppendProperties
  <2>4. ConnsKept /\ Len(executors') \in Nat
    <3>1. \A e \in 1 .. Len(executors') : e > Len(executors) => e = Len(executors) + 1
      BY <2>3, SameExecutors
    <3>2. Len(executors') \in Nat /\ Len(executors') >= Len(executors)
      BY <2>3, SameExecutors
    <3>. QED
      BY <3>1, <3>2, <2>3 DEF ConnsKept, NewExecutor
  <2>5. Mine(c)' = Len(executors) + 1 /\ local'[c].after = "lock"
    BY <2>1, <1>1, SameExecutors DEF Mine, TypeInv, TypeOK, Local, NoLocalYet, NoLocal
  <2>6. FreshAt(c)'
    BY <2>2, <2>3, <2>5, <1>1, <1>3 DEF FreshAt, Executing, Opening, NewExecutor
  <2>. QED
    BY <1>1, <2>2, <2>4, <2>6, OneCallFresh
<1>. QED
  BY <1>4, <1>5

\* execute_sync between the opens: one executor changes, but not its connection.
LEMMA ExecutorKeepsConn ==
  ASSUME TypeInv, NEW e \in 1 .. Len(executors), NEW lock \in Call \cup {NoCall},
         \/ executors' = [executors EXCEPT ![e].open = FALSE]
         \/ executors' = [executors EXCEPT ![e].lock = lock]
  PROVE  ConnsKept /\ Len(executors') \in Nat
<1>1. executors[e] \in Executor
  <2>. HIDE DEF Executor
  <2>. QED
    BY SameExecutors, ElementOfSeq
<1>2. PICK new \in Executor : /\ executors' = [executors EXCEPT ![e] = new]
                              /\ new.conn = executors[e].conn /\ new.identity = executors[e].identity
                              /\ new.moved = executors[e].moved
  <2>1. [executors[e] EXCEPT !.open = FALSE] \in Executor /\ [executors[e] EXCEPT !.lock = lock] \in Executor
    BY <1>1 DEF Executor
  <2>2. /\ [executors[e] EXCEPT !.open = FALSE].conn = executors[e].conn
        /\ [executors[e] EXCEPT !.open = FALSE].identity = executors[e].identity
        /\ [executors[e] EXCEPT !.lock = lock].conn = executors[e].conn
        /\ [executors[e] EXCEPT !.lock = lock].identity = executors[e].identity
        /\ [executors[e] EXCEPT !.open = FALSE].moved = executors[e].moved
        /\ [executors[e] EXCEPT !.lock = lock].moved = executors[e].moved
    BY <1>1 DEF Executor
  <2>3. \/ executors' = [executors EXCEPT ![e] = [executors[e] EXCEPT !.open = FALSE]]
        \/ executors' = [executors EXCEPT ![e] = [executors[e] EXCEPT !.lock = lock]]
    OBVIOUS
  <2>. QED
    BY <2>1, <2>2, <2>3
<1>3. /\ Len(executors') = Len(executors)
      /\ \A d \in 1 .. Len(executors) : executors'[d] = IF d = e THEN new ELSE executors[d]
  BY <1>2, SameExecutors, ExecutorUpdate
<1>4. Len(executors) \in Nat
  BY SameExecutors
<1>. QED
  BY <1>2, <1>3, <1>4 DEF ConnsKept

LEMMA LockFresh == ASSUME TypeInv, FreshInv, NEW c \in Call, Lock(c) PROVE FreshInv'
<1>1. /\ file' = file /\ seen' = seen /\ local' = local /\ pc[c] = "lock" /\ registry' = registry
      /\ pc' = [pc EXCEPT ![c] = "check"] /\ executors' = [executors EXCEPT ![Mine(c)].lock = c]
  BY DEF Lock, disk, GoTo
<1>2. ConnsKept /\ Len(executors') \in Nat /\ Mine(c) \in 1 .. Len(executors)
  BY <1>1, MyExecutor, ExecutorKeepsConn
<1>3. pc'[c] = "check" /\ \A d \in Call : d # c => pc'[d] = pc[d]
  BY <1>1 DEF TypeInv, TypeOK
<1>4. FreshAt(c)'
  <2>1. FreshAt(c)
    BY DEF FreshInv
  <2>2. Mine(c)' = Mine(c)
    BY <1>1 DEF Mine
  <2>. QED
    BY <2>1, <2>2, <1>1, <1>2, <1>3 DEF FreshAt, ConnsKept, Running, Waiting, Opening
<1>. QED
  BY <1>1, <1>2, <1>3, <1>4, OneCallFresh

\* A step inside a query: it goes on, makes a new connection or ends.
LEMMA QueryFresh ==
  ASSUME TypeInv, FreshInv, NEW c \in Call,
         CheckReindex(c) \/ HealthCheck(c) \/ StartQuery(c) \/ FinishQuery(c) \/ FatalError(c) \/ Raise(c)
  PROVE  FreshInv'
<1>1. file' = file /\ registry' = registry
  BY DEF CheckReindex, HealthCheck, StartQuery, FinishQuery, FatalError, Raise, disk
<1>2. pc[c] \in {"check", "health", "query", "running", "interrupted"}
  BY DEF CheckReindex, HealthCheck, StartQuery, FinishQuery, FatalError, Raise
<1>3. /\ Executing(c) /\ ~ Opening(c) /\ Running(c) /\ Mine(c) \in 1 .. Len(executors)
      /\ FreshAt(c) /\ Identified
  BY <1>2, MyExecutor DEF Executing, Opening, Running, Waiting, FreshInv
<1>4. \/ \E w \in {"health", "query", "running"} :
           /\ GoTo(c, w) /\ executors' = executors /\ local' = local /\ seen' = seen
           /\ pc[c] = "check" => file = 0 \/ executors[Mine(c)].identity \in {0, file}
      \/ \E retry \in BOOLEAN : Reconnects(c, retry) /\ seen' = seen
      \/ \E result \in {"ok", "error"} : Ends(c, result) /\ executors' = Unlocked(Mine(c))
  <2>1. CASE CheckReindex(c) \/ HealthCheck(c)
    BY <2>1 DEF CheckReindex, HealthCheck, disk
  <2>2. CASE StartQuery(c) \/ FatalError(c)
    BY <2>2 DEF StartQuery, FatalError
  <2>3. CASE FinishQuery(c) \/ Raise(c)
    BY <2>3 DEF FinishQuery, Raise
  <2>. QED
    BY <2>1, <2>2, <2>3
<1>5. CASE \E w \in {"health", "query", "running"} :
             /\ GoTo(c, w) /\ executors' = executors /\ local' = local /\ seen' = seen
             /\ pc[c] = "check" => file = 0 \/ executors[Mine(c)].identity \in {0, file}
  <2>1. PICK w \in {"health", "query", "running"} :
          /\ GoTo(c, w) /\ executors' = executors /\ local' = local /\ seen' = seen
          /\ pc[c] = "check" => file = 0 \/ executors[Mine(c)].identity \in {0, file}
    BY <1>5
  <2>2. pc'[c] = w /\ \A d \in Call : d # c => pc'[d] = pc[d]
    BY <2>1 DEF GoTo, TypeInv, TypeOK
  <2>3. pc[c] \in {"check", "health", "query", "running"} =>
          \/ Fresh(c)
          \/ executors[Mine(c)].moved /\ executors[Mine(c)].identity \in seen[c] \cup {0}
    <3>1. /\ ~ executors[Mine(c)].moved => executors[Mine(c)].identity = executors[Mine(c)].conn
          /\ executors[Mine(c)].conn # 0
      BY <1>3 DEF FreshAt, Identified
    <3>2. file \in seen[c]
      BY <1>3 DEF FreshAt
    <3>. QED
      BY <3>1, <3>2, <1>3, <2>1 DEF FreshAt, Fresh
  <2>4. pc[c] # "interrupted"
    BY <1>5 DEF CheckReindex, HealthCheck, StartQuery, FinishQuery, FatalError, Raise, Ends, EndsHavingSeen,
       GoTo, TypeInv, TypeOK
  <2>5. FreshAt(c)'
    <3>1. Mine(c)' = Mine(c)
      BY <2>1 DEF Mine
    <3>. QED
      BY <3>1, <2>1, <2>2, <2>3, <2>4, <1>1, <1>2, <1>3 DEF FreshAt, Fresh, Opening
  <2>. QED
    BY <1>1, <2>1, <2>2, <2>5, SameConns, OneCallFresh
<1>6. CASE \E retry \in BOOLEAN : Reconnects(c, retry) /\ seen' = seen
  <2>1. PICK retry \in BOOLEAN : Reconnects(c, retry) /\ seen' = seen
    BY <1>6
  <2>2. /\ executors' = [executors EXCEPT ![Mine(c)].open = FALSE] /\ pc' = [pc EXCEPT ![c] = "connect"]
        /\ local' = [local EXCEPT ![c].after = "query", ![c].retried = retry]
    BY <2>1 DEF Reconnects, GoTo
  <2>3. ConnsKept /\ Len(executors') \in Nat
    BY <2>2, <1>3, ExecutorKeepsConn
  <2>4. pc'[c] = "connect" /\ \A d \in Call : d # c => pc'[d] = pc[d] /\ local'[d] = local[d]
    BY <2>2 DEF TypeInv, TypeOK
  <2>5. Mine(c)' = Mine(c) /\ local'[c].after = "query"
    BY <2>2, SameExecutors DEF Mine, Local, TypeInv, TypeOK
  <2>6. FreshAt(c)'
    BY <2>1, <2>3, <2>4, <2>5, <1>1, <1>3 DEF FreshAt, ConnsKept, Opening
  <2>. QED
    BY <1>1, <2>1, <2>3, <2>4, <2>6, OneCallFresh
<1>7. CASE \E result \in {"ok", "error"} : Ends(c, result) /\ executors' = Unlocked(Mine(c))
  <2>1. executors' = [executors EXCEPT ![Mine(c)].lock = NoCall]
    BY <1>7 DEF Unlocked
  <2>2. ConnsKept /\ Len(executors') \in Nat
    BY <2>1, <1>3, ExecutorKeepsConn
  <2>. QED
    BY <1>7, <2>2, <1>1, EndFresh
<1>. QED
  BY <1>4, <1>5, <1>6, <1>7

LEMMA InvalidateFresh == ASSUME TypeInv, FreshInv, NEW c \in Call, Invalidate(c) PROVE FreshInv'
<1>1. /\ file' = file /\ seen' = seen /\ local' = local /\ pc[c] = "invalidate" /\ registry' = 0
      /\ pc' = [pc EXCEPT ![c] = "unlink"]
  BY DEF Invalidate, disk, GoTo
<1>2. ConnsKept /\ Len(executors') \in Nat
  <2>1. CASE registry = 0
    BY <2>1, SameConns DEF Invalidate
  <2>2. CASE registry # 0
    <3>1. registry \in 1 .. Len(executors) /\ executors' = [executors EXCEPT ![registry].open = FALSE]
      BY <2>2, SameExecutors DEF Invalidate
    <3>2. NoCall \in Call \cup {NoCall}
      OBVIOUS
    <3>. QED
      BY <3>1, <3>2, ExecutorKeepsConn
  <2>. QED
    BY <2>1, <2>2
<1>3. pc'[c] = "unlink" /\ \A d \in Call : d # c => pc'[d] = pc[d]
  BY <1>1 DEF TypeInv, TypeOK
<1>4. FreshAt(c)'
  <2>1. FreshAt(c)
    BY DEF FreshInv
  <2>. QED
    BY <2>1, <1>1, <1>3 DEF FreshAt, Running, Waiting, Executing, Opening
<1>. QED
  BY <1>1, <1>2, <1>3, <1>4, OneCallFresh

\* The new connection is on the file that was opened, its identity is the file that is
\* there.
LEMMA StatFresh == ASSUME TypeInv, FreshInv, NEW c \in Call, Stat(c) PROVE FreshInv'
<1>. DEFINE new == [executors[Mine(c)] EXCEPT !.open = TRUE, !.conn = local[c].opening, !.identity = file,
                                              !.moved = local[c].opening # file]
<1>1. /\ file' = file /\ seen' = seen /\ local' = local /\ pc[c] = "stat"
      /\ pc' = [pc EXCEPT ![c] = local[c].after] /\ executors' = [executors EXCEPT ![Mine(c)] = new]
      /\ registry' \in {registry, Mine(c)}
  BY DEF Stat, disk, GoTo
<1>2. Executing(c) \/ Opening(c)
  BY <1>1, SameExecutors DEF Executing, Opening, Local
<1>3. /\ local[c].after \in {"lock", "query"} /\ local[c].opening # 0 /\ file \in seen[c]
      /\ file \in Nat /\ local[c].opening \in Nat
  BY <1>1, SameExecutors DEF Local, FreshInv, FreshAt, Running, Waiting, TypeInv, TypeOK
<1>4. /\ Mine(c) \in 1 .. Len(executors) /\ new \in Executor
      /\ new.conn = local[c].opening /\ new.identity = file
      /\ new.moved = (local[c].opening # file)
  BY <1>2, <1>3, MyExecutor DEF Executor
<1>5. /\ Len(executors') = Len(executors)
      /\ \A e \in 1 .. Len(executors) : executors'[e] = IF e = Mine(c) THEN new ELSE executors[e]
  <2>. HIDE DEF new, Executor
  <2>. QED
    BY <1>1, <1>4, SameExecutors, ExecutorUpdate
<1>6. Identified'
  <2>1. Identified
    BY DEF FreshInv
  <2>2. registry # 0 => registry \in 1 .. Len(executors)
    BY SameExecutors
  <2>. HIDE DEF new
  <2>3. ASSUME NEW e \in 1 .. Len(executors), ~ executors'[e].moved
        PROVE  executors'[e].identity = executors'[e].conn
    <3>1. CASE e = Mine(c)
      <4>1. executors'[e] = new
        BY <3>1, <1>5
      <4>. QED
        BY <4>1, <2>3, <1>4
    <3>2. CASE e # Mine(c)
      <4>1. executors'[e] = executors[e]
        BY <3>2, <1>5
      <4>. QED
        BY <4>1, <2>1, <2>3 DEF Identified
    <3>. QED
      BY <3>1, <3>2
  <2>4. ASSUME registry' # 0 PROVE executors'[registry'].conn # 0
    <3>1. CASE registry' = Mine(c)
      BY <3>1, <1>3, <1>4, <1>5
    <3>2. CASE registry' # Mine(c)
      <4>1. registry' = registry /\ executors'[registry] = executors[registry]
        BY <3>2, <2>2, <2>4, <1>1, <1>5
      <4>. QED
        BY <4>1, <2>1, <2>4 DEF Identified
    <3>. QED
      BY <3>1, <3>2
  <2>. QED
    BY <2>3, <2>4, <1>5 DEF Identified
<1>7. ASSUME NEW d \in Call PROVE FreshAt(d)'
  <2>1. Mine(d)' = Mine(d)
    BY <1>1 DEF Mine
  <2>2. FreshAt(d)
    BY DEF FreshInv
  <2>3. CASE d = c
    <3>1. pc'[c] = local[c].after
      BY <1>1 DEF TypeInv, TypeOK
    <3>. HIDE DEF new
    <3>2. /\ executors'[Mine(c)].conn = local[c].opening /\ executors'[Mine(c)].identity = file
          /\ executors'[Mine(c)].moved = (local[c].opening # file)
      BY <1>4, <1>5
    <3>. QED
      BY <2>1, <2>3, <3>1, <3>2, <1>1, <1>3 DEF FreshAt, Fresh, Opening
  <2>4. CASE d # c
    <3>1. pc'[d] = pc[d] /\ local'[d] = local[d] /\ seen'[d] = seen[d]
      BY <2>4, <1>1 DEF TypeInv, TypeOK
    <3>2. /\ Executing(d)' = Executing(d) /\ Opening(d)' = Opening(d) /\ Running(d)' = Running(d)
          /\ pc[d] \in {"health", "query", "running"} => Executing(d)
      BY <3>1 DEF Executing, Opening, Running
    <3>3. Opening(d) => Mine(d) # Mine(c)
      <4>. SUFFICES ASSUME Opening(d), Mine(d) = Mine(c) PROVE FALSE
        OBVIOUS
      <4>1. Executing(c)
        BY <1>2, <2>4, SameExecutors
      <4>. QED
        BY <4>1, <2>2 DEF FreshAt, FreshInv
    <3>4. Executing(d) => Mine(d) # Mine(c)
      <4>. SUFFICES ASSUME Executing(d), Mine(d) = Mine(c) PROVE FALSE
        OBVIOUS
      <4>1. CASE Executing(c)
        BY <4>1, <2>4, SameExecutors
      <4>2. CASE Opening(c)
        BY <4>2, <2>2 DEF FreshAt, FreshInv
      <4>. QED
        BY <4>1, <4>2, <1>2
    <3>5. Executing(d) \/ Opening(d) \/ pc[d] = "lock" => Mine(d) \in 1 .. Len(executors)
      BY SameExecutors
    <3>6. pc[d] = "lock" => executors'[Mine(d)].conn # 0
      <4>. HIDE DEF new
      <4>. QED
        BY <3>5, <2>2, <1>3, <1>4, <1>5 DEF FreshAt
    <3>7. Executing(d) \/ Opening(d) => executors'[Mine(d)] = executors[Mine(d)]
      <4>. HIDE DEF new
      <4>. QED
        BY <3>3, <3>4, <3>5, <1>5
    <3>. HIDE DEF new
    <3>. QED
      BY <2>1, <2>2, <3>1, <3>2, <3>6, <3>7, <1>1 DEF FreshAt, Fresh
  <2>. QED
    BY <2>3, <2>4
<1>. QED
  BY <1>6, <1>7 DEF FreshInv

\* A failed open ends the call and moves no connection.
LEMMA OpenFailsFresh == ASSUME TypeInv, FreshInv, NEW c \in Call, OpenFails(c) PROVE FreshInv'
<1>1. file' = file /\ registry' = registry /\ Ends(c, "error") /\ pc[c] \in {"connect", "stat"}
  BY DEF OpenFails
<1>2. ConnsKept /\ Len(executors') \in Nat
  <2>1. CASE local[c].after = "lock"
    BY <2>1, SameConns DEF OpenFails
  <2>2. CASE local[c].after # "lock"
    <3>1. executors' = [executors EXCEPT ![Mine(c)].lock = NoCall]
      BY <2>2 DEF OpenFails, Unlocked
    <3>2. Executing(c)
      BY <1>1, <2>2, SameExecutors DEF Executing, Local
    <3>. QED
      BY <3>1, <3>2, MyExecutor, ExecutorKeepsConn
  <2>. QED
    BY <2>1, <2>2
<1>. QED
  BY <1>1, <1>2, EndFresh

(***************************************************************************)
(* The file changes: every running call sees it.                           *)
(***************************************************************************)
LEMMA SeenFile ==
  ASSUME TypeInv, NEW d \in Call, NEW new \in Nat
  PROVE  Seeing(new)[d] = IF Running(d) THEN seen[d] \cup {new} ELSE seen[d]
BY DEF Seeing

LEMMA FileFresh ==
  ASSUME TypeInv, NEW d \in Call, FreshAt(d), pc'[d] = pc[d], local'[d] = local[d],
         executors' = executors, file' \in Nat, seen'[d] = Seeing(file')[d]
  PROVE  FreshAt(d)'
<1>1. /\ Executing(d)' = Executing(d) /\ Opening(d)' = Opening(d) /\ Running(d)' = Running(d)
      /\ Mine(d)' = Mine(d)
  BY DEF Executing, Opening, Running, Mine
<1>2. seen'[d] = IF Running(d) THEN seen[d] \cup {file'} ELSE seen[d]
  BY SeenFile
<1>. QED
  BY <1>1, <1>2 DEF FreshAt, Fresh

LEMMA ConnectFresh == ASSUME TypeInv, FreshInv, NEW c \in Call, Connect(c) PROVE FreshInv'
<1>1. /\ executors' = executors /\ registry' = registry /\ pc[c] = "connect"
      /\ pc' = [pc EXCEPT ![c] = "stat"]
  BY DEF Connect, registered, GoTo
<1>2. file \in Nat /\ created \in Nat /\ FreshAt(c) /\ local[c] \in Local
  BY SameExecutors DEF TypeInv, TypeOK, FreshInv
<1>3. pc'[c] = "stat" /\ \A d \in Call : d # c => pc'[d] = pc[d]
  BY <1>1 DEF TypeInv, TypeOK
<1>4. PICK f \in Nat : local' = [local EXCEPT ![c].opening = f] /\ file' = f /\ f # 0
  BY <1>2 DEF Connect, PutFile, disk
<1>5. /\ \A d \in Call : d # c => local'[d] = local[d]
      /\ local'[c].opening = f /\ local'[c].mine = local[c].mine /\ local'[c].after = local[c].after
  BY <1>2, <1>4 DEF TypeInv, TypeOK, Local
<1>6. file' \in seen'[c]
  <2>1. file \in seen[c] /\ Running(c)
    BY <1>1, <1>2 DEF FreshAt, Running, Waiting
  <2>2. CASE file = 0
    <3>1. file' = created + 1 /\ seen' = Seeing(created + 1) /\ created + 1 \in Nat
      BY <2>2, <1>2 DEF Connect, PutFile
    <3>2. seen'[c] = seen[c] \cup {created + 1}
      BY <3>1, <2>1, SeenFile
    <3>. QED
      BY <3>1, <3>2
  <2>3. CASE file # 0
    BY <2>1, <2>3 DEF Connect, disk
  <2>. QED
    BY <2>2, <2>3
<1>7. FreshAt(c)'
  <2>1. Executing(c)' = Executing(c) /\ Opening(c)' = Opening(c) /\ Mine(c)' = Mine(c)
    BY <1>1, <1>3, <1>5 DEF Executing, Opening, Mine
  <2>. QED
    BY <2>1, <1>1, <1>2, <1>3, <1>4, <1>5, <1>6 DEF FreshAt
<1>8. ASSUME NEW d \in Call, d # c PROVE FreshAt(d)'
  <2>1. FreshAt(d) /\ pc'[d] = pc[d] /\ local'[d] = local[d]
    BY <1>3, <1>5, <1>8 DEF FreshInv
  <2>2. CASE file = 0
    <3>1. file' = created + 1 /\ seen' = Seeing(created + 1)
      BY <2>2 DEF Connect, PutFile
    <3>. QED
      BY <2>1, <3>1, <1>1, <1>2, FileFresh
  <2>3. CASE file # 0
    BY <2>1, <2>3, <1>1, <1>3, <1>5, SameConns, OtherFresh DEF Connect, disk
  <2>. QED
    BY <2>2, <2>3
<1>. QED
  BY <1>1, <1>7, <1>8 DEF FreshInv, Identified

LEMMA UnlinkFresh == ASSUME TypeInv, FreshInv, NEW c \in Call, Unlink(c) PROVE FreshInv'
<1>1. executors' = executors /\ registry' = registry /\ file' = 0
  BY DEF Unlink, registered
<1>2. PICK result, history : /\ EndsHavingSeen(c, result, history)
                             /\ (file = 0 /\ history = seen) \/ history = Seeing(0)
  BY DEF Unlink, Ends
<1>3. pc'[c] = "done" /\ \A d \in Call : d # c => pc'[d] = pc[d] /\ local'[d] = local[d]
  BY <1>2 DEF EndsHavingSeen, GoTo, TypeInv, TypeOK
<1>4. FreshAt(c)'
  BY <1>3 DEF FreshAt, Running, Executing, Opening
<1>5. ASSUME NEW d \in Call, d # c PROVE FreshAt(d)'
  <2>1. seen'[d] = Seeing(0)[d]
    <3>1. history \in [Call -> SUBSET Nat] /\ seen \in [Call -> SUBSET Nat]
      BY <1>2, SeeingType DEF TypeInv, TypeOK
    <3>2. seen'[d] = history[d]
      BY <1>2, <1>5, <3>1 DEF EndsHavingSeen
    <3>3. file = 0 /\ Running(d) => 0 \in seen[d]
      BY DEF FreshInv, FreshAt
    <3>4. Seeing(0)[d] = IF Running(d) THEN seen[d] \cup {0} ELSE seen[d]
      BY SeenFile
    <3>5. CASE history = Seeing(0)
      BY <3>2, <3>5
    <3>6. CASE file = 0 /\ history = seen
      BY <3>2, <3>3, <3>4, <3>6
    <3>. QED
      BY <3>5, <3>6, <1>2
  <2>. QED
    BY <2>1, <1>1, <1>3, <1>5, FileFresh DEF FreshInv
<1>. QED
  BY <1>1, <1>4, <1>5 DEF FreshInv, Identified

LEMMA EnvironmentFresh ==
  ASSUME TypeInv, FreshInv, DeletedElsewhere \/ IndexRun
  PROVE  FreshInv'
<1>1. executors' = executors /\ registry' = registry /\ pc' = pc /\ local' = local
  BY DEF DeletedElsewhere, IndexRun, registered
<1>2. file' \in Nat /\ seen' = Seeing(file')
  BY DEF DeletedElsewhere, IndexRun, PutFile, TypeInv, TypeOK
<1>. QED
  BY <1>1, <1>2, FileFresh DEF FreshInv, Identified

LEMMA FreshStep == ASSUME TypeInv, FreshInv, [Next]_vars PROVE FreshInv'
<1>1. CASE UNCHANGED vars
  BY <1>1 DEF vars, FreshInv, FreshAt, Fresh, Identified, Running, Executing, Opening, Mine
<1>2. CASE DeletedElsewhere \/ IndexRun
  BY <1>2, EnvironmentFresh
<1>3. ASSUME NEW c \in Call, Arrive(c) \/ Busy(c) \/ Acquire(c) \/ Timeout(c) PROVE FreshInv'
  BY <1>3, WrapperFresh, TimeoutFresh
<1>4. ASSUME NEW c \in Call, Thread(c) PROVE FreshInv'
  BY <1>4, ResolveFresh, GetExecutorFresh, ConnectFresh, StatFresh, OpenFailsFresh, LockFresh, QueryFresh,
     InvalidateFresh, UnlinkFresh DEF Thread
<1>. QED
  BY <1>1, <1>2, <1>3, <1>4 DEF Next

\* Every query reads a file that was the index during its call, or there was none for a
\* moment; the exception is a connection under which the file changed between its open and
\* the record of its identity, until the file changes again (executor.py:123, 148-163,
\* _check_reindex 198-246).
THEOREM QueriesReadFresh == Spec => []FreshReads
<1>1. TypeInv /\ FreshInv /\ [Next]_vars => TypeInv' /\ FreshInv'
  BY TypeStep, FreshStep
<1>2. FreshInv => FreshReads
  BY DEF FreshInv, FreshAt, FreshReads
<1>. QED
  BY <1>1, <1>2, TypeInit, FreshInit, PTL DEF Spec

(***************************************************************************)
(* StopsOnlyAbandoned: who is behind the slot, and who has timed out.      *)
(***************************************************************************)
Abandoned(c) == \E d \in Call : reply[d] = "timeout" /\ (d = c \/ Kind[d] = "reset")

AnswerAt(c) ==
  /\ Running(c) => slot = c \/ reply[c] = "timeout"
  /\ slot = c => Running(c) /\ reply[c] = "none"
  /\ pc[c] \in Waiting => reply[c] = "none"
  /\ pc[c] \in {"invalidate", "unlink"} => Kind[c] = "reset"
  /\ pc[c] = "interrupted" => reply[c] = "timeout"
  /\ pc[c] = "running" /\ ~ executors[Mine(c)].open => Abandoned(c)

AnswerInv == \A c \in Call : AnswerAt(c)

\* Who has timed out stays so.
TimeoutsStay == \A d \in Call : reply[d] = "timeout" => reply'[d] = "timeout"

LEMMA AbandonedStays == ASSUME TimeoutsStay, NEW c \in Call, Abandoned(c) PROVE Abandoned(c)'
BY DEF TimeoutsStay, Abandoned

\* A call that does not step.
LEMMA OtherAnswers ==
  ASSUME TypeInv, TimeoutsStay, NEW d \in Call, AnswerAt(d), pc'[d] = pc[d], local'[d] = local[d],
         slot' = d <=> slot = d, reply'[d] = reply[d],
         pc[d] = "running" => executors'[Mine(d)].open \in {executors[Mine(d)].open, TRUE}
  PROVE  AnswerAt(d)'
<1>1. Running(d)' = Running(d) /\ Mine(d)' = Mine(d)
  BY DEF Running, Mine
<1>. QED
  BY <1>1, AbandonedStays DEF AnswerAt

LEMMA AnswerInit == Init => AnswerInv
BY DEF Init, AnswerInv, AnswerAt, Running, Waiting

LEMMA WrapperAnswers ==
  ASSUME TypeInv, AnswerInv, NEW c \in Call, Arrive(c) \/ Busy(c) \/ Acquire(c)
  PROVE  AnswerInv'
<1>1. executors' = executors /\ local' = local /\ pc[c] \in Waiting /\ AnswerAt(c)
  BY DEF Arrive, Busy, Acquire, server, registered, Waiting, AnswerInv
<1>2. reply[c] = "none" /\ slot # c
  BY <1>1 DEF AnswerAt, Running, Waiting
<1>3. \A d \in Call : d # c => pc'[d] = pc[d] /\ reply'[d] = reply[d]
  BY DEF Arrive, Busy, Acquire, server, GoTo, TypeInv, TypeOK
<1>4. TimeoutsStay
  BY <1>2, <1>3 DEF TimeoutsStay
<1>5. \A d \in Call : d # c => (slot' = d <=> slot = d)
  BY DEF Arrive, Busy, Acquire, server
<1>6. AnswerAt(c)'
  <2>1. CASE Arrive(c)
    BY <2>1, <1>2 DEF Arrive, GoTo, server, AnswerAt, Running, Waiting, TypeInv, TypeOK
  <2>2. CASE Busy(c)
    BY <2>2, <1>2 DEF Busy, GoTo, AnswerAt, Running, Waiting, TypeInv, TypeOK
  <2>3. CASE Acquire(c)
    BY <2>3, <1>2 DEF Acquire, GoTo, AnswerAt, Running, Waiting, TypeInv, TypeOK
  <2>. QED
    BY <2>1, <2>2, <2>3
<1>. QED
  BY <1>1, <1>3, <1>4, <1>5, <1>6, OtherAnswers DEF AnswerInv

\* The statement that is stopped is of the call that timed out, or of one that has before.
LEMMA TimeoutAnswers == ASSUME TypeInv, AnswerInv, NEW c \in Call, Timeout(c) PROVE AnswerInv'
<1>1. PICK hit \in SUBSET Interruptible : pc' = [z \in Call |-> IF z \in hit THEN "interrupted" ELSE pc[z]]
  BY DEF Timeout
<1>2. /\ executors' = executors /\ local' = local /\ slot = c /\ slot' = NoCall /\ Running(c)
      /\ reply' = [reply EXCEPT ![c] = "timeout"]
  BY DEF Timeout, registered
<1>3. reply'[c] = "timeout" /\ \A d \in Call : d # c => reply'[d] = reply[d]
  BY <1>2 DEF TypeInv, TypeOK
<1>4. TimeoutsStay
  BY <1>3 DEF TimeoutsStay
<1>5. ASSUME NEW d \in Call PROVE AnswerAt(d)'
  <2>1. AnswerAt(d) /\ slot' # d
    BY <1>2 DEF AnswerInv
  <2>2. CASE d \in hit
    <3>1. pc[d] = "running" /\ pc'[d] = "interrupted"
      BY <1>1, <2>2 DEF Interruptible
    <3>2. reply'[d] = "timeout"
      BY <3>1, <2>1, <1>2, <1>3 DEF AnswerAt, Running, Waiting
    <3>. QED
      BY <2>1, <3>1, <3>2 DEF AnswerAt, Waiting
  <2>3. CASE d \notin hit /\ d # c
    BY <2>1, <2>3, <1>1, <1>2, <1>3, <1>4, OtherAnswers
  <2>4. CASE d \notin hit /\ d = c
    <3>1. pc'[d] = pc[d] /\ pc[d] \notin Waiting
      BY <2>4, <1>1, <1>2 DEF Running
    <3>2. pc'[d] = "running" => Abandoned(d)'
      BY <2>4, <1>3 DEF Abandoned
    <3>. QED
      BY <2>1, <2>4, <3>1, <3>2, <1>3 DEF AnswerAt
  <2>. QED
    BY <2>2, <2>3, <2>4
<1>. QED
  BY <1>5 DEF AnswerInv

\* A call that ends; its executor, if any, is only unlocked.
LEMMA EndAnswers ==
  ASSUME TypeInv, AnswerInv, NEW c \in Call, NEW result, NEW history, EndsHavingSeen(c, result, history),
         \A d \in Call : pc[d] = "running" => executors'[Mine(d)].open = executors[Mine(d)].open
  PROVE  AnswerInv'
<1>1. pc' = [pc EXCEPT ![c] = "done"] /\ local' = [local EXCEPT ![c] = NoLocal]
  BY DEF EndsHavingSeen, GoTo
<1>2. \/ slot = c /\ slot' = NoCall /\ reply' = [reply EXCEPT ![c] = result]
      \/ slot # c /\ slot' = slot /\ reply' = reply
  BY DEF EndsHavingSeen
<1>3. pc'[c] = "done" /\ \A d \in Call : d # c => pc'[d] = pc[d] /\ local'[d] = local[d]
  BY <1>1 DEF TypeInv, TypeOK
<1>4. \A d \in Call : d # c => reply'[d] = reply[d] /\ (slot' = d <=> slot = d)
  BY <1>2 DEF TypeInv, TypeOK
<1>5. TimeoutsStay
  <2>1. slot = c => reply[c] = "none"
    BY DEF AnswerInv, AnswerAt
  <2>. QED
    BY <1>2, <1>4, <2>1 DEF TimeoutsStay
<1>6. AnswerAt(c)'
  BY <1>2, <1>3 DEF AnswerAt, Running, Waiting
<1>. QED
  BY <1>3, <1>4, <1>5, <1>6, OtherAnswers DEF AnswerInv

\* A step of a thread that goes on.
LEMMA StepAnswers ==
  ASSUME TypeInv, AnswerInv, NEW c \in Call, NEW w, GoTo(c, w), w \notin Waiting \cup {"done", "interrupted", "running"},
         Running(c), slot' = slot, reply' = reply,
         w \in {"invalidate", "unlink"} => Kind[c] = "reset",
         w = "running" => executors'[Mine(c)'].open,
         \A d \in Call : d # c => local'[d] = local[d],
         \A d \in Call : d # c /\ pc[d] = "running"
                           => executors'[Mine(d)].open \in {executors[Mine(d)].open, TRUE} \/ Abandoned(d)
  PROVE  AnswerInv'
<1>1. pc'[c] = w /\ \A d \in Call : d # c => pc'[d] = pc[d]
  BY DEF GoTo, TypeInv, TypeOK
<1>2. TimeoutsStay
  BY DEF TimeoutsStay
<1>3. AnswerAt(c)'
  BY <1>1 DEF AnswerAt, AnswerInv, Running, Waiting
<1>4. ASSUME NEW d \in Call, d # c PROVE AnswerAt(d)'
  <2>1. AnswerAt(d) /\ pc'[d] = pc[d] /\ local'[d] = local[d]
    BY <1>1, <1>4 DEF AnswerInv
  <2>2. CASE pc[d] = "running" => executors'[Mine(d)].open \in {executors[Mine(d)].open, TRUE}
    BY <2>1, <2>2, <1>2, OtherAnswers
  <2>3. CASE pc[d] = "running" /\ Abandoned(d)
    <3>1. Abandoned(d)' /\ Running(d)' = Running(d)
      BY <2>1, <2>3, <1>2, AbandonedStays DEF Running
    <3>. QED
      BY <2>1, <2>3, <3>1 DEF AnswerAt
  <2>. QED
    BY <2>2, <2>3, <1>4
<1>. QED
  BY <1>3, <1>4 DEF AnswerInv

\* An executor that changes under a lock, or is unlocked, stays open for the others.
LEMMA OthersStayOpen ==
  ASSUME TypeInv, NEW c \in Call, NEW e \in 1 .. Len(executors), NEW new \in Executor,
         executors' = [executors EXCEPT ![e] = new],
         \/ Executing(c) /\ e = Mine(c)
         \/ new.open \in {executors[e].open, TRUE}
  PROVE  \A d \in Call : d # c /\ pc[d] = "running"
                           => executors'[Mine(d)].open \in {executors[Mine(d)].open, TRUE}
<1>. SUFFICES ASSUME NEW d \in Call, d # c, pc[d] = "running"
     PROVE  executors'[Mine(d)].open \in {executors[Mine(d)].open, TRUE}
  OBVIOUS
<1>1. Executing(d)
  BY DEF Executing
<1>2. Mine(d) \in 1 .. Len(executors) /\ executors[Mine(d)].lock = d
  BY <1>1, SameExecutors
<1>3. Executing(c) /\ e = Mine(c) => e # Mine(d)
  BY <1>2, SameExecutors
<1>4. executors'[Mine(d)] = IF Mine(d) = e THEN new ELSE executors[Mine(d)]
  <2>. HIDE DEF Executor
  <2>. QED
    BY <1>2, SameExecutors, ExecutorUpdate
<1>. QED
  BY <1>3, <1>4

\* Taking or releasing a lock opens and closes nothing.
LEMMA LockKeepsOpen ==
  ASSUME TypeInv, NEW e \in 1 .. Len(executors), NEW lock \in Call \cup {NoCall},
         executors' = [executors EXCEPT ![e].lock = lock]
  PROVE  \A d \in Call : pc[d] = "running" => executors'[Mine(d)].open = executors[Mine(d)].open
<1>1. executors[e] \in Executor
  <2>. HIDE DEF Executor
  <2>. QED
    BY SameExecutors, ElementOfSeq
<1>2. PICK new \in Executor : executors' = [executors EXCEPT ![e] = new] /\ new.open = executors[e].open
  <2>1. [executors[e] EXCEPT !.lock = lock] \in Executor
    BY <1>1 DEF Executor
  <2>2. [executors[e] EXCEPT !.lock = lock].open = executors[e].open
    BY <1>1 DEF Executor
  <2>3. executors' = [executors EXCEPT ![e] = [executors[e] EXCEPT !.lock = lock]]
    OBVIOUS
  <2>. QED
    BY <2>1, <2>2, <2>3
<1>3. \A d \in 1 .. Len(executors) : executors'[d] = IF d = e THEN new ELSE executors[d]
  BY <1>2, SameExecutors, ExecutorUpdate
<1>4. \A d \in Call : pc[d] = "running" => Mine(d) \in 1 .. Len(executors)
  BY SameExecutors DEF Executing
<1>. QED
  BY <1>2, <1>3, <1>4

LEMMA ResolveAnswers == ASSUME TypeInv, AnswerInv, NEW c \in Call, Resolve(c) PROVE AnswerInv'
<1>1. executors' = executors /\ pc[c] = "resolve"
  BY DEF Resolve, registered
<1>2. CASE file = 0
  BY <1>1, <1>2, EndAnswers DEF Resolve, Ends
<1>3. CASE file # 0
  <2>1. GoTo(c, IF Kind[c] = "reset" THEN "invalidate" ELSE "registry")
        /\ slot' = slot /\ reply' = reply /\ local' = local
    BY <1>3 DEF Resolve, server
  <2>2. Running(c)
    BY <1>1 DEF Running, Waiting
  <2>3. CASE Kind[c] = "reset"
    <3>1. GoTo(c, "invalidate")
      BY <2>1, <2>3
    <3>. QED
      BY <3>1, <2>1, <2>2, <2>3, <1>1, StepAnswers DEF Waiting
  <2>4. CASE Kind[c] # "reset"
    <3>1. GoTo(c, "registry")
      BY <2>1, <2>4
    <3>. QED
      BY <3>1, <2>1, <2>2, <1>1, StepAnswers DEF Waiting
  <2>. QED
    BY <2>3, <2>4
<1>. QED
  BY <1>2, <1>3

LEMMA OpenAnswers ==
  ASSUME TypeInv, AnswerInv, NEW c \in Call, GetExecutor(c) \/ Connect(c)
  PROVE  AnswerInv'
<1>1. PICK w \in {"lock", "connect", "stat"} : GoTo(c, w)
  BY DEF GetExecutor, Connect
<1>2. slot' = slot /\ reply' = reply /\ Running(c)
  BY DEF GetExecutor, Connect, server, Running, Waiting
<1>3. \A d \in Call : d # c => local'[d] = local[d]
  <2>1. \E l : local' = [local EXCEPT ![c] = l]
    BY DEF GetExecutor, Connect
  <2>. QED
    BY <2>1 DEF TypeInv, TypeOK
<1>4. \A d \in Call : pc[d] = "running" => executors'[Mine(d)] = executors[Mine(d)]
  <2>1. \A d \in Call : pc[d] = "running" => Mine(d) \in 1 .. Len(executors)
    BY SameExecutors DEF Executing
  <2>2. CASE executors' = executors
    BY <2>2
  <2>3. CASE \E new \in Executor : executors' = Append(executors, new)
    <3>. HIDE DEF Executor
    <3>. QED
      BY <2>1, <2>3, SameExecutors, AppendProperties
  <2>4. executors' = executors \/ \E new \in Executor : executors' = Append(executors, new)
    <3>1. NewExecutor \in Executor
      BY DEF Executor, NewExecutor
    <3>. QED
      BY <3>1 DEF GetExecutor, Connect, registered
  <2>. QED
    BY <2>2, <2>3, <2>4
<1>. QED
  BY <1>1, <1>2, <1>3, <1>4, StepAnswers DEF Waiting

LEMMA StatAnswers == ASSUME TypeInv, AnswerInv, NEW c \in Call, Stat(c) PROVE AnswerInv'
<1>. DEFINE new == [executors[Mine(c)] EXCEPT !.open = TRUE, !.conn = local[c].opening, !.identity = file,
                                              !.moved = local[c].opening # file]
<1>1. /\ slot' = slot /\ reply' = reply /\ local' = local /\ pc[c] = "stat"
      /\ GoTo(c, local[c].after) /\ executors' = [executors EXCEPT ![Mine(c)] = new]
  BY DEF Stat, server
<1>2. Executing(c) \/ Opening(c)
  BY <1>1, SameExecutors DEF Executing, Opening, Local
<1>3. local[c].after \in {"lock", "query"} /\ local[c].opening \in Nat /\ file \in Nat
  BY SameExecutors DEF Local, TypeInv, TypeOK
<1>4. Mine(c) \in 1 .. Len(executors) /\ new \in Executor /\ new.open = TRUE
  BY <1>2, <1>3, MyExecutor DEF Executor
<1>5. \A d \in Call : d # c /\ pc[d] = "running" => executors'[Mine(d)].open \in {executors[Mine(d)].open, TRUE}
  <2>. HIDE DEF new, Executor
  <2>. QED
    BY <1>1, <1>4, OthersStayOpen
<1>6. Running(c)
  BY <1>1 DEF Running, Waiting
<1>. HIDE DEF new
<1>. QED
  BY <1>1, <1>3, <1>5, <1>6, StepAnswers DEF Waiting

LEMMA LockAnswers == ASSUME TypeInv, AnswerInv, NEW c \in Call, Lock(c) PROVE AnswerInv'
<1>1. /\ slot' = slot /\ reply' = reply /\ local' = local /\ Running(c) /\ GoTo(c, "check")
      /\ executors' = [executors EXCEPT ![Mine(c)].lock = c] /\ pc[c] = "lock"
  BY DEF Lock, server, Running, Waiting
<1>2. \A d \in Call : pc[d] = "running" => executors'[Mine(d)].open = executors[Mine(d)].open
  BY <1>1, MyExecutor, LockKeepsOpen
<1>. QED
  BY <1>1, <1>2, StepAnswers DEF Waiting

\* A failed open ends the call and closes nothing.
LEMMA OpenFailsAnswers == ASSUME TypeInv, AnswerInv, NEW c \in Call, OpenFails(c) PROVE AnswerInv'
<1>1. Ends(c, "error") /\ pc[c] \in {"connect", "stat"} /\ local[c].after \in {"lock", "query"}
  BY SameExecutors DEF OpenFails, Local
<1>2. \A d \in Call : pc[d] = "running" => executors'[Mine(d)].open = executors[Mine(d)].open
  <2>1. CASE local[c].after = "lock"
    BY <2>1 DEF OpenFails
  <2>2. CASE local[c].after = "query"
    <3>1. executors' = [executors EXCEPT ![Mine(c)].lock = NoCall] /\ Executing(c)
      BY <1>1, <2>2 DEF OpenFails, Unlocked, Executing
    <3>. QED
      BY <3>1, SameExecutors, LockKeepsOpen
  <2>. QED
    BY <1>1, <2>1, <2>2
<1>. QED
  BY <1>1, <1>2, EndAnswers DEF Ends

LEMMA QueryAnswers ==
  ASSUME TypeInv, AnswerInv, NEW c \in Call,
         CheckReindex(c) \/ HealthCheck(c) \/ StartQuery(c) \/ FinishQuery(c) \/ FatalError(c) \/ Raise(c)
  PROVE  AnswerInv'
<1>1. /\ Executing(c) /\ Running(c) /\ Mine(c) \in 1 .. Len(executors) /\ executors[Mine(c)] \in Executor
      /\ Mine(c) = local[c].mine
  <2>1. Executing(c)
    BY DEF CheckReindex, HealthCheck, StartQuery, FinishQuery, FatalError, Raise, Executing
  <2>2. Running(c)
    BY DEF CheckReindex, HealthCheck, StartQuery, FinishQuery, FatalError, Raise, Running, Waiting
  <2>. QED
    BY <2>1, <2>2, MyExecutor
<1>2. \/ \E w \in {"health", "query"} : GoTo(c, w) /\ UNCHANGED <<slot, reply, executors, local>>
      \/ GoTo(c, "running") /\ executors[Mine(c)].open /\ UNCHANGED <<slot, reply, executors, local>>
      \/ \E retry \in BOOLEAN : Reconnects(c, retry) /\ UNCHANGED <<slot, reply>>
      \/ \E result \in {"ok", "error"} : Ends(c, result) /\ executors' = Unlocked(Mine(c))
  <2>1. CASE CheckReindex(c) \/ HealthCheck(c)
    BY <2>1 DEF CheckReindex, HealthCheck, server
  <2>2. CASE StartQuery(c) \/ FatalError(c)
    BY <2>2 DEF StartQuery, FatalError, server
  <2>3. CASE FinishQuery(c) \/ Raise(c)
    BY <2>3 DEF FinishQuery, Raise
  <2>. QED
    BY <2>1, <2>2, <2>3
<1>3. CASE \E w \in {"health", "query"} : GoTo(c, w) /\ UNCHANGED <<slot, reply, executors, local>>
  BY <1>1, <1>3, StepAnswers DEF Waiting
<1>4. CASE GoTo(c, "running") /\ executors[Mine(c)].open /\ UNCHANGED <<slot, reply, executors, local>>
  <2>1. pc'[c] = "running" /\ \A d \in Call : d # c => pc'[d] = pc[d]
    BY <1>4 DEF GoTo, TypeInv, TypeOK
  <2>2. slot' = slot /\ reply' = reply /\ executors' = executors /\ local' = local /\ Mine(c)' = Mine(c)
    BY <1>4 DEF Mine
  <2>3. TimeoutsStay
    BY <2>2 DEF TimeoutsStay
  <2>4. AnswerAt(c)'
    BY <2>1, <2>2, <1>1, <1>4 DEF AnswerInv, AnswerAt, Running, Waiting
  <2>. QED
    BY <2>1, <2>2, <2>3, <2>4, OtherAnswers DEF AnswerInv
<1>5. CASE \E retry \in BOOLEAN : Reconnects(c, retry) /\ UNCHANGED <<slot, reply>>
  <2>. DEFINE new == [executors[Mine(c)] EXCEPT !.open = FALSE]
  <2>1. GoTo(c, "connect") /\ executors' = [executors EXCEPT ![Mine(c)] = new] /\ slot' = slot /\ reply' = reply
    BY <1>5 DEF Reconnects
  <2>2. \A d \in Call : d # c => local'[d] = local[d]
    BY <1>5 DEF Reconnects, TypeInv, TypeOK
  <2>3. new \in Executor
    BY <1>1 DEF Executor
  <2>4. \A d \in Call : d # c /\ pc[d] = "running"
                          => executors'[Mine(d)].open \in {executors[Mine(d)].open, TRUE}
    <3>. HIDE DEF new, Executor
    <3>. QED
      BY <2>1, <2>3, <1>1, OthersStayOpen
  <2>. HIDE DEF new
  <2>. QED
    BY <2>1, <2>2, <2>4, <1>1, StepAnswers DEF Waiting
<1>6. CASE \E result \in {"ok", "error"} : Ends(c, result) /\ executors' = Unlocked(Mine(c))
  <2>1. executors' = [executors EXCEPT ![Mine(c)].lock = NoCall] /\ NoCall \in Call \cup {NoCall}
    BY <1>6 DEF Unlocked
  <2>2. \A d \in Call : pc[d] = "running" => executors'[Mine(d)].open = executors[Mine(d)].open
    BY <2>1, <1>1, LockKeepsOpen
  <2>. QED
    BY <1>6, <2>2, EndAnswers DEF Ends
<1>. QED
  BY <1>2, <1>3, <1>4, <1>5, <1>6

\* The reset that closes a connection under a query runs behind the slot, and then the
\* query has timed out, or it has timed out itself.
LEMMA InvalidateAnswers == ASSUME TypeInv, AnswerInv, NEW c \in Call, Invalidate(c) PROVE AnswerInv'
<1>1. /\ slot' = slot /\ reply' = reply /\ local' = local /\ GoTo(c, "unlink") /\ pc[c] = "invalidate"
  BY DEF Invalidate, server
<1>2. Running(c) /\ Kind[c] = "reset" /\ (slot = c \/ reply[c] = "timeout")
  BY <1>1 DEF AnswerInv, AnswerAt, Running, Waiting
<1>3. ASSUME NEW d \in Call, d # c, pc[d] = "running" PROVE Abandoned(d)
  <2>1. slot = d \/ reply[d] = "timeout"
    BY <1>3 DEF AnswerInv, AnswerAt, Running, Waiting
  <2>. QED
    BY <2>1, <1>2, <1>3 DEF Abandoned
<1>. QED
  BY <1>1, <1>2, <1>3, StepAnswers DEF Waiting

LEMMA RestAnswers ==
  ASSUME TypeInv, AnswerInv, (\E c \in Call : Unlink(c)) \/ DeletedElsewhere \/ IndexRun
  PROVE  AnswerInv'
<1>1. executors' = executors
  BY DEF Unlink, DeletedElsewhere, IndexRun, registered
<1>2. CASE \E c \in Call : Unlink(c)
  <2>1. PICK c \in Call : Unlink(c)
    BY <1>2
  <2>2. \E result, history : EndsHavingSeen(c, result, history)
    BY <2>1 DEF Unlink, Ends
  <2>. QED
    BY <2>2, <1>1, EndAnswers
<1>3. CASE DeletedElsewhere \/ IndexRun
  <2>1. pc' = pc /\ slot' = slot /\ reply' = reply /\ local' = local
    BY <1>3 DEF DeletedElsewhere, IndexRun, server
  <2>. QED
    BY <1>1, <2>1 DEF AnswerInv, AnswerAt, Abandoned, Running, Mine
<1>. QED
  BY <1>2, <1>3

LEMMA AnswerStep == ASSUME TypeInv, AnswerInv, [Next]_vars PROVE AnswerInv'
<1>1. CASE UNCHANGED vars
  BY <1>1 DEF vars, AnswerInv, AnswerAt, Abandoned, Running, Mine
<1>2. CASE DeletedElsewhere \/ IndexRun
  BY <1>2, RestAnswers
<1>3. ASSUME NEW c \in Call, Arrive(c) \/ Busy(c) \/ Acquire(c) \/ Timeout(c) PROVE AnswerInv'
  BY <1>3, WrapperAnswers, TimeoutAnswers
<1>4. ASSUME NEW c \in Call, Thread(c) PROVE AnswerInv'
  BY <1>4, ResolveAnswers, OpenAnswers, OpenFailsAnswers, StatAnswers, LockAnswers,
     QueryAnswers, InvalidateAnswers, RestAnswers DEF Thread
<1>. QED
  BY <1>1, <1>2, <1>3, <1>4 DEF Next

\* The statement of a call whose client waits is never interrupted, and a connection is
\* closed under a query only when that call or a reset has timed out: for any number of
\* calls, and files that come and go at any time (executor.py:307-314).
THEOREM OnlyAbandonedAreStopped == Spec => []StopsOnlyAbandoned
<1>1. TypeInv /\ AnswerInv /\ [Next]_vars => TypeInv' /\ AnswerInv'
  BY TypeStep, AnswerStep
<1>2. AnswerInv => StopsOnlyAbandoned
  BY DEF AnswerInv, AnswerAt, Abandoned, StopsOnlyAbandoned
<1>. QED
  BY <1>1, <1>2, TypeInit, AnswerInit, PTL DEF Spec

\* Two threads run at once only when the call of one of them has timed out: that is how
\* far it goes against what the server says of its maintenance tools (MaintenanceAlone),
\* for any number of calls (server.py, _acquire_slot and the timeout of _wrap_tool).
THEOREM OnlyTimeoutsInterleave ==
  Spec => [](\A c, d \in Call : Running(c) /\ Running(d) /\ c # d
                                  => reply[c] = "timeout" \/ reply[d] = "timeout")
<1>1. TypeInv /\ AnswerInv /\ [Next]_vars => TypeInv' /\ AnswerInv'
  BY TypeStep, AnswerStep
<1>2. AnswerInv => \A c, d \in Call : Running(c) /\ Running(d) /\ c # d
                                         => reply[c] = "timeout" \/ reply[d] = "timeout"
  BY DEF AnswerInv, AnswerAt
<1>. QED
  BY <1>1, <1>2, TypeInit, AnswerInit, PTL DEF Spec

(***************************************************************************)
(* No lock is lost.                                                        *)
(***************************************************************************)
\* Who has a lock is where the code releases it: the slot has a thread, the registry is
\* locked by one that opens a new executor, an executor by one inside execute_sync.
SlotIsUsed == slot # NoCall => Running(slot)
RegistryIsUsed == registryLock # NoCall => Opening(registryLock)
UsesOf(c, e) == Executing(c) /\ Mine(c) = e
ExecutorsAreUsed ==
  \A e \in 1 .. Len(executors) : executors[e].lock # NoCall => UsesOf(executors[e].lock, e)

LocksAreUsed == SlotIsUsed /\ RegistryIsUsed /\ ExecutorsAreUsed

\* The locks of executors after a step of c.
LocksAfter(c) ==
  \A e \in 1 .. Len(executors') :
    \/ executors'[e].lock = NoCall
    \/ executors'[e].lock = c /\ UsesOf(c, e)'
    \/ e \in 1 .. Len(executors) /\ executors'[e].lock = executors[e].lock /\ executors[e].lock # c

LEMMA OneCallUses ==
  ASSUME TypeInv, LocksAreUsed, NEW c \in Call, NEW w, GoTo(c, w),
         \A d \in Call : d # c => local'[d] = local[d],
         LocksAfter(c),
         slot' = NoCall \/ (slot' = c /\ Running(c)') \/ (slot' = slot /\ slot # c),
         registryLock' = NoCall \/ (registryLock' = c /\ Opening(c)')
           \/ (registryLock' = registryLock /\ registryLock # c)
  PROVE  LocksAreUsed'
<1>1. \A d \in Call : d # c => pc'[d] = pc[d]
  BY DEF GoTo, TypeInv, TypeOK
<1>2. \A d \in Call : d # c => /\ Running(d)' = Running(d) /\ Opening(d)' = Opening(d)
                               /\ \A e : UsesOf(d, e)' = UsesOf(d, e)
  BY <1>1 DEF Running, Opening, UsesOf, Executing, Mine
<1>3. SlotIsUsed' /\ RegistryIsUsed'
  BY <1>2, RestTypes DEF LocksAreUsed, SlotIsUsed, RegistryIsUsed
<1>4. ExecutorsAreUsed'
  <2>1. SUFFICES ASSUME NEW e \in 1 .. Len(executors'), NEW h, h = executors'[e].lock, h # NoCall
                 PROVE  UsesOf(h, e)'
    BY DEF ExecutorsAreUsed, UsesOf, Executing, Mine
  <2>2. CASE h = c /\ UsesOf(c, e)'
    BY <2>2
  <2>3. CASE e \in 1 .. Len(executors) /\ h = executors[e].lock /\ h # c
    <3>1. h \in Call
      <4>1. executors[e] \in Executor
        <5>. HIDE DEF Executor
        <5>. QED
          BY <2>3, SameExecutors, ElementOfSeq
      <4>. QED
        BY <4>1, <2>1, <2>3 DEF Executor
    <3>2. UsesOf(h, e)
      BY <2>1, <2>3 DEF LocksAreUsed, ExecutorsAreUsed
    <3>. QED
      BY <3>1, <3>2, <1>2, <2>3
  <2>. QED
    BY <2>1, <2>2, <2>3 DEF LocksAfter
<1>. QED
  BY <1>3, <1>4 DEF LocksAreUsed

\* The locks of executors stay when nothing but the connection of one changes.
LocksKept == /\ Len(executors') = Len(executors)
             /\ \A e \in 1 .. Len(executors) : executors'[e].lock = executors[e].lock

LEMMA ExecutorKeepsLock ==
  ASSUME TypeInv, NEW e \in 1 .. Len(executors), NEW new \in Executor, new.lock = executors[e].lock,
         executors' = [executors EXCEPT ![e] = new]
  PROVE  LocksKept
<1>. HIDE DEF Executor
<1>. QED
  BY SameExecutors, ExecutorUpdate DEF LocksKept

LEMMA ClosingKeepsLock ==
  ASSUME TypeInv, NEW e \in 1 .. Len(executors), executors' = [executors EXCEPT ![e].open = FALSE]
  PROVE  LocksKept
<1>1. executors[e] \in Executor
  <2>. HIDE DEF Executor
  <2>. QED
    BY SameExecutors, ElementOfSeq
<1>2. [executors[e] EXCEPT !.open = FALSE] \in Executor
  BY <1>1 DEF Executor
<1>3. [executors[e] EXCEPT !.open = FALSE].lock = executors[e].lock
  BY <1>1 DEF Executor
<1>. QED
  BY <1>2, <1>3, ExecutorKeepsLock

LEMMA LockChanges ==
  ASSUME TypeInv, NEW e \in 1 .. Len(executors), NEW l \in Call \cup {NoCall},
         executors' = [executors EXCEPT ![e].lock = l]
  PROVE  /\ Len(executors') = Len(executors) /\ executors'[e].lock = l
         /\ \A d \in 1 .. Len(executors) : d # e => executors'[d] = executors[d]
<1>. DEFINE new == [executors[e] EXCEPT !.lock = l]
<1>1. executors[e] \in Executor
  <2>. HIDE DEF Executor
  <2>. QED
    BY SameExecutors, ElementOfSeq
<1>2. new \in Executor /\ new.lock = l
  BY <1>1 DEF Executor
<1>3. executors' = [executors EXCEPT ![e] = new]
  OBVIOUS
<1>. HIDE DEF Executor, new
<1>. QED
  BY <1>2, <1>3, SameExecutors, ExecutorUpdate

\* A step that keeps them, of a thread that keeps its executor or has none.
LEMMA KeptLocksAfter ==
  ASSUME TypeInv, LocksAreUsed, NEW c \in Call, LocksKept,
         Executing(c) => Executing(c)' /\ Mine(c)' = Mine(c)
  PROVE  LocksAfter(c)
BY DEF LocksKept, LocksAfter, LocksAreUsed, ExecutorsAreUsed, UsesOf

LEMMA UsesInit == Init => LocksAreUsed
<1>. SUFFICES ASSUME Init PROVE LocksAreUsed
  OBVIOUS
<1>1. Len(executors) = 0
  BY DEF Init
<1>. QED
  BY <1>1 DEF Init, LocksAreUsed, SlotIsUsed, RegistryIsUsed, ExecutorsAreUsed

LEMMA WrapperUses ==
  ASSUME TypeInv, LocksAreUsed, NEW c \in Call, Arrive(c) \/ Busy(c) \/ Acquire(c)
  PROVE  LocksAreUsed'
<1>1. executors' = executors /\ registryLock' = registryLock /\ local' = local
  BY DEF Arrive, Busy, Acquire, disk, server, registered
<1>2. ~ Executing(c) /\ ~ Opening(c) /\ ~ Running(c)
  BY DEF Arrive, Busy, Acquire, Executing, Opening, Running, Waiting
<1>3. \E w : GoTo(c, w)
  BY DEF Arrive, Busy, Acquire
<1>4. slot # c /\ registryLock # c
  BY <1>2 DEF LocksAreUsed, SlotIsUsed, RegistryIsUsed
<1>5. slot' = slot \/ (slot' = c /\ Running(c)')
  BY DEF Arrive, Busy, Acquire, server, GoTo, Running, Waiting, TypeInv, TypeOK
<1>6. LocksAfter(c)
  BY <1>1, <1>2, KeptLocksAfter DEF LocksKept
<1>. QED
  BY <1>1, <1>3, <1>4, <1>5, <1>6, OneCallUses

LEMMA TimeoutUses == ASSUME TypeInv, LocksAreUsed, NEW c \in Call, Timeout(c) PROVE LocksAreUsed'
<1>1. PICK hit \in SUBSET Interruptible : pc' = [z \in Call |-> IF z \in hit THEN "interrupted" ELSE pc[z]]
  BY DEF Timeout
<1>2. executors' = executors /\ registryLock' = registryLock /\ local' = local /\ slot' = NoCall
  BY DEF Timeout, registered
<1>3. \A d \in Call : /\ Opening(d)' = Opening(d)
                      /\ \A e : UsesOf(d, e)' = UsesOf(d, e)
  BY <1>1, <1>2 DEF Interruptible, Opening, UsesOf, Executing, Mine
<1>4. \A e \in 1 .. Len(executors) : executors[e].lock # NoCall => executors[e].lock \in Call
  <2>1. \A e \in 1 .. Len(executors) : executors[e] \in Executor
    <3>. HIDE DEF Executor
    <3>. QED
      BY SameExecutors, ElementOfSeq
  <2>. QED
    BY <2>1 DEF Executor
<1>. QED
  BY <1>2, <1>3, <1>4, RestTypes DEF LocksAreUsed, SlotIsUsed, RegistryIsUsed, ExecutorsAreUsed

\* The end of a call that is not opening: it uses no executor any more.
LEMMA EndUses ==
  ASSUME TypeInv, LocksAreUsed, NEW c \in Call, NEW result, NEW history, EndsHavingSeen(c, result, history),
         ~ Opening(c), registryLock' = registryLock, LocksAfter(c)
  PROVE  LocksAreUsed'
<1>1. GoTo(c, "done") /\ local' = [local EXCEPT ![c] = NoLocal] /\ slot' = IF slot = c THEN NoCall ELSE slot
  BY DEF EndsHavingSeen
<1>2. registryLock # c
  BY DEF LocksAreUsed, RegistryIsUsed
<1>3. \A d \in Call : d # c => local'[d] = local[d]
  BY <1>1 DEF TypeInv, TypeOK
<1>. QED
  BY <1>1, <1>2, <1>3, OneCallUses

\* A step of a thread that goes on, and keeps what it uses.
LEMMA StepUses ==
  ASSUME TypeInv, LocksAreUsed, NEW c \in Call, NEW w, GoTo(c, w), w \notin Waiting \cup {"done"},
         slot' = slot, \A d \in Call : d # c => local'[d] = local[d], LocksAfter(c),
         registryLock' = registryLock, Opening(c) => Opening(c)'
  PROVE  LocksAreUsed'
<1>1. Running(c)'
  BY DEF GoTo, Running, TypeInv, TypeOK
<1>2. registryLock = c => Opening(c)'
  BY DEF LocksAreUsed, RegistryIsUsed
<1>. QED
  BY <1>1, <1>2, OneCallUses

LEMMA ResolveUses == ASSUME TypeInv, LocksAreUsed, NEW c \in Call, Resolve(c) PROVE LocksAreUsed'
<1>1. pc[c] = "resolve" /\ executors' = executors /\ registryLock' = registryLock
  BY DEF Resolve, registered
<1>2. ~ Executing(c) /\ ~ Opening(c)
  BY <1>1 DEF Executing, Opening
<1>3. LocksAfter(c)
  BY <1>1, <1>2, KeptLocksAfter DEF LocksKept
<1>4. CASE file = 0
  BY <1>1, <1>2, <1>3, <1>4, EndUses DEF Resolve, Ends
<1>5. CASE file # 0
  <2>1. PICK w \in {"invalidate", "registry"} : GoTo(c, w)
    BY <1>5 DEF Resolve
  <2>2. slot' = slot /\ local' = local
    BY <1>5 DEF Resolve, server
  <2>. QED
    BY <1>1, <1>2, <1>3, <2>1, <2>2, StepUses DEF Waiting
<1>. QED
  BY <1>4, <1>5

LEMMA GetExecutorUses == ASSUME TypeInv, LocksAreUsed, NEW c \in Call, GetExecutor(c) PROVE LocksAreUsed'
<1>1. /\ pc[c] = "registry" /\ slot' = slot /\ registryLock = NoCall
  BY DEF GetExecutor, server
<1>2. ~ Executing(c) /\ ~ Opening(c) /\ local[c] = NoLocal
  BY <1>1 DEF Executing, Opening, TypeInv, NoLocalYet
<1>3. CASE registry # 0
  <2>1. /\ local' = [local EXCEPT ![c].mine = registry] /\ GoTo(c, "lock")
        /\ executors' = executors /\ registryLock' = registryLock
    BY <1>3 DEF GetExecutor
  <2>2. LocksAfter(c)
    BY <1>2, <2>1, KeptLocksAfter DEF LocksKept
  <2>3. \A d \in Call : d # c => local'[d] = local[d]
    BY <2>1 DEF TypeInv, TypeOK
  <2>. QED
    BY <1>1, <1>2, <2>1, <2>2, <2>3, StepUses DEF Waiting
<1>4. CASE registry = 0
  <2>. DEFINE new == NewExecutor
  <2>1. /\ executors' = Append(executors, new)
        /\ local' = [local EXCEPT ![c].mine = Len(executors) + 1]
        /\ registryLock' = c /\ GoTo(c, "connect")
    BY <1>4 DEF GetExecutor
  <2>2. new \in Executor /\ new.lock = NoCall
    BY DEF Executor, NewExecutor
  <2>3. /\ Len(executors') = Len(executors) + 1 /\ executors'[Len(executors) + 1] = new
        /\ \A e \in 1 .. Len(executors) : executors'[e] = executors[e]
    <3>. HIDE DEF Executor, new
    <3>. QED
      BY <2>1, <2>2, SameExecutors, AppendProperties
  <2>4. LocksAfter(c)
    <3>1. SUFFICES ASSUME NEW e \in 1 .. Len(executors')
                   PROVE  \/ executors'[e].lock = NoCall
                          \/ /\ e \in 1 .. Len(executors) /\ executors'[e].lock = executors[e].lock
                             /\ executors[e].lock # c
      BY DEF LocksAfter
    <3>2. CASE e = Len(executors) + 1
      BY <3>2, <2>2, <2>3
    <3>3. CASE e \in 1 .. Len(executors)
      <4>1. executors[e].lock # c
        BY <3>3, <1>2 DEF LocksAreUsed, ExecutorsAreUsed, UsesOf
      <4>. QED
        BY <3>3, <4>1, <2>3
    <3>. QED
      BY <3>2, <3>3, <2>3, SameExecutors
  <2>5. Opening(c)' /\ \A d \in Call : d # c => local'[d] = local[d]
    <3>1. pc'[c] = "connect"
      BY <2>1 DEF GoTo, TypeInv, TypeOK
    <3>2. local'[c] = [NoLocal EXCEPT !.mine = Len(executors) + 1] /\ \A d \in Call : d # c => local'[d] = local[d]
      BY <2>1, <1>2 DEF TypeInv, TypeOK
    <3>. QED
      BY <3>1, <3>2 DEF Opening, NoLocal
  <2>6. slot' = slot /\ Running(c)'
    BY <1>1, <2>1 DEF GoTo, Running, Waiting, TypeInv, TypeOK
  <2>. QED
    BY <2>1, <2>4, <2>5, <2>6, OneCallUses
<1>. QED
  BY <1>3, <1>4

LEMMA ConnectUses == ASSUME TypeInv, LocksAreUsed, NEW c \in Call, Connect(c) PROVE LocksAreUsed'
<1>1. /\ pc[c] = "connect" /\ GoTo(c, "stat") /\ slot' = slot /\ executors' = executors
      /\ registryLock' = registryLock
      /\ \E f : local' = [local EXCEPT ![c].opening = f]
  BY DEF Connect, server, registered
<1>2. /\ \A d \in Call : d # c => local'[d] = local[d]
      /\ local'[c].after = local[c].after /\ local'[c].mine = local[c].mine
  <2>1. local[c] \in Local
    BY SameExecutors
  <2>. QED
    BY <1>1, <2>1 DEF TypeInv, TypeOK, Local
<1>3. pc'[c] = "stat"
  BY <1>1 DEF GoTo, TypeInv, TypeOK
<1>4. (Executing(c) => Executing(c)' /\ Mine(c)' = Mine(c)) /\ (Opening(c) => Opening(c)')
  BY <1>1, <1>2, <1>3 DEF Executing, Opening, Mine
<1>5. LocksAfter(c)
  BY <1>1, <1>4, KeptLocksAfter DEF LocksKept
<1>. QED
  BY <1>1, <1>2, <1>4, <1>5, StepUses DEF Waiting

LEMMA StatUses == ASSUME TypeInv, LocksAreUsed, NEW c \in Call, Stat(c) PROVE LocksAreUsed'
<1>. DEFINE new == [executors[Mine(c)] EXCEPT !.open = TRUE, !.conn = local[c].opening, !.identity = file,
                                              !.moved = local[c].opening # file]
<1>1. /\ pc[c] = "stat" /\ GoTo(c, local[c].after) /\ slot' = slot /\ local' = local
      /\ executors' = [executors EXCEPT ![Mine(c)] = new]
      /\ registryLock' = IF local[c].after = "lock" THEN NoCall ELSE registryLock
  BY DEF Stat, server
<1>2. local[c] \in Local /\ local[c].after \in {"lock", "query"}
  BY SameExecutors DEF Local
<1>3. Executing(c) \/ Opening(c)
  BY <1>1, <1>2 DEF Executing, Opening
<1>4. Mine(c) \in 1 .. Len(executors) /\ executors[Mine(c)] \in Executor
  BY <1>3, MyExecutor
<1>5. new \in Executor /\ new.lock = executors[Mine(c)].lock
  <2>1. local[c].opening \in Nat /\ file \in Nat
    BY <1>2 DEF Local, TypeInv, TypeOK
  <2>. QED
    BY <1>4, <2>1 DEF Executor
<1>6. LocksKept
  <2>. HIDE DEF new
  <2>. QED
    BY <1>1, <1>4, <1>5, ExecutorKeepsLock
<1>7. pc'[c] = local[c].after /\ Running(c)' /\ Mine(c)' = Mine(c)
  BY <1>1, <1>2 DEF GoTo, Running, Waiting, Mine, TypeInv, TypeOK
<1>8. Executing(c) => Executing(c)'
  BY <1>1, <1>2, <1>7 DEF Executing
<1>9. LocksAfter(c)
  BY <1>6, <1>7, <1>8, KeptLocksAfter
<1>10. registryLock' = NoCall \/ (registryLock' = registryLock /\ registryLock # c)
  BY <1>1 DEF LocksAreUsed, RegistryIsUsed, Opening
<1>. QED
  BY <1>1, <1>7, <1>9, <1>10, OneCallUses

\* A failed open releases the registry, or the executor.
LEMMA OpenFailsUses == ASSUME TypeInv, LocksAreUsed, NEW c \in Call, OpenFails(c) PROVE LocksAreUsed'
<1>1. Ends(c, "error") /\ pc[c] \in {"connect", "stat"} /\ local[c].after \in {"lock", "query"}
  BY SameExecutors DEF OpenFails, Local
<1>2. CASE local[c].after = "lock"
  <2>1. executors' = executors /\ registryLock' = NoCall /\ ~ Executing(c)
    BY <1>1, <1>2 DEF OpenFails, Executing
  <2>2. /\ GoTo(c, "done") /\ local' = [local EXCEPT ![c] = NoLocal]
        /\ slot' = IF slot = c THEN NoCall ELSE slot
    BY <1>1 DEF Ends, EndsHavingSeen
  <2>3. \A d \in Call : d # c => local'[d] = local[d]
    BY <2>2 DEF TypeInv, TypeOK
  <2>4. LocksAfter(c)
    BY <2>1, KeptLocksAfter DEF LocksKept
  <2>. QED
    BY <2>1, <2>2, <2>3, <2>4, OneCallUses
<1>3. CASE local[c].after = "query"
  <2>1. /\ Executing(c) /\ ~ Opening(c) /\ registryLock' = registryLock
        /\ executors' = [executors EXCEPT ![Mine(c)].lock = NoCall]
    BY <1>1, <1>3 DEF OpenFails, Unlocked, Executing, Opening
  <2>2. /\ Len(executors') = Len(executors) /\ executors'[Mine(c)].lock = NoCall
        /\ \A d \in 1 .. Len(executors) : d # Mine(c) => executors'[d] = executors[d]
    BY <2>1, SameExecutors, LockChanges
  <2>3. \A d \in 1 .. Len(executors) : d # Mine(c) => executors[d].lock # c
    BY DEF LocksAreUsed, ExecutorsAreUsed, UsesOf
  <2>4. LocksAfter(c)
    BY <2>2, <2>3 DEF LocksAfter
  <2>. QED
    BY <1>1, <2>1, <2>4, EndUses DEF Ends
<1>. QED
  BY <1>1, <1>2, <1>3

LEMMA LockUses == ASSUME TypeInv, LocksAreUsed, NEW c \in Call, Lock(c) PROVE LocksAreUsed'
<1>1. /\ pc[c] = "lock" /\ executors' = [executors EXCEPT ![Mine(c)].lock = c] /\ GoTo(c, "check")
      /\ slot' = slot /\ registryLock' = registryLock /\ local' = local
  BY DEF Lock, server
<1>2. ~ Executing(c) /\ ~ Opening(c) /\ Mine(c) \in 1 .. Len(executors)
  BY <1>1, MyExecutor DEF Executing, Opening
<1>3. /\ Len(executors') = Len(executors) /\ executors'[Mine(c)].lock = c
      /\ \A d \in 1 .. Len(executors) : d # Mine(c) => executors'[d] = executors[d]
  BY <1>1, <1>2, LockChanges
<1>4. \A d \in 1 .. Len(executors) : executors[d].lock # c
  BY <1>2 DEF LocksAreUsed, ExecutorsAreUsed, UsesOf
<1>5. UsesOf(c, Mine(c))'
  BY <1>1 DEF UsesOf, Executing, Mine, GoTo, TypeInv, TypeOK
<1>6. Mine(c)' = Mine(c)
  BY <1>1 DEF Mine
<1>7. LocksAfter(c)
  BY <1>3, <1>4, <1>5, <1>6 DEF LocksAfter, UsesOf
<1>. QED
  BY <1>1, <1>2, <1>7, StepUses DEF Waiting

LEMMA QueryUses ==
  ASSUME TypeInv, LocksAreUsed, NEW c \in Call,
         CheckReindex(c) \/ HealthCheck(c) \/ StartQuery(c) \/ FinishQuery(c) \/ FatalError(c) \/ Raise(c)
  PROVE  LocksAreUsed'
<1>1. registryLock' = registryLock /\ pc[c] \in {"check", "health", "query", "running", "interrupted"}
  BY DEF CheckReindex, HealthCheck, StartQuery, FinishQuery, FatalError, Raise
<1>2. Executing(c) /\ ~ Opening(c) /\ Mine(c) \in 1 .. Len(executors)
  BY <1>1, MyExecutor DEF Executing, Opening
<1>3. \/ \E w \in {"health", "query", "running"} :
           GoTo(c, w) /\ executors' = executors /\ local' = local /\ slot' = slot
      \/ \E retry \in BOOLEAN : Reconnects(c, retry) /\ slot' = slot
      \/ \E result \in {"ok", "error"} : Ends(c, result) /\ executors' = Unlocked(Mine(c))
  <2>1. CASE CheckReindex(c) \/ HealthCheck(c)
    BY <2>1 DEF CheckReindex, HealthCheck, server
  <2>2. CASE StartQuery(c) \/ FatalError(c)
    BY <2>2 DEF StartQuery, FatalError, server
  <2>3. CASE FinishQuery(c) \/ Raise(c)
    BY <2>3 DEF FinishQuery, Raise
  <2>. QED
    BY <2>1, <2>2, <2>3
<1>4. CASE \E w \in {"health", "query", "running"} :
             GoTo(c, w) /\ executors' = executors /\ local' = local /\ slot' = slot
  <2>1. PICK w \in {"health", "query", "running"} :
          GoTo(c, w) /\ executors' = executors /\ local' = local /\ slot' = slot
    BY <1>4
  <2>2. Executing(c)' /\ Mine(c)' = Mine(c)
    BY <2>1 DEF GoTo, Executing, Mine, TypeInv, TypeOK
  <2>3. LocksAfter(c)
    BY <2>1, <2>2, KeptLocksAfter DEF LocksKept
  <2>. QED
    BY <1>1, <1>2, <2>1, <2>3, StepUses DEF Waiting
<1>5. CASE \E retry \in BOOLEAN : Reconnects(c, retry) /\ slot' = slot
  <2>1. PICK retry \in BOOLEAN : Reconnects(c, retry) /\ slot' = slot
    BY <1>5
  <2>2. /\ executors' = [executors EXCEPT ![Mine(c)].open = FALSE] /\ GoTo(c, "connect")
        /\ local' = [local EXCEPT ![c].after = "query", ![c].retried = retry]
    BY <2>1 DEF Reconnects
  <2>3. pc'[c] = "connect" /\ \A d \in Call : d # c => local'[d] = local[d]
    BY <2>2 DEF GoTo, TypeInv, TypeOK
  <2>4. Mine(c)' = Mine(c) /\ local'[c].after = "query"
    BY <2>2, SameExecutors DEF Mine, Local, TypeInv, TypeOK
  <2>5. LocksAfter(c)
    BY <1>2, <2>2, <2>3, <2>4, ClosingKeepsLock, KeptLocksAfter DEF Executing
  <2>. QED
    BY <1>1, <1>2, <2>1, <2>2, <2>3, <2>5, StepUses DEF Waiting
<1>6. CASE \E result \in {"ok", "error"} : Ends(c, result) /\ executors' = Unlocked(Mine(c))
  <2>1. /\ Len(executors') = Len(executors) /\ executors'[Mine(c)].lock = NoCall
        /\ \A d \in 1 .. Len(executors) : d # Mine(c) => executors'[d] = executors[d]
    BY <1>2, <1>6, LockChanges DEF Unlocked
  <2>2. \A d \in 1 .. Len(executors) : d # Mine(c) => executors[d].lock # c
    BY DEF LocksAreUsed, ExecutorsAreUsed, UsesOf
  <2>3. LocksAfter(c)
    BY <2>1, <2>2 DEF LocksAfter
  <2>. QED
    BY <1>1, <1>2, <1>6, <2>3, EndUses DEF Ends
<1>. QED
  BY <1>3, <1>4, <1>5, <1>6

LEMMA InvalidateUses == ASSUME TypeInv, LocksAreUsed, NEW c \in Call, Invalidate(c) PROVE LocksAreUsed'
<1>1. /\ pc[c] = "invalidate" /\ GoTo(c, "unlink") /\ slot' = slot /\ local' = local
      /\ registryLock' = registryLock
      /\ executors' = IF registry = 0 THEN executors ELSE [executors EXCEPT ![registry].open = FALSE]
  BY DEF Invalidate, server
<1>2. ~ Executing(c) /\ ~ Opening(c)
  BY <1>1 DEF Executing, Opening
<1>3. LocksKept
  <2>1. registry \in 0 .. Len(executors) /\ Len(executors) \in Nat
    BY SameExecutors
  <2>2. CASE registry = 0
    BY <1>1, <2>2 DEF LocksKept
  <2>3. CASE registry # 0
    <3>1. registry \in 1 .. Len(executors)
      BY <2>1, <2>3
    <3>. QED
      BY <1>1, <2>3, <3>1, ClosingKeepsLock
  <2>. QED
    BY <2>2, <2>3
<1>. QED
  BY <1>1, <1>2, <1>3, KeptLocksAfter, StepUses DEF Waiting

LEMMA RestUses ==
  ASSUME TypeInv, LocksAreUsed, (\E c \in Call : Unlink(c)) \/ DeletedElsewhere \/ IndexRun
  PROVE  LocksAreUsed'
<1>1. executors' = executors /\ registryLock' = registryLock
  BY DEF Unlink, DeletedElsewhere, IndexRun, registered
<1>2. ASSUME NEW c \in Call, Unlink(c) PROVE LocksAreUsed'
  <2>1. ~ Executing(c) /\ ~ Opening(c)
    BY <1>2 DEF Unlink, Executing, Opening
  <2>2. LocksAfter(c)
    BY <1>1, <2>1, KeptLocksAfter DEF LocksKept
  <2>3. \E result, history : EndsHavingSeen(c, result, history)
    BY <1>2 DEF Unlink, Ends
  <2>. QED
    BY <1>1, <2>1, <2>2, <2>3, EndUses
<1>3. CASE DeletedElsewhere \/ IndexRun
  <2>1. pc' = pc /\ slot' = slot /\ local' = local
    BY <1>3 DEF DeletedElsewhere, IndexRun, server
  <2>. QED
    BY <1>1, <2>1
      DEF LocksAreUsed, SlotIsUsed, RegistryIsUsed, ExecutorsAreUsed, UsesOf, Running, Opening, Executing, Mine
<1>. QED
  BY <1>2, <1>3

LEMMA UsesStep == ASSUME TypeInv, LocksAreUsed, [Next]_vars PROVE LocksAreUsed'
<1>1. CASE UNCHANGED vars
  BY <1>1 DEF vars, LocksAreUsed, SlotIsUsed, RegistryIsUsed, ExecutorsAreUsed, UsesOf, Running, Opening,
              Executing, Mine
<1>2. CASE DeletedElsewhere \/ IndexRun
  BY <1>2, RestUses
<1>3. ASSUME NEW c \in Call, Arrive(c) \/ Busy(c) \/ Acquire(c) \/ Timeout(c) PROVE LocksAreUsed'
  BY <1>3, WrapperUses, TimeoutUses
<1>4. ASSUME NEW c \in Call, Thread(c) PROVE LocksAreUsed'
  BY <1>4, ResolveUses, GetExecutorUses, ConnectUses, StatUses, OpenFailsUses, LockUses, QueryUses,
     InvalidateUses, RestUses DEF Thread
<1>. QED
  BY <1>1, <1>2, <1>3, <1>4 DEF Next

\* No lock is left behind, by errors, interrupts, retries, closed connections or calls that
\* timed out: whoever has the slot, the registry or an executor is a thread on its way to
\* the release (_wrap_tool, get_executor, execute_sync).  A call that waits for one waits
\* for a thread that runs.
THEOREM NoLockIsLost == Spec => []LocksAreUsed
<1>1. TypeInv /\ LocksAreUsed /\ [Next]_vars => TypeInv' /\ LocksAreUsed'
  BY TypeStep, UsesStep
<1>. QED
  BY <1>1, TypeInit, UsesInit, PTL DEF Spec
=============================================================================
