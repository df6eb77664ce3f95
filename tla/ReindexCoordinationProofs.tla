----------------------- MODULE ReindexCoordinationProofs -----------------------
(***************************************************************************)
(* Proofs about ReindexCoordination, for every set of files, runs and      *)
(* manual operations, and every bound on what users do.                    *)
(***************************************************************************)
EXTENDS ReindexCoordination, TLAPS

Indexing == {"units", "parsed"}

\* A run is in its unit loop exactly while it holds index.lock.
LockHeld == \A r \in Runs : lock = r <=> run[r].pc \in Indexing

\* Only a run that holds the lock can be left with a deleted index.db, and
\* the project has no index as long as it goes on.
DetachedHolds == \A r \in Runs : r \in detached => lock = r /\ wiped

\* The daemon waits for a run that is there.
ChildThere ==
  /\ daemon = "wait" => child \in Runs /\ run[child].pc # "off"
  /\ child # None => daemon \in {"wait", "stopping"}
  /\ \A r \in Runs : run[r].pc = "start" => run[r].todo = {} /\ run[r].old = {}

\* The marker in every phase of the loop; the gate has work, a daemon that waits
\* has not given up, and without a daemon there is no flag.
MarkerHolds ==
  /\ Running => (marker <=> pending \/ daemon = "wait")
  /\ daemon = "gate" => pending
  /\ daemon = "wait" => ~gaveUp
  /\ daemon = "off" => ~pending

InLoop == daemon \in {"turn", "gate", "wait"}

\* A change the daemon knows of, or let go.
Known(f) == f \in events \/ pending \/ InHand(f) \/ f \in dropped

\* After a reset the daemon may not know of a change, and the run that makes
\* the index anew must then still have it before it.
NotMissed ==
  \A f \in Files, r \in Runs :
     /\ InLoop /\ ~gaveUp /\ wiped
     /\ index[f] = "behind"
     /\ lock = r /\ r \notin detached
     => Known(f) \/ f \in run[r].todo \ run[r].old

IInv == /\ TypeOK /\ LockHeld /\ DetachedHolds /\ ChildThere /\ MarkerHolds
        /\ NoForgottenChange /\ NotMissed

-----------------------------------------------------------------------------
(***************************************************************************)
(* Type correctness.                                                       *)
(***************************************************************************)
\* A store writes rows of the index only.
LEMMA StoredType ==
  ASSUME TypeOK, NEW f, NEW newest \in BOOLEAN
  PROVE  Stored(f, newest) \in [Files -> Rows]
  BY DEF TypeOK, Stored, Rows

\* The end of a run frees its slot, or leaves its code there, and frees its lock.
LEMMA ExitType ==
  ASSUME TypeOK, NEW r \in Runs, NEW code \in Codes, Exit(r, code)
  PROVE  /\ run' \in [Runs -> RunStates]
         /\ lock' \in Runs \cup {None}
         /\ detached' \subseteq Runs \cup Manuals
<1>1. /\ NoRun \in RunStates
      /\ [NoRun EXCEPT !.pc = "done", !.code = code] \in RunStates
  BY DEF NoRun, RunStates
<1> QED
  BY <1>1 DEF TypeOK, Exit

\* The records of runs and operations with some of their fields changed.
LEMMA RunRecords ==
  ASSUME NEW p \in RunStates, NEW f \in Files
  PROVE  /\ [p EXCEPT !.old = p.old \cup {f}] \in RunStates
         /\ [p EXCEPT !.pc = "parsed", !.unit = f] \in RunStates
  BY DEF RunStates

\* The record of a run that has stored a unit.
LEMMA StoredUnitRecord ==
  ASSUME NEW p \in RunStates
  PROVE  [p EXCEPT !.pc = "units", !.unit = None, !.todo = p.todo \ {p.unit}] \in RunStates
  BY DEF RunStates

\* The records of operations.
LEMMA OpRecords ==
  ASSUME NEW p \in OpStates
  PROVE  [p EXCEPT !.fresh = FALSE] \in OpStates
  BY DEF OpStates

\* Every step keeps the types.
LEMMA TypeStep ==
  ASSUME TypeOK, [Next]_vars
  PROVE  TypeOK'
<1> USE ReindexAssumption
    DEF TypeOK, RunStates, OpStates, daemonVars, runVars, manualVars, indexVars
<1>1. ASSUME NEW f \in Files, Edit(f)
      PROVE  TypeOK'
  <2>1. index' \in [Files -> Rows] /\ events' \subseteq Files
    BY <1>1 DEF Edit, Rows
  <2>2. run' \in [Runs -> RunStates]
    BY <1>1, RunRecords DEF Edit
  <2>3. manual' \in [Manuals -> OpStates]
    BY <1>1, OpRecords DEF Edit
  <2>4. left' \in [edits : 0..MaxEdits, cli : 0..MaxCli, ops : 0..MaxOps, boots : 0..MaxBoots]
    BY <1>1 DEF Edit
  <2> QED
    BY <1>1, <2>1, <2>2, <2>3, <2>4 DEF Edit
<1>2. ASSUME NEW m \in Manuals, NEW f \in Files, ReindexParse(m, f)
      PROVE  TypeOK'
  BY <1>2 DEF ReindexParse, SetOp, NoOp
<1>3. ASSUME NEW m \in Manuals, ReindexPause(m)
      PROVE  TypeOK'
  BY <1>3 DEF ReindexPause, SetOp
<1>4. ASSUME NEW m \in Manuals, ReindexStore(m)
      PROVE  TypeOK'
  <2>1. CASE m \in detached
    BY <1>4, <2>1 DEF ReindexStore, SetOp
  <2>2. CASE m \notin detached
    <3>1. /\ index' = Stored(manual[m].unit, manual[m].fresh)
          /\ manual' = [manual EXCEPT ![m] = [pc |-> "resuming", unit |-> None, fresh |-> FALSE]]
          /\ UNCHANGED <<daemonVars, runVars, events, wiped, dropped, pause, left>>
      BY <1>4, <2>2 DEF ReindexStore, SetOp
    <3>2. index' \in [Files -> Rows]
      BY <3>1, StoredType
    <3> QED
      BY <3>1, <3>2
  <2> QED
    BY <2>1, <2>2
<1>5. ASSUME NEW m \in Manuals, ReindexFails(m)
      PROVE  TypeOK'
  BY <1>5 DEF ReindexFails, SetOp
<1>6. ASSUME NEW m \in Manuals, ResetPause(m)
      PROVE  TypeOK'
  BY <1>6 DEF ResetPause, SetOp, NoOp
<1>7. ASSUME NEW m \in Manuals, ResetDelete(m)
      PROVE  TypeOK'
  BY <1>7 DEF ResetDelete, SetOp, Reindexing
<1>8. ASSUME NEW m \in Manuals, Resume(m)
      PROVE  TypeOK'
  BY <1>8 DEF Resume, SetOp, NoOp
<1>9. ASSUME NEW m \in Manuals, ManualDies(m)
      PROVE  TypeOK'
  BY <1>9 DEF ManualDies, SetOp, NoOp
<1>10. ASSUME NEW r \in Runs, StartCli(r)
       PROVE  TypeOK'
  BY <1>10 DEF StartCli, NoRun
<1>11. ASSUME NEW r \in Runs, TakeLock(r)
       PROVE  TypeOK'
  <2>1. CASE lock = None /\ lock' = r /\ UNCHANGED detached
             /\ run' = [run EXCEPT ![r] = [NoRun EXCEPT !.pc = "units", !.todo = ToParse]]
    <3>1. ToParse \in SUBSET Files
      BY DEF ToParse, Stale
    <3>2. [NoRun EXCEPT !.pc = "units", !.todo = ToParse] \in RunStates
      BY <3>1 DEF NoRun
    <3>3. run' \in [Runs -> RunStates]
      BY <2>1, <3>2
    <3> QED
      BY <1>11, <2>1, <3>3 DEF TakeLock
  <2>2. CASE Exit(r, "already_running")
    BY <1>11, <2>2, ExitType DEF TakeLock, Codes
  <2> QED
    BY <1>11, <2>1, <2>2 DEF TakeLock
<1>12. ASSUME NEW r \in Runs, NEW f \in Files, BeginUnit(r, f)
       PROVE  TypeOK'
  <2>1. run' \in [Runs -> RunStates]
    BY <1>12, RunRecords DEF BeginUnit
  <2> QED
    BY <1>12, <2>1 DEF BeginUnit
<1>13. ASSUME NEW r \in Runs, Superseded(r)
       PROVE  TypeOK'
  BY <1>13, ExitType DEF Superseded, Codes
<1>14. ASSUME NEW r \in Runs, StoreUnit(r)
       PROVE  TypeOK'
  <2>1. index' \in [Files -> Rows]
    BY <1>14, StoredType DEF StoreUnit
  <2>2. run' \in [Runs -> RunStates]
    BY <1>14, StoredUnitRecord DEF StoreUnit
  <2> QED
    BY <1>14, <2>1, <2>2 DEF StoreUnit
<1>15. ASSUME NEW r \in Runs, Complete(r)
       PROVE  TypeOK'
  BY <1>15, ExitType DEF Complete, Codes
<1>16. ASSUME NEW r \in Runs, Fail(r)
       PROVE  TypeOK'
  BY <1>16, ExitType DEF Fail, Codes
<1>17. ASSUME Boot
       PROVE  TypeOK'
  <2>1. left' \in [edits : 0..MaxEdits, cli : 0..MaxCli, ops : 0..MaxOps, boots : 0..MaxBoots]
    BY <1>17 DEF Boot
  <2> QED
    BY <1>17, <2>1 DEF Boot
<1>18. ASSUME StartupCheck
       PROVE  TypeOK'
  BY <1>18 DEF StartupCheck, SetPending
<1>19. ASSUME WatchEvent
       PROVE  TypeOK'
  BY <1>19 DEF WatchEvent, SetPending, Running
<1>20. ASSUME Debounce
       PROVE  TypeOK'
  BY <1>20 DEF Debounce
<1>21. ASSUME PauseOutlasts
       PROVE  TypeOK'
  BY <1>21 DEF PauseOutlasts
<1>22. ASSUME NEW r \in Runs, Spawn(r)
       PROVE  TypeOK'
  BY <1>22 DEF Spawn, NoRun
<1>23. ASSUME SpawnFails
       PROVE  TypeOK'
  <2>1. superseded' \in 0..(SupersededRunsMax - 1)
    BY <1>23 DEF SpawnFails, SupersededRunsMax
  <2> QED
    BY <1>23, <2>1 DEF SpawnFails
<1>24. ASSUME Outcome
       PROVE  TypeOK'
  <2>1. run' \in [Runs -> RunStates]
    BY <1>24 DEF Outcome, NoRun
  <2>2. /\ superseded' \in 0..(SupersededRunsMax - 1)
        /\ pending' \in BOOLEAN /\ marker' \in BOOLEAN /\ gaveUp' \in BOOLEAN
    <3>1. PICK code : \/ OutcomeAlreadyRunning(code)
                      \/ OutcomeSuperseded(code)
                      \/ OutcomeFinal(code)
      BY <1>24 DEF Outcome
    <3>2. superseded' \in 0..(SupersededRunsMax - 1)
      BY <3>1 DEF OutcomeAlreadyRunning, OutcomeSuperseded, OutcomeFinal, SupersededRunsMax
    <3>3. pending' \in BOOLEAN /\ marker' \in BOOLEAN /\ gaveUp' \in BOOLEAN
      BY <3>1, Zenon
      DEF OutcomeAlreadyRunning, OutcomeSuperseded, OutcomeFinal, SetPending, HideIfDone
    <3> QED
      BY <3>2, <3>3
  <2> QED
    BY <1>24, <2>1, <2>2 DEF Outcome
<1>25. ASSUME Stop
       PROVE  TypeOK'
  BY <1>25 DEF Stop, Running
<1>26. ASSUME Cleanup
       PROVE  TypeOK'
  <2>1. run' \in [Runs -> RunStates]
    BY <1>26 DEF Cleanup, NoRun
  <2>2. lock' \in Runs \cup {None} /\ detached' \subseteq Runs \cup Manuals
    BY <1>26 DEF Cleanup
  <2>3. superseded' \in 0..(SupersededRunsMax - 1)
    BY <1>26 DEF Cleanup, Gone, SupersededRunsMax
  <2> QED
    BY <1>26, <2>1, <2>2, <2>3 DEF Cleanup, Gone
<1>27. ASSUME DaemonDies
       PROVE  TypeOK'
  <2>1. run' \in [Runs -> RunStates]
    BY <1>27 DEF DaemonDies, NoRun
  <2>2. lock' \in Runs \cup {None} /\ detached' \subseteq Runs \cup Manuals
    BY <1>27 DEF DaemonDies
  <2>3. superseded' \in 0..(SupersededRunsMax - 1)
    BY <1>27 DEF DaemonDies, Gone, SupersededRunsMax
  <2> QED
    BY <1>27, <2>1, <2>2, <2>3 DEF DaemonDies, Gone
<1>28. ASSUME ReadStaleMarker
       PROVE  TypeOK'
  BY <1>28 DEF ReadStaleMarker
<1>29. CASE UNCHANGED vars
  BY <1>29 DEF vars
<1>30. ASSUME NEW r \in Runs, NEW f \in Files, SkipUnit(r, f)
       PROVE  TypeOK'
  <2>1. index' \in [Files -> Rows] /\ dropped' \subseteq Files
    BY <1>30 DEF SkipUnit, Rows
  <2>2. run' \in [Runs -> RunStates]
    BY <1>30, StoredUnitRecord DEF SkipUnit
  <2> QED
    BY <1>30, <2>1, <2>2 DEF SkipUnit
<1>31. ASSUME WatchFails
       PROVE  TypeOK'
  BY <1>31 DEF WatchFails
<1> QED
  BY <1>1, <1>2, <1>3, <1>4, <1>5, <1>6, <1>7, <1>8, <1>9, <1>10, <1>11, <1>12,
     <1>13, <1>14, <1>15, <1>16, <1>17, <1>18, <1>19, <1>20, <1>21, <1>22,
     <1>23, <1>24, <1>25, <1>26, <1>27, <1>28, <1>29, <1>30, <1>31
  DEF Next, ManualStep, RunStep, DaemonStep
-----------------------------------------------------------------------------
(***************************************************************************)
(* The lock, the runs and the marker.                                      *)
(***************************************************************************)
\* Only TakeLock and Exit move index.lock, each with its run.
LEMMA LockStep ==
  ASSUME TypeOK, LockHeld, [Next]_vars
  PROVE  LockHeld'
<1> USE ReindexAssumption DEF LockHeld, Indexing, TypeOK, daemonVars, runVars, manualVars, indexVars
<1>1. ASSUME NEW f \in Files, Edit(f)
      PROVE  LockHeld'
  BY <1>1 DEF Edit
<1>2. ASSUME NEW m \in Manuals, NEW f \in Files, ReindexParse(m, f)
      PROVE  LockHeld'
  BY <1>2 DEF ReindexParse, SetOp
<1>3. ASSUME NEW m \in Manuals, ReindexPause(m)
      PROVE  LockHeld'
  BY <1>3 DEF ReindexPause, SetOp
<1>4. ASSUME NEW m \in Manuals, ReindexStore(m)
      PROVE  LockHeld'
  BY <1>4 DEF ReindexStore, SetOp, Stored
<1>5. ASSUME NEW m \in Manuals, ReindexFails(m)
      PROVE  LockHeld'
  BY <1>5 DEF ReindexFails, SetOp
<1>6. ASSUME NEW m \in Manuals, ResetPause(m)
      PROVE  LockHeld'
  BY <1>6 DEF ResetPause, SetOp
<1>7. ASSUME NEW m \in Manuals, ResetDelete(m)
      PROVE  LockHeld'
  BY <1>7 DEF ResetDelete, SetOp, Reindexing
<1>8. ASSUME NEW m \in Manuals, Resume(m)
      PROVE  LockHeld'
  BY <1>8 DEF Resume, SetOp
<1>9. ASSUME NEW m \in Manuals, ManualDies(m)
      PROVE  LockHeld'
  BY <1>9 DEF ManualDies, SetOp
<1>10. ASSUME NEW r \in Runs, StartCli(r)
       PROVE  LockHeld'
  BY <1>10 DEF StartCli, NoRun
<1>11. ASSUME NEW r \in Runs, TakeLock(r)
       PROVE  LockHeld'
  <2>1. CASE Exit(r, "already_running") /\ lock # None
    BY <1>11, <2>1 DEF TakeLock, NoRun, Exit
  <2>2. CASE /\ lock = None
             /\ lock' = r
             /\ run' = [run EXCEPT ![r] = [NoRun EXCEPT !.pc = "units", !.todo = ToParse]]
    <3>1. run'[r].pc = "units" /\ \A s \in Runs \ {r} : run'[s] = run[s]
      BY <2>2 DEF NoRun
    <3> QED
      BY <1>11, <2>2, <3>1 DEF TakeLock
  <2> QED
    BY <1>11, <2>1, <2>2 DEF TakeLock
<1>12. ASSUME NEW r \in Runs, NEW f \in Files, BeginUnit(r, f)
       PROVE  LockHeld'
  BY <1>12 DEF BeginUnit
<1>13. ASSUME NEW r \in Runs, Superseded(r)
       PROVE  LockHeld'
  BY <1>13 DEF Superseded, NoRun, Exit
<1>14. ASSUME NEW r \in Runs, StoreUnit(r)
       PROVE  LockHeld'
  BY <1>14 DEF StoreUnit, Stored
<1>15. ASSUME NEW r \in Runs, Complete(r)
       PROVE  LockHeld'
  BY <1>15 DEF Complete, NoRun, Exit
<1>16. ASSUME NEW r \in Runs, Fail(r)
       PROVE  LockHeld'
  BY <1>16 DEF Fail, NoRun, Exit
<1>17. ASSUME Boot
       PROVE  LockHeld'
  BY <1>17 DEF Boot
<1>18. ASSUME StartupCheck
       PROVE  LockHeld'
  BY <1>18 DEF StartupCheck, SetPending, Stale
<1>19. ASSUME WatchEvent
       PROVE  LockHeld'
  BY <1>19 DEF WatchEvent, SetPending
<1>20. ASSUME Debounce
       PROVE  LockHeld'
  BY <1>20 DEF Debounce
<1>21. ASSUME PauseOutlasts
       PROVE  LockHeld'
  BY <1>21 DEF PauseOutlasts
<1>22. ASSUME NEW r \in Runs, Spawn(r)
       PROVE  LockHeld'
  BY <1>22 DEF Spawn, NoRun
<1>23. ASSUME SpawnFails
       PROVE  LockHeld'
  BY <1>23 DEF SpawnFails
<1>24. ASSUME Outcome
       PROVE  LockHeld'
  BY <1>24 DEF Outcome, NoRun, OutcomeAlreadyRunning, OutcomeSuperseded,
     OutcomeFinal, SetPending, HideIfDone
<1>25. ASSUME Stop
       PROVE  LockHeld'
  BY <1>25 DEF Stop
<1>26. ASSUME Cleanup
       PROVE  LockHeld'
  BY <1>26 DEF Cleanup, Gone, NoRun
<1>27. ASSUME DaemonDies
       PROVE  LockHeld'
  BY <1>27 DEF DaemonDies, Gone, NoRun
<1>28. ASSUME ReadStaleMarker
       PROVE  LockHeld'
  BY <1>28 DEF ReadStaleMarker
<1>29. CASE UNCHANGED vars
  BY <1>29 DEF vars
<1>30. ASSUME NEW r \in Runs, NEW f \in Files, SkipUnit(r, f)
       PROVE  LockHeld'
  BY <1>30 DEF SkipUnit
<1>31. ASSUME WatchFails
       PROVE  LockHeld'
  BY <1>31 DEF WatchFails
<1> QED
  BY <1>1, <1>2, <1>3, <1>4, <1>5, <1>6, <1>7, <1>8, <1>9, <1>10, <1>11,
     <1>12, <1>13, <1>14, <1>15, <1>16, <1>17, <1>18, <1>19, <1>20, <1>21,
     <1>22, <1>23, <1>24, <1>25, <1>26, <1>27, <1>28, <1>29, <1>30, <1>31
  DEF Next, ManualStep, RunStep, DaemonStep

\* The marker follows the flag through every turn of the loop.
LEMMA MarkerStep ==
  ASSUME TypeOK, MarkerHolds, [Next]_vars
  PROVE  MarkerHolds'
<1> USE DEF MarkerHolds, Running, TypeOK, daemonVars, runVars, manualVars, indexVars
<1>1. ASSUME NEW f \in Files, Edit(f)
      PROVE  MarkerHolds'
  BY <1>1 DEF Edit
<1>2. ASSUME NEW m \in Manuals, NEW f \in Files, ReindexParse(m, f)
      PROVE  MarkerHolds'
  BY <1>2 DEF ReindexParse, SetOp
<1>3. ASSUME NEW m \in Manuals, ReindexPause(m)
      PROVE  MarkerHolds'
  BY <1>3 DEF ReindexPause, SetOp
<1>4. ASSUME NEW m \in Manuals, ReindexStore(m)
      PROVE  MarkerHolds'
  BY <1>4 DEF ReindexStore, SetOp, Stored
<1>5. ASSUME NEW m \in Manuals, ReindexFails(m)
      PROVE  MarkerHolds'
  BY <1>5 DEF ReindexFails, SetOp
<1>6. ASSUME NEW m \in Manuals, ResetPause(m)
      PROVE  MarkerHolds'
  BY <1>6 DEF ResetPause, SetOp
<1>7. ASSUME NEW m \in Manuals, ResetDelete(m)
      PROVE  MarkerHolds'
  BY <1>7 DEF ResetDelete, SetOp, Reindexing
<1>8. ASSUME NEW m \in Manuals, Resume(m)
      PROVE  MarkerHolds'
  BY <1>8 DEF Resume, SetOp
<1>9. ASSUME NEW m \in Manuals, ManualDies(m)
      PROVE  MarkerHolds'
  BY <1>9 DEF ManualDies, SetOp
<1>10. ASSUME NEW r \in Runs, StartCli(r)
       PROVE  MarkerHolds'
  BY <1>10 DEF StartCli, NoRun
<1>11. ASSUME NEW r \in Runs, TakeLock(r)
       PROVE  MarkerHolds'
  BY <1>11 DEF TakeLock, NoRun, Exit, ToParse, Stale
<1>12. ASSUME NEW r \in Runs, NEW f \in Files, BeginUnit(r, f)
       PROVE  MarkerHolds'
  BY <1>12 DEF BeginUnit
<1>13. ASSUME NEW r \in Runs, Superseded(r)
       PROVE  MarkerHolds'
  BY <1>13 DEF Superseded, NoRun, Exit
<1>14. ASSUME NEW r \in Runs, StoreUnit(r)
       PROVE  MarkerHolds'
  BY <1>14 DEF StoreUnit, Stored
<1>15. ASSUME NEW r \in Runs, Complete(r)
       PROVE  MarkerHolds'
  BY <1>15 DEF Complete, NoRun, Exit
<1>16. ASSUME NEW r \in Runs, Fail(r)
       PROVE  MarkerHolds'
  BY <1>16 DEF Fail, NoRun, Exit
<1>17. ASSUME Boot
       PROVE  MarkerHolds'
  BY <1>17 DEF Boot
<1>18. ASSUME StartupCheck
       PROVE  MarkerHolds'
  BY <1>18 DEF StartupCheck, SetPending, Stale
<1>19. ASSUME WatchEvent
       PROVE  MarkerHolds'
  BY <1>19 DEF WatchEvent, SetPending
<1>20. ASSUME Debounce
       PROVE  MarkerHolds'
  BY <1>20 DEF Debounce
<1>21. ASSUME PauseOutlasts
       PROVE  MarkerHolds'
  BY <1>21 DEF PauseOutlasts
<1>22. ASSUME NEW r \in Runs, Spawn(r)
       PROVE  MarkerHolds'
  BY <1>22 DEF Spawn, NoRun
<1>23. ASSUME SpawnFails
       PROVE  MarkerHolds'
  BY <1>23 DEF SpawnFails
<1>24. ASSUME Outcome
       PROVE  MarkerHolds'
  BY <1>24 DEF Outcome, NoRun, OutcomeAlreadyRunning, OutcomeSuperseded,
     OutcomeFinal, SetPending, HideIfDone
<1>25. ASSUME Stop
       PROVE  MarkerHolds'
  BY <1>25 DEF Stop
<1>26. ASSUME Cleanup
       PROVE  MarkerHolds'
  BY <1>26 DEF Cleanup, Gone, NoRun
<1>27. ASSUME DaemonDies
       PROVE  MarkerHolds'
  BY <1>27 DEF DaemonDies, Gone, NoRun
<1>28. ASSUME ReadStaleMarker
       PROVE  MarkerHolds'
  BY <1>28 DEF ReadStaleMarker
<1>29. CASE UNCHANGED vars
  BY <1>29 DEF vars
<1>30. ASSUME NEW r \in Runs, NEW f \in Files, SkipUnit(r, f)
       PROVE  MarkerHolds'
  BY <1>30 DEF SkipUnit
<1>31. ASSUME WatchFails
       PROVE  MarkerHolds'
  BY <1>31 DEF WatchFails
<1> QED
  BY <1>1, <1>2, <1>3, <1>4, <1>5, <1>6, <1>7, <1>8, <1>9, <1>10, <1>11,
     <1>12, <1>13, <1>14, <1>15, <1>16, <1>17, <1>18, <1>19, <1>20, <1>21,
     <1>22, <1>23, <1>24, <1>25, <1>26, <1>27, <1>28, <1>29, <1>30, <1>31
  DEF Next, ManualStep, RunStep, DaemonStep

\* The slot of the run the daemon waits for is not given away.
LEMMA ChildStep ==
  ASSUME TypeOK, ChildThere, [Next]_vars
  PROVE  ChildThere'
<1> USE ReindexAssumption DEF ChildThere, TypeOK, daemonVars, runVars, manualVars, indexVars
<1>1. ASSUME NEW f \in Files, Edit(f)
      PROVE  ChildThere'
  BY <1>1 DEF Edit
<1>2. ASSUME NEW m \in Manuals, NEW f \in Files, ReindexParse(m, f)
      PROVE  ChildThere'
  BY <1>2 DEF ReindexParse, SetOp
<1>3. ASSUME NEW m \in Manuals, ReindexPause(m)
      PROVE  ChildThere'
  BY <1>3 DEF ReindexPause, SetOp
<1>4. ASSUME NEW m \in Manuals, ReindexStore(m)
      PROVE  ChildThere'
  BY <1>4 DEF ReindexStore, SetOp, Stored
<1>5. ASSUME NEW m \in Manuals, ReindexFails(m)
      PROVE  ChildThere'
  BY <1>5 DEF ReindexFails, SetOp
<1>6. ASSUME NEW m \in Manuals, ResetPause(m)
      PROVE  ChildThere'
  BY <1>6 DEF ResetPause, SetOp
<1>7. ASSUME NEW m \in Manuals, ResetDelete(m)
      PROVE  ChildThere'
  BY <1>7 DEF ResetDelete, SetOp, Reindexing
<1>8. ASSUME NEW m \in Manuals, Resume(m)
      PROVE  ChildThere'
  BY <1>8 DEF Resume, SetOp
<1>9. ASSUME NEW m \in Manuals, ManualDies(m)
      PROVE  ChildThere'
  BY <1>9 DEF ManualDies, SetOp
<1>10. ASSUME NEW r \in Runs, StartCli(r)
       PROVE  ChildThere'
  BY <1>10 DEF StartCli, NoRun
<1>11. ASSUME NEW r \in Runs, TakeLock(r)
       PROVE  ChildThere'
  <2>1. CASE Exit(r, "already_running") /\ lock # None
    BY <1>11, <2>1 DEF TakeLock, NoRun, Exit
  <2>2. CASE /\ lock = None
             /\ lock' = r
             /\ run' = [run EXCEPT ![r] = [NoRun EXCEPT !.pc = "units", !.todo = ToParse]]
    <3>1. run'[r].pc = "units" /\ \A s \in Runs \ {r} : run'[s] = run[s]
      BY <2>2 DEF NoRun
    <3> QED
      BY <1>11, <2>2, <3>1 DEF TakeLock
  <2> QED
    BY <1>11, <2>1, <2>2 DEF TakeLock
<1>12. ASSUME NEW r \in Runs, NEW f \in Files, BeginUnit(r, f)
       PROVE  ChildThere'
  BY <1>12 DEF BeginUnit
<1>13. ASSUME NEW r \in Runs, Superseded(r)
       PROVE  ChildThere'
  BY <1>13 DEF Superseded, NoRun, Exit
<1>14. ASSUME NEW r \in Runs, StoreUnit(r)
       PROVE  ChildThere'
  BY <1>14 DEF StoreUnit, Stored
<1>15. ASSUME NEW r \in Runs, Complete(r)
       PROVE  ChildThere'
  BY <1>15 DEF Complete, NoRun, Exit
<1>16. ASSUME NEW r \in Runs, Fail(r)
       PROVE  ChildThere'
  BY <1>16 DEF Fail, NoRun, Exit
<1>17. ASSUME Boot
       PROVE  ChildThere'
  BY <1>17 DEF Boot
<1>18. ASSUME StartupCheck
       PROVE  ChildThere'
  BY <1>18 DEF StartupCheck, SetPending, Stale
<1>19. ASSUME WatchEvent
       PROVE  ChildThere'
  BY <1>19 DEF WatchEvent, SetPending
<1>20. ASSUME Debounce
       PROVE  ChildThere'
  BY <1>20 DEF Debounce
<1>21. ASSUME PauseOutlasts
       PROVE  ChildThere'
  BY <1>21 DEF PauseOutlasts
<1>22. ASSUME NEW r \in Runs, Spawn(r)
       PROVE  ChildThere'
  BY <1>22 DEF Spawn, NoRun
<1>23. ASSUME SpawnFails
       PROVE  ChildThere'
  BY <1>23 DEF SpawnFails
<1>24. ASSUME Outcome
       PROVE  ChildThere'
  BY <1>24 DEF Outcome, NoRun, OutcomeAlreadyRunning, OutcomeSuperseded,
     OutcomeFinal, SetPending, HideIfDone
<1>25. ASSUME Stop
       PROVE  ChildThere'
  BY <1>25 DEF Stop
<1>26. ASSUME Cleanup
       PROVE  ChildThere'
  BY <1>26 DEF Cleanup, Gone, NoRun
<1>27. ASSUME DaemonDies
       PROVE  ChildThere'
  BY <1>27 DEF DaemonDies, Gone, NoRun
<1>28. ASSUME ReadStaleMarker
       PROVE  ChildThere'
  BY <1>28 DEF ReadStaleMarker
<1>29. CASE UNCHANGED vars
  BY <1>29 DEF vars
<1>30. ASSUME NEW r \in Runs, NEW f \in Files, SkipUnit(r, f)
       PROVE  ChildThere'
  BY <1>30 DEF SkipUnit
<1>31. ASSUME WatchFails
       PROVE  ChildThere'
  BY <1>31 DEF WatchFails
<1> QED
  BY <1>1, <1>2, <1>3, <1>4, <1>5, <1>6, <1>7, <1>8, <1>9, <1>10, <1>11,
     <1>12, <1>13, <1>14, <1>15, <1>16, <1>17, <1>18, <1>19, <1>20, <1>21,
     <1>22, <1>23, <1>24, <1>25, <1>26, <1>27, <1>28, <1>29, <1>30, <1>31
  DEF Next, ManualStep, RunStep, DaemonStep

\* While a run works on a deleted index.db nobody else can complete.
LEMMA DetachedStep ==
  ASSUME TypeOK, LockHeld, DetachedHolds, [Next]_vars
  PROVE  DetachedHolds'
<1> USE ReindexAssumption
    DEF LockHeld, Indexing, DetachedHolds, TypeOK, daemonVars, runVars, manualVars, indexVars
<1>1. ASSUME NEW f \in Files, Edit(f)
      PROVE  DetachedHolds'
  BY <1>1 DEF Edit
<1>2. ASSUME NEW m \in Manuals, NEW f \in Files, ReindexParse(m, f)
      PROVE  DetachedHolds'
  BY <1>2 DEF ReindexParse, SetOp
<1>3. ASSUME NEW m \in Manuals, ReindexPause(m)
      PROVE  DetachedHolds'
  BY <1>3 DEF ReindexPause, SetOp
<1>4. ASSUME NEW m \in Manuals, ReindexStore(m)
      PROVE  DetachedHolds'
  BY <1>4 DEF ReindexStore, SetOp, Stored
<1>5. ASSUME NEW m \in Manuals, ReindexFails(m)
      PROVE  DetachedHolds'
  BY <1>5 DEF ReindexFails, SetOp
<1>6. ASSUME NEW m \in Manuals, ResetPause(m)
      PROVE  DetachedHolds'
  BY <1>6 DEF ResetPause, SetOp
<1>7. ASSUME NEW m \in Manuals, ResetDelete(m)
      PROVE  DetachedHolds'
  BY <1>7 DEF ResetDelete, SetOp, Reindexing
<1>8. ASSUME NEW m \in Manuals, Resume(m)
      PROVE  DetachedHolds'
  BY <1>8 DEF Resume, SetOp
<1>9. ASSUME NEW m \in Manuals, ManualDies(m)
      PROVE  DetachedHolds'
  BY <1>9 DEF ManualDies, SetOp
<1>10. ASSUME NEW r \in Runs, StartCli(r)
       PROVE  DetachedHolds'
  BY <1>10 DEF StartCli, NoRun
<1>11. ASSUME NEW r \in Runs, TakeLock(r)
       PROVE  DetachedHolds'
  BY <1>11 DEF TakeLock, NoRun, Exit, ToParse, Stale
<1>12. ASSUME NEW r \in Runs, NEW f \in Files, BeginUnit(r, f)
       PROVE  DetachedHolds'
  BY <1>12 DEF BeginUnit
<1>13. ASSUME NEW r \in Runs, Superseded(r)
       PROVE  DetachedHolds'
  BY <1>13 DEF Superseded, NoRun, Exit
<1>14. ASSUME NEW r \in Runs, StoreUnit(r)
       PROVE  DetachedHolds'
  BY <1>14 DEF StoreUnit, Stored
<1>15. ASSUME NEW r \in Runs, Complete(r)
       PROVE  DetachedHolds'
  BY <1>15 DEF Complete, NoRun, Exit
<1>16. ASSUME NEW r \in Runs, Fail(r)
       PROVE  DetachedHolds'
  BY <1>16 DEF Fail, NoRun, Exit
<1>17. ASSUME Boot
       PROVE  DetachedHolds'
  BY <1>17 DEF Boot
<1>18. ASSUME StartupCheck
       PROVE  DetachedHolds'
  BY <1>18 DEF StartupCheck, SetPending, Stale
<1>19. ASSUME WatchEvent
       PROVE  DetachedHolds'
  BY <1>19 DEF WatchEvent, SetPending
<1>20. ASSUME Debounce
       PROVE  DetachedHolds'
  BY <1>20 DEF Debounce
<1>21. ASSUME PauseOutlasts
       PROVE  DetachedHolds'
  BY <1>21 DEF PauseOutlasts
<1>22. ASSUME NEW r \in Runs, Spawn(r)
       PROVE  DetachedHolds'
  BY <1>22 DEF Spawn, NoRun
<1>23. ASSUME SpawnFails
       PROVE  DetachedHolds'
  BY <1>23 DEF SpawnFails
<1>24. ASSUME Outcome
       PROVE  DetachedHolds'
  BY <1>24 DEF Outcome, NoRun, OutcomeAlreadyRunning, OutcomeSuperseded,
     OutcomeFinal, SetPending, HideIfDone
<1>25. ASSUME Stop
       PROVE  DetachedHolds'
  BY <1>25 DEF Stop
<1>26. ASSUME Cleanup
       PROVE  DetachedHolds'
  BY <1>26 DEF Cleanup, Gone, NoRun
<1>27. ASSUME DaemonDies
       PROVE  DetachedHolds'
  BY <1>27 DEF DaemonDies, Gone, NoRun
<1>28. ASSUME ReadStaleMarker
       PROVE  DetachedHolds'
  BY <1>28 DEF ReadStaleMarker
<1>29. CASE UNCHANGED vars
  BY <1>29 DEF vars
<1>30. ASSUME NEW r \in Runs, NEW f \in Files, SkipUnit(r, f)
       PROVE  DetachedHolds'
  BY <1>30 DEF SkipUnit
<1>31. ASSUME WatchFails
       PROVE  DetachedHolds'
  BY <1>31 DEF WatchFails
<1> QED
  BY <1>1, <1>2, <1>3, <1>4, <1>5, <1>6, <1>7, <1>8, <1>9, <1>10, <1>11,
     <1>12, <1>13, <1>14, <1>15, <1>16, <1>17, <1>18, <1>19, <1>20, <1>21,
     <1>22, <1>23, <1>24, <1>25, <1>26, <1>27, <1>28, <1>29, <1>30, <1>31
  DEF Next, ManualStep, RunStep, DaemonStep
-----------------------------------------------------------------------------
(***************************************************************************)
(* The changes the daemon knows of.                                        *)
(***************************************************************************)
\* No step loses a change that is not dropped.
LEMMA CoverStep ==
  ASSUME TypeOK, LockHeld, DetachedHolds, ChildThere, MarkerHolds,
         NoForgottenChange, NotMissed, [Next]_vars
  PROVE  (NoForgottenChange /\ NotMissed)'
<1> USE ReindexAssumption DEF NoForgottenChange, NotMissed, Known, InHand, InLoop,
    LockHeld, Indexing, DetachedHolds, ChildThere, MarkerHolds, Running, TypeOK,
    daemonVars, runVars, manualVars, indexVars
<1>1. ASSUME NEW f \in Files, Edit(f)
      PROVE  (NoForgottenChange /\ NotMissed)'
  BY <1>1 DEF Edit
<1>2. ASSUME NEW m \in Manuals, NEW f \in Files, ReindexParse(m, f)
      PROVE  (NoForgottenChange /\ NotMissed)'
  BY <1>2 DEF ReindexParse, SetOp
<1>3. ASSUME NEW m \in Manuals, ReindexPause(m)
      PROVE  (NoForgottenChange /\ NotMissed)'
  BY <1>3 DEF ReindexPause, SetOp
<1>4. ASSUME NEW m \in Manuals, ReindexStore(m)
      PROVE  (NoForgottenChange /\ NotMissed)'
  BY <1>4 DEF ReindexStore, SetOp, Stored
<1>5. ASSUME NEW m \in Manuals, ReindexFails(m)
      PROVE  (NoForgottenChange /\ NotMissed)'
  BY <1>5 DEF ReindexFails, SetOp
<1>6. ASSUME NEW m \in Manuals, ResetPause(m)
      PROVE  (NoForgottenChange /\ NotMissed)'
  BY <1>6 DEF ResetPause, SetOp
<1>7. ASSUME NEW m \in Manuals, ResetDelete(m)
      PROVE  (NoForgottenChange /\ NotMissed)'
  BY <1>7 DEF ResetDelete, SetOp, Reindexing
<1>8. ASSUME NEW m \in Manuals, Resume(m)
      PROVE  (NoForgottenChange /\ NotMissed)'
  BY <1>8 DEF Resume, SetOp
<1>9. ASSUME NEW m \in Manuals, ManualDies(m)
      PROVE  (NoForgottenChange /\ NotMissed)'
  BY <1>9 DEF ManualDies, SetOp
<1>10. ASSUME NEW r \in Runs, StartCli(r)
       PROVE  (NoForgottenChange /\ NotMissed)'
  BY <1>10 DEF StartCli, NoRun
<1>11. ASSUME NEW r \in Runs, TakeLock(r)
       PROVE  (NoForgottenChange /\ NotMissed)'
  <2>1. CASE Exit(r, "already_running") /\ lock # None
    BY <1>11, <2>1 DEF TakeLock, NoRun, Exit
  <2>2. CASE /\ lock = None
             /\ lock' = r
             /\ run' = [run EXCEPT ![r] = [NoRun EXCEPT !.pc = "units", !.todo = ToParse]]
    <3>1. /\ run'[r].pc = "units" /\ run'[r].todo = ToParse /\ run'[r].old = {}
          /\ \A s \in Runs \ {r} : run'[s] = run[s]
      BY <2>2 DEF NoRun
    <3>2. \A f \in Files : index[f] = "behind" => f \in ToParse
      BY DEF ToParse, Stale
    <3>3. UNCHANGED <<index, events, daemon, pending, gaveUp, child, detached, wiped, dropped>>
      BY <1>11, <2>2, <3>1 DEF TakeLock, Exit, NoRun
    <3> QED
      BY <1>11, <2>2, <3>1, <3>2, <3>3
  <2> QED
    BY <1>11, <2>1, <2>2 DEF TakeLock
<1>12. ASSUME NEW r \in Runs, NEW f \in Files, BeginUnit(r, f)
       PROVE  (NoForgottenChange /\ NotMissed)'
  BY <1>12 DEF BeginUnit
<1>13. ASSUME NEW r \in Runs, Superseded(r)
       PROVE  (NoForgottenChange /\ NotMissed)'
  BY <1>13 DEF Superseded, NoRun, Exit
<1>14. ASSUME NEW r \in Runs, StoreUnit(r)
       PROVE  (NoForgottenChange /\ NotMissed)'
  BY <1>14 DEF StoreUnit, Stored
<1>15. ASSUME NEW r \in Runs, Complete(r)
       PROVE  (NoForgottenChange /\ NotMissed)'
  BY <1>15 DEF Complete, NoRun, Exit
<1>16. ASSUME NEW r \in Runs, Fail(r)
       PROVE  (NoForgottenChange /\ NotMissed)'
  BY <1>16 DEF Fail, NoRun, Exit
<1>17. ASSUME Boot
       PROVE  (NoForgottenChange /\ NotMissed)'
  BY <1>17 DEF Boot
<1>18. ASSUME StartupCheck
       PROVE  (NoForgottenChange /\ NotMissed)'
  BY <1>18 DEF StartupCheck, SetPending, Stale
<1>19. ASSUME WatchEvent
       PROVE  (NoForgottenChange /\ NotMissed)'
  BY <1>19 DEF WatchEvent, SetPending
<1>20. ASSUME Debounce
       PROVE  (NoForgottenChange /\ NotMissed)'
  BY <1>20 DEF Debounce
<1>21. ASSUME PauseOutlasts
       PROVE  (NoForgottenChange /\ NotMissed)'
  BY <1>21 DEF PauseOutlasts
<1>22. ASSUME NEW r \in Runs, Spawn(r)
       PROVE  (NoForgottenChange /\ NotMissed)'
  BY <1>22 DEF Spawn, NoRun
<1>23. ASSUME SpawnFails
       PROVE  (NoForgottenChange /\ NotMissed)'
  BY <1>23 DEF SpawnFails
<1>24. ASSUME Outcome
       PROVE  (NoForgottenChange /\ NotMissed)'
  <2>1. /\ daemon = "wait" /\ daemon' = "turn" /\ child \in Runs /\ run[child].pc = "done"
        /\ \A s \in Runs \ {child} : run'[s] = run[s]
        /\ UNCHANGED <<index, events, wiped, dropped, lock, detached>>
    BY <1>24 DEF Outcome
  <2>2. \/ pending'
        \/ gaveUp'
        \/ run[child].code = "ok" /\ pending' = pending /\ ~gaveUp
    BY <1>24 DEF Outcome, OutcomeAlreadyRunning, OutcomeSuperseded, OutcomeFinal, SetPending
  <2>3. CASE pending' \/ gaveUp'
    BY <2>3
  <2>4. CASE run[child].code = "ok" /\ pending' = pending /\ ~gaveUp
    BY <2>1, <2>4
  <2> QED
    BY <2>2, <2>3, <2>4
<1>25. ASSUME Stop
       PROVE  (NoForgottenChange /\ NotMissed)'
  BY <1>25 DEF Stop
<1>26. ASSUME Cleanup
       PROVE  (NoForgottenChange /\ NotMissed)'
  BY <1>26 DEF Cleanup, Gone, NoRun
<1>27. ASSUME DaemonDies
       PROVE  (NoForgottenChange /\ NotMissed)'
  BY <1>27 DEF DaemonDies, Gone, NoRun
<1>28. ASSUME ReadStaleMarker
       PROVE  (NoForgottenChange /\ NotMissed)'
  BY <1>28 DEF ReadStaleMarker
<1>29. CASE UNCHANGED vars
  BY <1>29 DEF vars
<1>30. ASSUME NEW r \in Runs, NEW f \in Files, SkipUnit(r, f)
       PROVE  (NoForgottenChange /\ NotMissed)'
  BY <1>30 DEF SkipUnit
<1>31. ASSUME WatchFails
       PROVE  (NoForgottenChange /\ NotMissed)'
  BY <1>31 DEF WatchFails
<1> QED
  BY <1>1, <1>2, <1>3, <1>4, <1>5, <1>6, <1>7, <1>8, <1>9, <1>10, <1>11,
     <1>12, <1>13, <1>14, <1>15, <1>16, <1>17, <1>18, <1>19, <1>20, <1>21,
     <1>22, <1>23, <1>24, <1>25, <1>26, <1>27, <1>28, <1>29, <1>30, <1>31
  DEF Next, ManualStep, RunStep, DaemonStep

-----------------------------------------------------------------------------
(***************************************************************************)
(* The theorems.                                                           *)
(***************************************************************************)

\* The strengthened invariant holds in every reachable state.
THEOREM Inductive == Spec => []IInv
<1>1. ASSUME Init PROVE IInv
  <2>1. NoRun \in RunStates /\ NoOp \in OpStates
    BY DEF NoRun, NoOp, RunStates, OpStates
  <2>2. superseded \in 0..(SupersededRunsMax - 1)
    BY <1>1 DEF Init, SupersededRunsMax
  <2>3. left \in [edits : 0..MaxEdits, cli : 0..MaxCli, ops : 0..MaxOps, boots : 0..MaxBoots]
    BY <1>1, ReindexAssumption DEF Init
  <2>4. TypeOK
    BY <1>1, <2>1, <2>2, <2>3 DEF Init, TypeOK, Rows
  <2>5. \A r \in Runs : run[r].pc = "off" /\ lock # r /\ r \notin detached
    BY <1>1, ReindexAssumption DEF Init, NoRun
  <2>6. LockHeld /\ DetachedHolds /\ ChildThere
    BY <1>1, <2>5 DEF Init, LockHeld, Indexing, DetachedHolds, ChildThere
  <2>7. MarkerHolds /\ NoForgottenChange /\ NotMissed
    BY <1>1 DEF Init, MarkerHolds, Running, NoForgottenChange, NotMissed, InLoop
  <2> QED
    BY <2>4, <2>6, <2>7 DEF IInv
<1>2. IInv /\ [Next]_vars => IInv'
  BY TypeStep, LockStep, MarkerStep, ChildStep, DetachedStep, CoverStep DEF IInv
<1> QED
  BY <1>1, <1>2, PTL DEF Spec

\* Every variable has the shape the code gives it.
THEOREM TypeCorrect == Spec => []TypeOK
<1>1. IInv => TypeOK
  BY DEF IInv
<1> QED
  BY <1>1, Inductive, PTL

\* At most one index run takes units to index, whoever started the runs and
\* whatever dies (index_run_lock).
THEOREM IndexersExclude == Spec => []OneIndexer
<1>1. IInv => OneIndexer
  BY DEF IInv, LockHeld, Indexing, OneIndexer
<1> QED
  BY <1>1, Inductive, PTL

\* The marker reindex.pending tells the truth while the daemon is in its loop
\* (_PendingWork).
THEOREM MarkerIsTrue == Spec => []MarkerTellsTheTruth
<1>1. IInv => MarkerTellsTheTruth
  BY DEF IInv, MarkerHolds, Running, MarkerTellsTheTruth
<1> QED
  BY <1>1, Inductive, PTL

\* The clear-then-run order of _reindex_loop loses no change, for any number of
\* files, runs, manual operations and restarts: what is forgotten the daemon gave up, its
\* run skipped, or its watch never reported.
THEOREM NothingForgotten == Spec => []NoForgottenChange
<1>1. IInv => NoForgottenChange
  BY DEF IInv
<1> QED
  BY <1>1, Inductive, PTL
-----------------------------------------------------------------------------
(***************************************************************************)
(* When a run that completes is whole.                                     *)
(***************************************************************************)
Deleting == {m \in Manuals : manual[m].pc = "deleting"}

\* The marker goes only when no run is left with a deleted index.db, and no
\* operation is still about to delete it.
NoEarlyResume ==
  Paused /\ ~ Paused' => detached' \cap Runs = {} /\ Deleting' = {}

\* Without a marker the index of every run is there.
QuietIsWhole == ~ Paused => detached \cap Runs = {} /\ Deleting = {}

\* No step of an operation but the start of reset_index makes it about to delete.
LEMMA OpStep ==
  ASSUME TypeOK, NEW m \in Manuals,
         \/ ReindexPause(m) \/ ReindexStore(m) \/ Resume(m) \/ ReindexFails(m) \/ ManualDies(m)
  PROVE  \E op \in OpStates : op.pc # "deleting" /\ manual' = [manual EXCEPT ![m] = op]
<1>1. ReindexPause(m) => [manual[m] EXCEPT !.pc = "storing"] \in OpStates
  BY DEF TypeOK, OpStates
<1>2. /\ [pc |-> "resuming", unit |-> None, fresh |-> FALSE] \in OpStates
      /\ NoOp \in OpStates
  BY DEF OpStates, NoOp
<1>3. CASE ReindexPause(m)
  BY <1>1, <1>3 DEF ReindexPause, SetOp, TypeOK, OpStates
<1>4. CASE ReindexStore(m) \/ ReindexFails(m)
  BY <1>2, <1>4 DEF ReindexStore, ReindexFails, SetOp
<1>5. CASE Resume(m) \/ ManualDies(m)
  BY <1>2, <1>5 DEF Resume, ManualDies, SetOp, NoOp
<1> QED
  BY <1>3, <1>4, <1>5

\* Only reset_index deletes, and its marker is there before.
LEMMA QuietStep ==
  ASSUME TypeOK, QuietIsWhole, [Next]_vars, NoEarlyResume
  PROVE  QuietIsWhole'
<1> SUFFICES ASSUME ~ Paused'
             PROVE  detached' \cap Runs = {} /\ Deleting' = {}
  BY DEF QuietIsWhole
<1>1. CASE Paused
  BY <1>1 DEF NoEarlyResume
<1>2. CASE ~ Paused
  <2>1. detached \cap Runs = {} /\ Deleting = {}
    BY <1>2 DEF QuietIsWhole
  <2>2. ASSUME NEW m \in Manuals, ResetPause(m) \/ ResetDelete(m) PROVE FALSE
    BY <1>2, <2>1, <2>2, ReindexAssumption DEF ResetPause, ResetDelete, Paused, Deleting, TypeOK
  <2>3. ASSUME NEW m \in Manuals, ManualStep(m) \/ ReindexFails(m) \/ ManualDies(m)
        PROVE  detached' \cap Runs = {} /\ Deleting' = {}
    <3>1. \E op \in OpStates : op.pc # "deleting" /\ manual' = [manual EXCEPT ![m] = op]
      BY <2>2, <2>3, OpStep DEF ManualStep
    <3>2. detached' \subseteq detached
      BY <2>2, <2>3 DEF ManualStep, ReindexPause, ReindexStore, Resume, ReindexFails, ManualDies,
                        runVars
    <3> QED
      BY <2>1, <3>1, <3>2 DEF Deleting, TypeOK
  <2>4. ASSUME NEW m \in Manuals, NEW f \in Files, ReindexParse(m, f)
        PROVE  detached' \cap Runs = {} /\ Deleting' = {}
    BY <2>1, <2>4 DEF ReindexParse, SetOp, runVars, Deleting, TypeOK
  <2>5. ASSUME NEW f \in Files, Edit(f)
        PROVE  detached' \cap Runs = {} /\ Deleting' = {}
    BY <2>1, <2>5, OpRecords DEF Edit, Deleting, TypeOK, OpStates
  <2>6. ASSUME NEW r \in Runs, StartCli(r) \/ RunStep(r) \/ Fail(r) \/ Spawn(r)
        PROVE  detached' \subseteq detached /\ UNCHANGED manual
    BY <2>6 DEF StartCli, RunStep, TakeLock, BeginUnit, Superseded, StoreUnit, SkipUnit, Complete, Fail,
                Exit, Spawn, manualVars
  <2>7. ASSUME \/ Boot \/ WatchEvent \/ WatchFails \/ StartupCheck \/ Debounce \/ Outcome \/ Cleanup
               \/ PauseOutlasts \/ SpawnFails \/ Stop \/ DaemonDies \/ ReadStaleMarker
               \/ UNCHANGED vars
        PROVE  detached' \subseteq detached /\ UNCHANGED manual
    BY <2>7 DEF Boot, WatchEvent, WatchFails, StartupCheck, Debounce, Outcome, Cleanup, Gone, PauseOutlasts,
                SpawnFails, Stop, DaemonDies, ReadStaleMarker, runVars, manualVars, vars
  <2>8. detached' \subseteq detached /\ UNCHANGED manual
        => detached' \cap Runs = {} /\ Deleting' = {}
    BY <2>1 DEF Deleting
  <2> QED
    BY <2>2, <2>3, <2>4, <2>5, <2>6, <2>7, <2>8 DEF Next, DaemonStep
<1> QED
  BY <1>1, <1>2

\* What raise_if_superseded is there for holds as long as the marker outlasts the
\* runs that reset_index took the index from, and a second operation's marker is not
\* removed under it: a run that completes then completes over the index it filled.
THEOREM PatientResetsKeepRunsWhole ==
  Spec /\ [][NoEarlyResume]_vars => CompletedRunIsWhole
<1>1. Init => QuietIsWhole
  BY DEF Init, QuietIsWhole, Deleting, NoOp
<1>2. TypeOK /\ QuietIsWhole /\ [Next]_vars /\ [NoEarlyResume]_vars => QuietIsWhole'
  <2>1. CASE NoEarlyResume
    BY <2>1, QuietStep
  <2>2. CASE UNCHANGED vars
    BY <2>2 DEF vars, runVars, manualVars, QuietIsWhole, Paused, Deleting
  <2> QED
    BY <2>1, <2>2
<1>3. QuietIsWhole => [\A r \in Runs : ~ Paused /\ Complete(r) => r \notin detached]_vars
  BY DEF QuietIsWhole
<1> QED
  BY <1>1, <1>2, <1>3, TypeCorrect, PTL DEF Spec, CompletedRunIsWhole
-----------------------------------------------------------------------------
(***************************************************************************)
(* When the daemon waits for the runs that are there.                      *)
(***************************************************************************)
\* Nobody but the daemon starts runs, and it does not die while one goes on.
SoleLauncher ==
  /\ \A r \in Runs : ~ StartCli(r)
  /\ DaemonDies => child = None

\* Every run is the one the daemon waits for.
OnlyTheChild == \A r \in Runs : run[r].pc # "off" => child = r

\* The daemon starts a run only when it has no child.
LEMMA ChildStepAlone ==
  ASSUME TypeOK, ChildThere, OnlyTheChild, [Next]_vars, SoleLauncher
  PROVE  OnlyTheChild'
<1> USE ReindexAssumption DEF OnlyTheChild, TypeOK, NoRun
<1>1. ASSUME NEW f \in Files, Edit(f) PROVE OnlyTheChild'
  BY <1>1 DEF Edit, daemonVars
<1>2. ASSUME NEW m \in Manuals,
             \/ ResetPause(m) \/ ManualStep(m) \/ ReindexFails(m) \/ ManualDies(m)
             \/ \E f \in Files : ReindexParse(m, f)
      PROVE  UNCHANGED <<run, child>>
  BY <1>2 DEF ResetPause, ManualStep, ReindexPause, ReindexStore, ResetDelete, Resume, ReindexFails,
              ManualDies, ReindexParse, daemonVars, runVars
<1>3. ASSUME NEW r \in Runs, RunStep(r) \/ Fail(r) PROVE OnlyTheChild'
  <2>1. run[r].pc # "off" /\ UNCHANGED child
    BY <1>3 DEF RunStep, TakeLock, BeginUnit, Superseded, StoreUnit, SkipUnit, Complete, Fail, daemonVars
  <2>2. \A q \in Runs : q # r => run'[q] = run[q]
    BY <1>3 DEF RunStep, TakeLock, BeginUnit, Superseded, StoreUnit, SkipUnit, Complete, Fail, Exit
  <2> QED
    BY <2>1, <2>2
<1>4. ASSUME NEW r \in Runs, Spawn(r) PROVE OnlyTheChild'
  <2>1. child = None
    BY <1>4 DEF Spawn, ChildThere
  <2> QED
    BY <1>4, <2>1 DEF Spawn
<1>5. Outcome => OnlyTheChild'
  BY DEF Outcome, ChildThere
<1>6. Cleanup => OnlyTheChild'
  BY DEF Cleanup, Gone, runVars
<1>7. DaemonDies => OnlyTheChild'
  BY DEF DaemonDies, Gone, SoleLauncher
<1>8. ASSUME \/ Boot \/ WatchEvent \/ WatchFails \/ StartupCheck \/ Debounce \/ PauseOutlasts \/ SpawnFails
             \/ Stop \/ ReadStaleMarker \/ UNCHANGED vars
      PROVE  UNCHANGED <<run, child>>
  BY <1>8 DEF Boot, WatchEvent, WatchFails, StartupCheck, Debounce, PauseOutlasts, SpawnFails, Stop,
              ReadStaleMarker, runVars, daemonVars, vars
<1>9. UNCHANGED <<run, child>> => OnlyTheChild'
  OBVIOUS
<1> QED
  BY <1>1, <1>2, <1>3, <1>4, <1>5, <1>6, <1>7, <1>8, <1>9 DEF Next, DaemonStep, SoleLauncher

\* "the next turn waits for that run": it does when every run is its own. A user's run,
\* or the run of a daemon that was killed, is all that escapes it.
THEOREM SoleLaunchersWait == Spec /\ [][SoleLauncher]_vars => DaemonWaitsForRuns
<1>1. Init => OnlyTheChild
  BY DEF Init, OnlyTheChild, NoRun
<1>2. IInv /\ OnlyTheChild /\ [Next]_vars /\ [SoleLauncher]_vars => OnlyTheChild'
  <2>1. CASE SoleLauncher
    BY <2>1, ChildStepAlone DEF IInv
  <2>2. CASE UNCHANGED vars
    BY <2>2 DEF vars, runVars, daemonVars, OnlyTheChild
  <2> QED
    BY <2>1, <2>2
<1>3. IInv /\ OnlyTheChild => [child = None /\ child' # None => lock = None]_vars
  BY ReindexAssumption DEF IInv, TypeOK, LockHeld, Indexing, OnlyTheChild
<1> QED
  BY <1>1, <1>2, <1>3, Inductive, PTL DEF Spec, DaemonWaitsForRuns
================================================================================
