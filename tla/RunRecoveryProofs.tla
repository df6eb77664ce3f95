--------------------------- MODULE RunRecoveryProofs ---------------------------
(***************************************************************************)
(* Proofs about RunRecovery, for every number of units, texts and faults.  *)
(***************************************************************************)
EXTENDS RunRecovery, TLAPS

USE DEF NoHash

LEMMA ConstantTypes ==
  /\ Last \in Nat /\ Last >= 1 /\ MaxText \in Nat /\ MaxText >= 1
  /\ MaxFaults \in Nat /\ MaxReverts \in Nat
  /\ Including \subseteq Unit /\ Dispatching \subseteq Unit /\ Forcing \subseteq BOOLEAN
  /\ Unit \subseteq Nat /\ Text \subseteq Nat /\ NoHash \notin Text /\ Conflict \notin Text
  /\ 1 \in Text
  /\ \A u \in Unit : u + 1 \in 1 .. Last + 1
BY RecoveryAssumption DEF Unit, Text, Conflict

(***************************************************************************)
(* Types                                                                   *)
(***************************************************************************)
Places == [at : RunPlaces, next : 1 .. Last + 1, force : BOOLEAN, parse : SUBSET Unit,
           seen : [Unit -> Text \cup {NoHash}], base : Manifests, reparsed : SUBSET Unit,
           markerUnits : SUBSET Unit, markerWritten : BOOLEAN, pendingRun : BOOLEAN,
           temp : SUBSET Unit]

Excuses == [rows : SUBSET Unit, edges : SUBSET Unit, macros : SUBSET Unit]

LEMMA IdleType == Idle \in Places
BY ConstantTypes DEF Idle, Places, RunPlaces, Preliminary, Manifests

LEMMA TypeInit == Init => TypeOK
BY ConstantTypes, IdleType DEF Init, TypeOK, Places, Preliminary, NoMarker, Manifests, Markers

\* What the manifest updater makes of its inputs is a manifest.
LEMMA UpdatedManifestType == TypeOK => UpdatedManifest \in Manifests
<1> SUFFICES ASSUME TypeOK PROVE UpdatedManifest \in Manifests
    OBVIOUS
<1>1. \A u \in Fresh : rows[u].header \in Text \cup {NoHash}
  BY ConstantTypes DEF TypeOK, Fresh
<1>2. FoldedHeader \in Text \cup {NoHash, Conflict}
  <2> DEFINE reads == {rows[u].header : u \in Fresh}
  <2>1. CASE reads = {}
    BY <2>1 DEF FoldedHeader, TypeOK, Manifests
  <2>2. CASE reads # {} /\ \E t \in reads : reads = {t}
    BY <2>2, <1>1 DEF FoldedHeader
  <2>3. CASE reads # {} /\ ~\E t \in reads : reads = {t}
    BY <2>3 DEF FoldedHeader
  <2> QED BY <2>1, <2>2, <2>3
<1>3. UpdatedManifest.src \in [Unit -> Text \cup {NoHash}]
  BY DEF UpdatedManifest, TypeOK, Manifests
<1>4. UpdatedManifest.needs \subseteq Unit
  BY ConstantTypes DEF UpdatedManifest, TypeOK, Manifests, MovedOn
<1> QED BY <1>2, <1>3, <1>4 DEF UpdatedManifest, Manifests

LEMMA TypeStep == TypeOK /\ [Next]_vars => TypeOK'
<1> SUFFICES ASSUME TypeOK, [Next]_vars PROVE TypeOK'
    OBVIOUS
<1> USE ConstantTypes DEF files, indexVars, history
<1>1. CASE Edit
  <2>1. /\ newest' \in [src : [Unit -> Text], header : Text, reverts : 0 .. MaxReverts]
        /\ disk' \in [Unit -> Text] /\ header' \in Text
    <3>1. newest.header \in Text /\ \A u \in Unit : newest.src[u] \in Text
      BY DEF TypeOK, Excuses
    <3>2. ASSUME NEW t \in Text, t < MaxText PROVE t + 1 \in Text
      BY <3>2 DEF Text
    <3>3. CASE \E u \in Unit : /\ newest.src[u] < MaxText
                              /\ newest' = [newest EXCEPT !.src[u] = @ + 1]
                              /\ disk' = [disk EXCEPT ![u] = newest.src[u] + 1]
                              /\ UNCHANGED header
      BY <3>1, <3>2, <3>3 DEF TypeOK, Excuses
    <3>4. CASE /\ newest.header < MaxText
               /\ newest' = [newest EXCEPT !.header = @ + 1]
               /\ header' = newest.header + 1
               /\ UNCHANGED disk
      BY <3>1, <3>2, <3>4 DEF TypeOK, Excuses
    <3> QED BY <1>1, <3>3, <3>4 DEF Edit
  <2> QED BY <1>1, <2>1 DEF Edit, TypeOK, Excuses
<1>15. CASE Revert
  <2>0. ASSUME NEW units \in SUBSET Unit, CameBack(units) PROVE excused' \in Excuses
    BY <2>0 DEF CameBack, MayPass, TypeOK, Excuses
  <2>1. excused' \in Excuses
    <3>1. \A u \in Unit : {u} \in SUBSET Unit
      OBVIOUS
    <3> QED BY <1>15, <2>0, <3>1 DEF Revert
  <2>3. disk' \in [Unit -> Text] /\ header' \in Text
    <3>1. \/ \E u \in Unit, t \in Text : disk' = [disk EXCEPT ![u] = t] /\ header' = header
          \/ header' \in Text /\ disk' = disk
      BY <1>15 DEF Revert
    <3>2. disk \in [Unit -> Text] /\ header \in Text
      BY DEF TypeOK
    <3> QED BY <3>1, <3>2
  <2>2. newest' \in [src : [Unit -> Text], header : Text, reverts : 0 .. MaxReverts]
    <3>1. newest.reverts + 1 \in 0 .. MaxReverts
      <4>1. newest.reverts \in 0 .. MaxReverts /\ newest.reverts < MaxReverts
        BY <1>15 DEF Revert, TypeOK
      <4> QED BY <4>1
    <3>2. newest' = [newest EXCEPT !.reverts = newest.reverts + 1]
      BY <1>15 DEF Revert
    <3> QED BY <3>1, <3>2 DEF TypeOK
  <2> QED BY <1>15, <2>1, <2>3, <2>2 DEF Revert, TypeOK, Excuses
<1>2. ASSUME NEW force \in Forcing, Start(force) PROVE TypeOK'
  <2>a. MustParse(manifest, marker.units, force) \in SUBSET Unit
    BY DEF MustParse
  <2>b. /\ disk \in [Unit -> Text \cup {NoHash}] /\ manifest \in Manifests /\ force \in BOOLEAN
        /\ marker.units \in SUBSET Unit /\ marker.on \in BOOLEAN
    BY DEF TypeOK, Excuses, Markers
  <2>1. run' \in Places
    BY <1>2, <2>a, <2>b, IdleType DEF Start, Places, RunPlaces, Idle
  <2> QED BY <1>2, <2>1 DEF Start, TypeOK, Excuses, Places
<1>3. ASSUME NEW u \in Unit, SkipUnchanged(u) \/ SkipFailed(u) PROVE TypeOK'
  <2>1. faults' \in 0 .. MaxFaults
    BY <1>3 DEF SkipUnchanged, SkipFailed, TypeOK, Excuses
  <2>2. run' = [run EXCEPT !.next = u + 1]
    BY <1>3 DEF SkipUnchanged, SkipFailed
  <2>3. run' \in Places
    BY <2>2 DEF TypeOK, Excuses, Places
  <2> QED BY <1>3, <2>1, <2>3 DEF SkipUnchanged, SkipFailed, TypeOK, Excuses, Places
<1>4. ASSUME NEW u \in Unit, StoreUnit(u) PROVE TypeOK'
  <2>1. run' \in Places
    BY <1>4 DEF StoreUnit, TypeOK, Places, RunPlaces
  <2>2. rows' \in [Unit -> [src : Text \cup {NoHash}, header : Text \cup {NoHash}]]
    BY <1>4 DEF StoreUnit, TypeOK, Excuses
  <2>3. edges' \subseteq Unit /\ expanded' \subseteq Unit
    BY <1>4 DEF StoreUnit, TypeOK, Excuses
  <2>4. excused' \in Excuses
    BY <1>4 DEF StoreUnit, MayPass, TypeOK, Excuses
  <2> QED BY <1>4, <2>1, <2>2, <2>3, <2>4 DEF StoreUnit, TypeOK, Excuses, Places
<1>5. ASSUME NEW units \in SUBSET Unit, Mark(units)
      PROVE marker' \in Markers /\ excused' \in Excuses
  BY <1>5 DEF Mark, Markers, TypeOK, Excuses
<1>6. ASSUME NEW u \in Unit, RecordUnit(u) PROVE TypeOK'
  <2>1. run' \in Places
    BY <1>6 DEF RecordUnit, TypeOK, Places, RunPlaces
  <2>2. marker' \in Markers /\ excused' \in Excuses
    <3>1. CASE run.markerWritten
      BY <1>6, <3>1 DEF RecordUnit, TypeOK, Excuses
    <3>2. CASE ~run.markerWritten
      <4> DEFINE units == IF u \in Dispatching THEN run.markerUnits \cup {u} ELSE run.markerUnits \ {u}
      <4>1. Mark(units)
        BY <1>6, <3>2 DEF RecordUnit
      <4>2. units \in SUBSET Unit
        BY DEF TypeOK, Excuses
      <4> HIDE DEF units
      <4> QED BY <4>1, <4>2, <1>5
    <3> QED BY <3>1, <3>2
  <2> QED BY <1>6, <2>1, <2>2 DEF RecordUnit, TypeOK, Excuses, Places
<1>7. CASE NoCheckpoint
  BY <1>7 DEF NoCheckpoint, TypeOK, Excuses, RunPlaces
<1>8. CASE MarkCheckpoint \/ EndLoop
  <2>1. run' \in Places
    <3>1. run' = [run EXCEPT !.at = "checkpoint"] \/ run' = [run EXCEPT !.at = "manifest"]
      BY <1>8 DEF MarkCheckpoint, EndLoop
    <3> QED BY <3>1 DEF TypeOK, Places, RunPlaces
  <2>2. marker' \in Markers /\ excused' \in Excuses
    <3>1. run.markerUnits \in SUBSET Unit
      BY DEF TypeOK, Excuses
    <3>2. Mark(run.markerUnits) \/ UNCHANGED <<marker, excused>>
      BY <1>8 DEF MarkCheckpoint, EndLoop
    <3> QED BY <3>1, <3>2, <1>5 DEF TypeOK, Excuses
  <2> QED BY <1>8, <2>1, <2>2 DEF MarkCheckpoint, EndLoop, TypeOK, Excuses, Places
<1>9. CASE SaveCheckpoint \/ SaveManifest
  <2>1. run' \in Places
    BY <1>9 DEF SaveCheckpoint, SaveManifest, TypeOK, Places, RunPlaces
  <2>2. /\ manifest' \in Manifests /\ faults' \in 0 .. MaxFaults
        /\ apart' \subseteq Unit /\ excused' \in Excuses
    BY <1>9, UpdatedManifestType
    DEF SaveCheckpoint, SaveManifest, WriteManifest, TypeOK, Excuses
  <2> QED BY <1>9, <2>1, <2>2 DEF SaveCheckpoint, SaveManifest, TypeOK, Excuses, Places
<1>10. CASE ExpandMacros
  <2>1. run' \in Places
    BY <1>10 DEF ExpandMacros, TypeOK, Places, RunPlaces
  <2>2. /\ expanded' \subseteq Unit /\ faults' \in 0 .. MaxFaults
        /\ excused' \in Excuses
    <3>1. CASE run.reparsed # {} \/ run.pendingRun
      BY <1>10, <3>1 DEF ExpandMacros, TypeOK, Excuses
    <3>2. CASE ~(run.reparsed # {} \/ run.pendingRun)
      BY <1>10, <3>2 DEF ExpandMacros, TypeOK, Excuses
    <3> QED BY <3>1, <3>2
  <2> QED BY <1>10, <2>1, <2>2 DEF ExpandMacros, TypeOK, Excuses, Places
<1>11. CASE ResolveDispatches
  <2>1. run' \in Places
    BY <1>11 DEF ResolveDispatches, TypeOK, Places, RunPlaces
  <2>2. /\ edges' \subseteq Unit /\ faults' \in 0 .. MaxFaults
        /\ excused' \in Excuses
    BY <1>11 DEF ResolveDispatches, TypeOK, Excuses
  <2> QED BY <1>11, <2>1, <2>2 DEF ResolveDispatches, TypeOK, Excuses, Places
<1>12. CASE ClearPending
  <2>1. excused' \in Excuses
    BY <1>12 DEF ClearPending, TypeOK, Excuses
  <2>2. marker' \in Markers
    BY <1>12 DEF ClearPending, NoMarker, Markers
  <2> QED BY <1>12, <2>1, <2>2, IdleType DEF ClearPending, TypeOK, Excuses, Places
<1>13. CASE Stop
  BY <1>13, IdleType DEF Stop, TypeOK, Excuses, Places
<1>14. CASE UNCHANGED vars
  BY <1>14 DEF vars, TypeOK, Excuses
<1> QED
  BY <1>1, <1>15, <1>2, <1>3, <1>4, <1>6, <1>7, <1>8, <1>9, <1>10, <1>11, <1>12, <1>13, <1>14
  DEF Next, RunStep

\* Every variable keeps its type.
THEOREM TypeCorrect == Spec => []TypeOK
<1>1. Init => TypeOK
  BY TypeInit
<1>2. TypeOK /\ [Next]_vars => TypeOK'
  BY TypeStep
<1> QED BY <1>1, <1>2, PTL DEF Spec

(***************************************************************************)
(* An unchanged unit is current.                                           *)
(*                                                                         *)
(* A manifest on disk either records the last store of a unit, or the unit *)
(* is apart: the store came after it.  A recorded unit whose entry agrees  *)
(* with the files has the rows of these texts.  The entry of a unit that   *)
(* is apart speaks of an earlier text, and as long as that text does not   *)
(* come back it can agree with the files only when the rows do: a new text *)
(* is newer than everything that was ever read.  The manifest a run writes *)
(* is made from the one it started with and from its own decisions, so the *)
(* same is needed of both.                                                 *)
(***************************************************************************)
\* No text that was read, stored or recorded is newer than the newest.
HeaderPast(m) == m.header = Conflict \/ m.header <= newest.header

PastUnit(u) ==
  /\ disk[u] <= newest.src[u] /\ rows[u].src <= newest.src[u] /\ run.seen[u] <= newest.src[u]
  /\ manifest.src[u] <= newest.src[u] /\ run.base.src[u] <= newest.src[u]
  /\ rows[u].header <= newest.header

Past ==
  /\ header <= newest.header /\ HeaderPast(manifest) /\ HeaderPast(run.base)
  /\ \A u \in Unit : PastUnit(u)

\* The entry of u in m is that of its rows.
Records(m, u) ==
  /\ m.src[u] = rows[u].src
  /\ u \in Including /\ u \notin m.needs => m.header \in {Conflict, rows[u].header}

\* The entry of u in m is no newer than its rows, and agrees with the files only if they do.
Behind(m, u) ==
  /\ disk[u] = rows[u].src \/ m.src[u] < disk[u]
  /\ u \in Including /\ u \notin m.needs =>
       header = rows[u].header \/ m.header = Conflict \/ m.header < header

Honest(m, u) ==
  m.src[u] # NoHash => IF u \notin apart THEN Records(m, u)
                                         ELSE u \in excused.rows \/ Behind(m, u)

\* The units whose rows are of this run.
Stored == run.reparsed \cup (IF run.at = "stored" THEN {run.next} ELSE {})

\* What the next manifest will say of them.
StoredHonest(u) ==
  /\ u \notin apart => rows[u].src = run.seen[u]
  /\ u \in apart /\ u \notin excused.rows =>
       disk[u] = rows[u].src \/ run.seen[u] < disk[u]

HonestUnit(u) ==
  /\ u \notin Including => manifest.src[u] = NoHash /\ run.base.src[u] = NoHash
  /\ u \in Including /\ u \in apart /\ u \notin excused.rows =>
       header = rows[u].header \/ rows[u].header < header
  /\ Honest(manifest, u)
  /\ IF u \in Stored THEN StoredHonest(u) ELSE Honest(run.base, u)

HonestyInv == TypeOK /\ Past /\ \A u \in Unit : HonestUnit(u)

Numeric ==
  /\ header \in Nat /\ header # NoHash /\ header # Conflict /\ newest.header \in Nat
  /\ manifest.header \in Nat /\ run.base.header \in Nat
  /\ \A u \in Unit :
       /\ disk[u] \in Nat /\ disk[u] # NoHash /\ newest.src[u] \in Nat
       /\ rows[u].src \in Nat /\ rows[u].header \in Nat /\ run.seen[u] \in Nat
       /\ manifest.src[u] \in Nat /\ run.base.src[u] \in Nat

LEMMA Numbers == TypeOK => Numeric
<1> SUFFICES ASSUME TypeOK PROVE Numeric
    OBVIOUS
<1>1. Text \cup {NoHash} \subseteq Nat /\ Text \cup {NoHash, Conflict} \subseteq Nat
  BY ConstantTypes DEF Conflict
<1>2. header \in Text /\ newest.header \in Text
  BY DEF TypeOK
<1>3. \A u \in Unit : /\ disk[u] \in Text /\ newest.src[u] \in Text
                     /\ rows[u].src \in Text \cup {NoHash}
                     /\ rows[u].header \in Text \cup {NoHash}
                     /\ run.seen[u] \in Text \cup {NoHash}
  BY DEF TypeOK
<1>4. manifest \in Manifests /\ run.base \in Manifests
  BY DEF TypeOK
<1>5. ASSUME NEW m \in Manifests
      PROVE  /\ m.header \in Text \cup {NoHash, Conflict}
             /\ \A u \in Unit : m.src[u] \in Text \cup {NoHash}
  BY DEF Manifests
<1> QED BY <1>1, <1>2, <1>3, <1>4, <1>5, ConstantTypes DEF Numeric

LEMMA NumbersAfter == TypeOK' => Numeric'
BY Numbers, PTL

LEMMA HonestyMeansCurrent == HonestyInv => UnchangedMeansCurrent
<1> SUFFICES ASSUME HonestyInv, NEW u \in Unit, ProvenBy(manifest, u), u \notin excused.rows
             PROVE  Current(u)
  BY DEF UnchangedMeansCurrent
<1>1. Numeric /\ HonestUnit(u)
  BY Numbers DEF HonestyInv
<1>2. /\ manifest.src[u] = disk[u] /\ manifest.src[u] # NoHash /\ u \notin manifest.needs
      /\ u \in Including => manifest.header = header
  BY <1>1 DEF ProvenBy, Agrees, Numeric
<1>3. u \in Including /\ manifest.header = header
  BY <1>1, <1>2 DEF HonestUnit
<1>4. rows[u].src = disk[u] /\ rows[u].header = header
  <2>1. CASE u \notin apart
    <3>1. Records(manifest, u)
      BY <1>1, <1>2, <2>1 DEF HonestUnit, Honest
    <3> QED BY <1>1, <1>2, <1>3, <3>1 DEF Records, Numeric
  <2>2. CASE u \in apart
    <3>1. Behind(manifest, u)
      BY <1>1, <1>2, <2>2 DEF HonestUnit, Honest
    <3> QED BY <1>1, <1>2, <1>3, <3>1 DEF Behind, Numeric
  <2> QED BY <2>1, <2>2
<1>5. rows[u] = [src |-> rows[u].src, header |-> rows[u].header]
  BY DEF HonestyInv, TypeOK
<1> QED BY <1>3, <1>4, <1>5 DEF Current

LEMMA HonestyInit == Init => HonestyInv
BY ConstantTypes, TypeInit
DEF Init, HonestyInv, Past, PastUnit, HeaderPast, HonestUnit, Honest, Stored, Preliminary, Idle, files, history

\* The manifest that a run writes records the units it calls Recorded, and is honest.
LEMMA UpdatedManifestHonest ==
  ASSUME HonestyInv, run.at # "stored", NEW u \in Unit
  PROVE  /\ u \notin Including => UpdatedManifest.src[u] = NoHash
         /\ HeaderPast(UpdatedManifest) /\ UpdatedManifest.src[u] <= newest.src[u]
         /\ u \in Recorded => Records(UpdatedManifest, u)
         /\ u \notin Recorded => Honest(UpdatedManifest, u)
<1>0. /\ Numeric /\ HonestUnit(u) /\ Past /\ Stored = run.reparsed
      /\ UpdatedManifest.header = FoldedHeader
  BY Numbers DEF HonestyInv, Stored, UpdatedManifest
<1> DEFINE reads == {rows[v].header : v \in Fresh}
<1>1. \/ FoldedHeader = Conflict
      \/ FoldedHeader = run.base.header
      \/ FoldedHeader \in reads
  <2>1. CASE reads = {}
    BY <2>1 DEF FoldedHeader
  <2>2. CASE reads # {} /\ \E t \in reads : reads = {t}
    BY <2>2 DEF FoldedHeader
  <2>3. CASE reads # {} /\ ~\E t \in reads : reads = {t}
    BY <2>3 DEF FoldedHeader
  <2> QED BY <2>1, <2>2, <2>3
<1>2. HeaderPast(UpdatedManifest)
  <2>1. \A t \in reads : t <= newest.header
    BY <1>0, ConstantTypes DEF Past, PastUnit, Fresh
  <2> QED BY <1>0, <1>1, <2>1 DEF Past, HeaderPast
<1>3. CASE u \in Fresh
  <2>1. u \in Including /\ u \in run.reparsed /\ UpdatedManifest.src[u] = run.seen[u]
    BY <1>3 DEF UpdatedManifest, Fresh
  <2>2. FoldedHeader \in {Conflict, rows[u].header}
    <3>1. rows[u].header \in reads
      BY <1>3
    <3>2. CASE \E t \in reads : reads = {t}
      BY <3>1, <3>2 DEF FoldedHeader
    <3>3. CASE ~\E t \in reads : reads = {t}
      BY <3>1, <3>3 DEF FoldedHeader
    <3> QED BY <3>2, <3>3
  <2>3. u \in Recorded => Records(UpdatedManifest, u)
    BY <1>0, <2>1, <2>2 DEF Recorded, Records
  <2>4. ASSUME u \notin Recorded PROVE Honest(UpdatedManifest, u)
    <3>1. u \in apart
      BY <1>0, <1>3, <2>1, <2>4 DEF HonestUnit, StoredHonest, Recorded
    <3>2. ASSUME u \notin excused.rows PROVE Behind(UpdatedManifest, u)
      <4>1. disk[u] = rows[u].src \/ run.seen[u] < disk[u]
        BY <1>0, <2>1, <3>1, <3>2 DEF HonestUnit, StoredHonest
      <4>2. header = rows[u].header \/ rows[u].header < header
        BY <1>0, <2>1, <3>1, <3>2 DEF HonestUnit
      <4> QED BY <1>0, <2>1, <2>2, <4>1, <4>2 DEF Behind
    <3> QED BY <3>1, <3>2 DEF Honest
  <2> QED BY <1>0, <1>2, <2>1, <2>3, <2>4 DEF Past, PastUnit
<1>4. CASE u \notin Fresh
  <2>1. /\ UpdatedManifest.src[u] = run.base.src[u] /\ u \notin Recorded
        /\ u \in run.base.needs => u \in UpdatedManifest.needs
    BY <1>4 DEF UpdatedManifest, Recorded
  <2>2. CASE u \notin Including
    BY <1>0, <1>2, <2>1, <2>2 DEF HonestUnit, Past, PastUnit, Honest
  <2>3. CASE u \in Including
    <3>1. Honest(run.base, u)
      BY <1>0, <1>4, <2>3 DEF HonestUnit, Fresh
    <3>2. /\ u \in Including /\ u \notin UpdatedManifest.needs /\ run.base.src[u] # NoHash
               => UpdatedManifest.header = run.base.header /\ u \notin run.base.needs
      BY <1>4, <2>1, <2>3 DEF UpdatedManifest, MovedOn
    <3>3. Honest(UpdatedManifest, u)
      BY <2>1, <3>1, <3>2 DEF Honest, Records, Behind
    <3> QED BY <1>0, <1>2, <2>1, <2>3, <3>3 DEF Past, PastUnit
  <2> QED BY <2>2, <2>3
<1> QED BY <1>3, <1>4

\* A new text is newer than all that manifests and rows speak of; an earlier one excuses
\* the units it may deceive.
LEMMA FilesChange ==
  ASSUME TypeOK, TypeOK', Past, Edit \/ Revert
  PROVE  /\ UNCHANGED <<rows, edges, expanded, manifest, marker, run, apart>>
         /\ excused.rows \subseteq excused'.rows
         /\ newest.header <= newest'.header /\ header' <= newest'.header
         /\ \A u \in Unit :
              /\ newest.src[u] <= newest'.src[u] /\ disk'[u] <= newest'.src[u]
              /\ \/ /\ disk'[u] = disk[u] \/ newest.src[u] < disk'[u]
                    /\ u \in Including => header' = header \/ newest.header < header'
                    /\ u \in excused'.edges <=> u \in excused.edges
                    /\ u \in excused'.macros <=> u \in excused.macros
                 \/ /\ u \in apart => u \in excused'.rows
                    /\ u \in apart => u \in marker.units \/ u \in excused'.edges
                    /\ u \in apart => marker.on \/ u \in excused'.macros
                    /\ u \in excused.edges => u \in excused'.edges
                    /\ u \in excused.macros => u \in excused'.macros
<1>0. /\ Numeric /\ Numeric' /\ newest \in [src : [Unit -> Text], header : Text, reverts : 0 .. MaxReverts]
      /\ disk \in [Unit -> Text] /\ excused \in Excuses
  BY Numbers, NumbersAfter DEF TypeOK, Excuses
<1>1. CASE Edit
  <2>1. UNCHANGED <<rows, edges, expanded, manifest, marker, run, apart, excused>>
    BY <1>1 DEF Edit, indexVars, history
  <2>2. ASSUME NEW v \in Unit, newest' = [newest EXCEPT !.src[v] = @ + 1],
               disk' = [disk EXCEPT ![v] = newest.src[v] + 1], UNCHANGED header
        PROVE  /\ newest'.header = newest.header
               /\ \A u \in Unit : IF u = v THEN /\ newest'.src[u] = newest.src[u] + 1
                                               /\ disk'[u] = newest.src[u] + 1
                                          ELSE newest'.src[u] = newest.src[u] /\ disk'[u] = disk[u]
    BY <1>0, <2>2
  <2>3. ASSUME newest' = [newest EXCEPT !.header = @ + 1], header' = newest.header + 1,
               UNCHANGED disk
        PROVE  newest'.header = newest.header + 1 /\ newest'.src = newest.src
    BY <1>0, <2>3
  <2>4. CASE \E v \in Unit : /\ newest' = [newest EXCEPT !.src[v] = @ + 1]
                             /\ disk' = [disk EXCEPT ![v] = newest.src[v] + 1]
                             /\ UNCHANGED header
    BY <1>0, <2>1, <2>2, <2>4 DEF Past, PastUnit, Numeric
  <2>5. CASE /\ newest' = [newest EXCEPT !.header = @ + 1]
             /\ header' = newest.header + 1
             /\ UNCHANGED disk
    BY <1>0, <2>1, <2>3, <2>5 DEF Past, PastUnit, Numeric
  <2> QED BY <1>1, <2>4, <2>5 DEF Edit
<1>2. CASE Revert
  <2>1. UNCHANGED <<rows, edges, expanded, manifest, marker, run, apart>>
    BY <1>2 DEF Revert, indexVars
  <2>2. newest'.header = newest.header /\ newest'.src = newest.src
    BY <1>0, <1>2 DEF Revert
  <2>3. ASSUME NEW units \in SUBSET Unit, CameBack(units)
        PROVE  /\ excused'.rows = excused.rows \cup (units \cap apart)
               /\ excused'.edges = excused.edges \cup ((units \cap apart) \ marker.units)
               /\ excused'.macros = IF marker.on THEN excused.macros
                                                 ELSE excused.macros \cup (units \cap apart)
    BY <1>0, <2>3 DEF CameBack, MayPass, Excuses
  <2>4. CASE \E v \in Unit, t \in Text : /\ t <= newest.src[v]
                                         /\ disk' = [disk EXCEPT ![v] = t]
                                         /\ CameBack({v})
                                         /\ UNCHANGED header
    <3>1. PICK v \in Unit, t \in Text : /\ t <= newest.src[v]
                                        /\ disk' = [disk EXCEPT ![v] = t]
                                        /\ CameBack({v})
                                        /\ UNCHANGED header
      BY <2>4
    <3>2. {v} \in SUBSET Unit
      OBVIOUS
    <3>3. \A u \in Unit : disk'[u] = IF u = v THEN t ELSE disk[u]
      BY <1>0, <3>1
    <3>4. /\ excused'.rows = excused.rows \cup ({v} \cap apart)
          /\ excused'.edges = excused.edges \cup (({v} \cap apart) \ marker.units)
          /\ excused'.macros = IF marker.on THEN excused.macros
                                            ELSE excused.macros \cup ({v} \cap apart)
      BY <2>3, <3>1, <3>2
    <3>5. \A u \in Unit : disk'[u] <= newest'.src[u] /\ newest.src[u] <= newest'.src[u]
      BY <1>0, <2>2, <3>1, <3>3 DEF Past, PastUnit, Numeric
    <3>6. header' = header /\ header' <= newest'.header /\ newest.header <= newest'.header
      BY <1>0, <2>2, <3>1 DEF Past, Numeric
    <3>7. ASSUME NEW u \in Unit, u # v
          PROVE  /\ disk'[u] = disk[u]
                 /\ u \in excused'.edges <=> u \in excused.edges
                 /\ u \in excused'.macros <=> u \in excused.macros
      BY <3>3, <3>4, <3>7
    <3>8. /\ v \in apart => v \in excused'.rows
          /\ v \in apart => v \in marker.units \/ v \in excused'.edges
          /\ v \in apart => marker.on \/ v \in excused'.macros
          /\ v \in excused.edges => v \in excused'.edges
          /\ v \in excused.macros => v \in excused'.macros
      BY <3>4
    <3> QED BY <2>1, <3>4, <3>5, <3>6, <3>7, <3>8
  <2>5. CASE /\ header' <= newest.header
             /\ CameBack(Including)
             /\ UNCHANGED disk
    <3>1. Including \in SUBSET Unit
      BY ConstantTypes
    <3>2. /\ excused'.rows = excused.rows \cup (Including \cap apart)
          /\ excused'.edges = excused.edges \cup ((Including \cap apart) \ marker.units)
          /\ excused'.macros = IF marker.on THEN excused.macros
                                            ELSE excused.macros \cup (Including \cap apart)
      BY <2>3, <2>5, <3>1
    <3>3. /\ header' <= newest'.header /\ newest.header <= newest'.header
          /\ \A u \in Unit : disk'[u] <= newest'.src[u] /\ newest.src[u] <= newest'.src[u]
      BY <1>0, <2>2, <2>5 DEF Past, PastUnit, Numeric
    <3>4. ASSUME NEW u \in Unit \ Including
          PROVE  /\ u \in excused'.edges <=> u \in excused.edges
                 /\ u \in excused'.macros <=> u \in excused.macros
      BY <3>2
    <3>5. ASSUME NEW u \in Including
          PROVE  /\ u \in apart => u \in excused'.rows
                 /\ u \in apart => u \in marker.units \/ u \in excused'.edges
                 /\ u \in apart => marker.on \/ u \in excused'.macros
                 /\ u \in excused.edges => u \in excused'.edges
                 /\ u \in excused.macros => u \in excused'.macros
      BY <3>2
    <3> QED BY <2>1, <2>5, <3>2, <3>3, <3>4, <3>5
  <2> QED BY <1>2, <2>4, <2>5 DEF Revert
<1> QED BY <1>1, <1>2

LEMMA AtMostLater == \A a, b, c \in Nat : a <= b /\ b <= c => a <= c
OBVIOUS

LEMMA BeforeLater == \A a, b, c \in Nat : a <= b /\ b < c => a < c
OBVIOUS

LEMMA HonestyStep ==
  ASSUME HonestyInv, [Next]_vars
  PROVE  HonestyInv'
<1> USE ConstantTypes DEF files, indexVars, history
<1>1. TypeOK /\ TypeOK' /\ Past /\ Numeric /\ Numeric' /\ \A u \in Unit : HonestUnit(u)
  BY TypeStep, Numbers, NumbersAfter DEF HonestyInv
<1>2. ASSUME /\ UNCHANGED <<disk, header, newest, rows, manifest, apart>>
             /\ excused'.rows = excused.rows
             /\ run'.seen = run.seen /\ run'.base = run.base /\ Stored' = Stored
      PROVE  HonestyInv'
  <2>1. Past'
    BY <1>1, <1>2 DEF Past, PastUnit, HeaderPast
  <2>2. \A u \in Unit : HonestUnit(u)'
    BY <1>1, <1>2 DEF HonestUnit, Honest, StoredHonest, Records, Behind
  <2> QED BY <1>1, <2>1, <2>2 DEF HonestyInv
<1>3. CASE Edit \/ Revert
  <2>1. Past'
    <3>0. /\ newest.header <= newest'.header /\ header' <= newest'.header
          /\ UNCHANGED <<rows, manifest, run>>
      BY <1>1, <1>3, FilesChange
    <3>1. HeaderPast(manifest)' /\ HeaderPast(run.base)'
      BY <1>1, <3>0 DEF Past, HeaderPast, Numeric
    <3>2. ASSUME NEW u \in Unit PROVE PastUnit(u)'
      <4>1. newest.src[u] <= newest'.src[u] /\ disk'[u] <= newest'.src[u]
        BY <1>1, <1>3, FilesChange
      <4>2. PastUnit(u)
        BY <1>1 DEF Past
      <4>3. /\ newest.src[u] \in Nat /\ newest.header \in Nat
            /\ newest'.src[u] \in Nat /\ newest'.header \in Nat
            /\ rows[u].src \in Nat /\ rows[u].header \in Nat /\ run.seen[u] \in Nat
            /\ manifest.src[u] \in Nat /\ run.base.src[u] \in Nat
        BY <1>1 DEF Numeric
      <4>4. /\ rows'[u].src <= newest'.src[u] /\ rows'[u].header <= newest'.header
            /\ run'.seen[u] <= newest'.src[u]
        BY <3>0, <4>1, <4>2, <4>3, AtMostLater DEF PastUnit
      <4>5. manifest'.src[u] <= newest'.src[u] /\ run'.base.src[u] <= newest'.src[u]
        BY <3>0, <4>1, <4>2, <4>3, AtMostLater DEF PastUnit
      <4> QED BY <4>1, <4>4, <4>5 DEF PastUnit
    <3> QED BY <3>0, <3>1, <3>2 DEF Past
  <2>2. ASSUME NEW u \in Unit PROVE HonestUnit(u)'
    <3>0. HonestUnit(u) /\ Stored' = Stored
      BY <1>1, <1>3, FilesChange DEF Stored
    <3>1. CASE /\ disk'[u] = disk[u] \/ newest.src[u] < disk'[u]
               /\ u \in Including => header' = header \/ newest.header < header'
      <4>1. ASSUME NEW m, m.src[u] \in Nat, m.header \in Nat, m.src[u] <= newest.src[u],
                   HeaderPast(m), Behind(m, u)
            PROVE  /\ disk'[u] = rows[u].src \/ m.src[u] < disk'[u]
                   /\ u \in Including /\ u \notin m.needs =>
                        header' = rows[u].header \/ m.header = Conflict \/ m.header < header'
        <5>1. /\ header \in Nat /\ newest.header \in Nat /\ newest.src[u] \in Nat /\ disk[u] \in Nat
              /\ header' \in Nat /\ disk'[u] \in Nat
          BY <1>1 DEF Numeric
        <5>2. disk'[u] = rows[u].src \/ m.src[u] < disk'[u]
          BY <3>1, <4>1, <5>1, BeforeLater DEF Behind
        <5>3. ASSUME u \in Including, u \notin m.needs
              PROVE  header' = rows[u].header \/ m.header = Conflict \/ m.header < header'
          BY <3>1, <4>1, <5>1, <5>3, BeforeLater DEF Behind, HeaderPast
        <5> QED BY <5>2, <5>3
      <4>2. Honest(manifest, u)'
        BY <1>1, <1>3, <3>0, <4>1, FilesChange DEF Honest, Behind, Records, HonestUnit, Past, PastUnit, Numeric
      <4>3. u \notin Stored => Honest(run.base, u)'
        BY <1>1, <1>3, <3>0, <4>1, FilesChange DEF Honest, Behind, Records, HonestUnit, Past, PastUnit, Numeric
      <4>4. u \in Stored => StoredHonest(u)'
        <5>1. UNCHANGED <<rows, run, apart>> /\ excused.rows \subseteq excused'.rows
          BY <1>1, <1>3, FilesChange
        <5>2. disk'[u] = disk[u] \/ run.seen[u] < disk'[u]
          BY <1>1, <3>1 DEF Past, PastUnit, Numeric
        <5>3. u \in Stored => StoredHonest(u)
          BY <3>0 DEF HonestUnit
        <5> QED BY <5>1, <5>2, <5>3, <1>1 DEF StoredHonest, Numeric, Past, PastUnit
      <4>5. u \in Including /\ u \in apart /\ u \notin excused.rows =>
              header' = rows[u].header \/ rows[u].header < header'
        BY <1>1, <3>0, <3>1 DEF HonestUnit, Past, PastUnit, Numeric
      <4> QED BY <1>1, <1>3, <3>0, <4>2, <4>3, <4>4, <4>5, FilesChange DEF HonestUnit
    <3>2. CASE u \in apart => u \in excused'.rows
      BY <1>1, <1>3, <3>0, <3>2, FilesChange DEF HonestUnit, Honest, StoredHonest, Records
    <3> QED BY <1>1, <1>3, <3>1, <3>2, FilesChange
  <2> QED BY <1>1, <2>1, <2>2 DEF HonestyInv
<1>4. ASSUME NEW u \in Unit, StoreUnit(u) PROVE HonestyInv'
  <2>1. /\ \A v \in Unit : rows'[v] = IF v = u
              THEN [src |-> disk[u], header |-> IF u \in Including THEN header ELSE NoHash]
              ELSE rows[v]
        /\ UNCHANGED <<disk, header, newest, manifest>>
        /\ apart' = apart \cup {u}
    BY <1>1, <1>4 DEF StoreUnit, TypeOK
  <2>2. excused'.rows = excused.rows \ {u}
    BY <1>4 DEF StoreUnit, MayPass
  <2>3. /\ run'.seen = run.seen /\ run'.base = run.base /\ run'.reparsed = run.reparsed
        /\ run'.at = "stored" /\ run'.next = u /\ run.at = "loop"
    BY <1>1, <1>4 DEF StoreUnit, InLoop, TypeOK
  <2>4. Stored' = Stored \cup {u}
    BY <2>3 DEF Stored
  <2>5. Past'
    <3>1. ASSUME NEW v \in Unit PROVE PastUnit(v)'
      <4>1. PastUnit(v) /\ header <= newest.header /\ newest.header \in Nat /\ header \in Nat
        BY <1>1 DEF Past, Numeric
      <4>2. rows'[v].src <= newest.src[v] /\ rows'[v].header <= newest.header
        BY <2>1, <4>1 DEF PastUnit
      <4> QED BY <2>1, <2>3, <4>1, <4>2 DEF PastUnit
    <3> QED BY <1>1, <2>1, <2>3, <3>1 DEF Past, HeaderPast
  <2>6. HonestUnit(u)'
    <3>1. /\ rows'[u].src = disk'[u]
          /\ u \in Including => rows'[u].header = header'
          /\ u \in apart' /\ u \notin excused'.rows /\ u \in Stored'
      <4>1. rows'[u] = [src |-> disk[u], header |-> IF u \in Including THEN header ELSE NoHash]
        BY <2>1
      <4>2. rows'[u].src = disk[u] /\ (u \in Including => rows'[u].header = header)
        BY <4>1
      <4> QED BY <2>1, <2>2, <2>4, <4>2
    <3>2. HonestUnit(u)
      BY <1>1
    <3>3. Honest(manifest, u)'
      BY <3>1 DEF Honest, Behind
    <3>4. StoredHonest(u)'
      BY <3>1 DEF StoredHonest
    <3> QED BY <2>1, <2>3, <3>1, <3>2, <3>3, <3>4 DEF HonestUnit
  <2>7. ASSUME NEW v \in Unit, v # u PROVE HonestUnit(v)'
    <3>1. HonestUnit(v) /\ (v \in Stored' <=> v \in Stored)
      BY <1>1, <2>4, <2>7
    <3> QED BY <2>1, <2>2, <2>3, <2>7, <3>1 DEF HonestUnit, Honest, Records, Behind, StoredHonest
  <2> QED BY <1>1, <2>5, <2>6, <2>7 DEF HonestyInv
<1>5. ASSUME NEW force \in Forcing, Start(force) PROVE HonestyInv'
  <2>1. /\ UNCHANGED <<disk, header, newest, rows, manifest, apart, excused>>
        /\ run'.seen = disk /\ run'.base = manifest /\ run'.reparsed = {} /\ run'.at = "loop"
    BY <1>5 DEF Start, Idle
  <2>2. Past' /\ Stored' = {}
    BY <1>1, <2>1 DEF Past, PastUnit, HeaderPast, Stored
  <2>3. \A u \in Unit : HonestUnit(u)'
    BY <1>1, <2>1, <2>2 DEF HonestUnit, Honest, Records, Behind
  <2> QED BY <1>1, <2>2, <2>3 DEF HonestyInv
<1>6. CASE ClearPending \/ Stop
  <2>1. UNCHANGED <<disk, header, newest, rows, manifest, apart>> /\ run' = Idle
    BY <1>6 DEF ClearPending, Stop
  <2>2. excused'.rows = excused.rows
    BY <1>1, <1>6 DEF ClearPending, Stop, TypeOK
  <2>3. /\ \A u \in Unit : run'.base.src[u] = NoHash /\ run'.seen[u] = NoHash
        /\ run'.base.header = NoHash /\ run'.reparsed = {} /\ run'.at = "off"
    BY <2>1 DEF Idle, Preliminary
  <2>4. Past' /\ Stored' = {}
    <3>1. \A u \in Unit : PastUnit(u)'
      BY <1>1, <2>1, <2>3 DEF Past, PastUnit, Numeric
    <3>2. HeaderPast(run.base)'
      BY <1>1, <2>1, <2>3 DEF HeaderPast, Numeric
    <3> QED BY <1>1, <2>1, <2>3, <3>1, <3>2 DEF Past, HeaderPast, Stored
  <2>5. \A u \in Unit : HonestUnit(u)'
    BY <1>1, <2>1, <2>2, <2>3, <2>4 DEF HonestUnit, Honest, Records, Behind
  <2> QED BY <1>1, <2>4, <2>5 DEF HonestyInv
<1>7. CASE SaveCheckpoint \/ SaveManifest
  <2>1. /\ UNCHANGED <<disk, header, newest, rows>> /\ WriteManifest
        /\ run'.seen = run.seen /\ run'.base = run.base /\ run'.reparsed = run.reparsed
        /\ run.at # "stored" /\ run'.at # "stored"
    BY <1>1, <1>7 DEF SaveCheckpoint, SaveManifest, TypeOK
  <2>2. Stored' = Stored /\ Stored = run.reparsed
    BY <2>1 DEF Stored
  <2>3. CASE UNCHANGED <<manifest, history>>
    BY <1>2, <2>1, <2>2, <2>3
  <2>4. CASE /\ manifest' = UpdatedManifest /\ apart' = apart \ Recorded
             /\ excused' = [excused EXCEPT !.rows = @ \ Recorded]
    <3>1. excused'.rows = excused.rows \ Recorded
      BY <1>1, <2>4 DEF TypeOK
    <3>2. HeaderPast(UpdatedManifest)
      <4>1. 1 \in Unit
        BY DEF Unit
      <4> QED BY <2>1, <4>1, UpdatedManifestHonest
    <3>3. Past'
      <4>1. ASSUME NEW u \in Unit PROVE PastUnit(u)'
        BY <1>1, <2>1, <2>4, UpdatedManifestHonest DEF Past, PastUnit
      <4> QED BY <1>1, <2>1, <2>4, <3>2, <4>1 DEF Past, HeaderPast
    <3>4. ASSUME NEW u \in Unit PROVE HonestUnit(u)'
      <4>1. HonestUnit(u)
        BY <1>1
      <4>2. Honest(manifest, u)'
        <5>1. CASE u \in Recorded
          BY <2>1, <2>4, <5>1, UpdatedManifestHonest DEF Honest, Records
        <5>2. CASE u \notin Recorded
          BY <2>1, <2>4, <3>1, <5>2, UpdatedManifestHonest DEF Honest, Records, Behind
        <5> QED BY <5>1, <5>2
      <4>3. CASE u \in Stored
        <5>1. StoredHonest(u)'
          BY <2>1, <2>2, <2>4, <3>1, <4>1, <4>3 DEF HonestUnit, StoredHonest, Recorded
        <5> QED BY <2>1, <2>2, <2>4, <3>1, <4>1, <4>2, <4>3, <5>1, UpdatedManifestHonest DEF HonestUnit
      <4>4. CASE u \notin Stored
        <5>1. u \notin Recorded
          BY <2>2, <4>4 DEF Recorded, Fresh
        <5>2. Honest(run.base, u)'
          BY <2>1, <2>4, <3>1, <4>1, <4>4, <5>1 DEF HonestUnit, Honest, Records, Behind
        <5> QED BY <2>1, <2>2, <2>4, <3>1, <4>1, <4>2, <4>4, <5>2, UpdatedManifestHonest DEF HonestUnit
      <4> QED BY <4>3, <4>4
    <3> QED BY <1>1, <3>3, <3>4 DEF HonestyInv
  <2> QED BY <2>1, <2>3, <2>4 DEF WriteManifest
<1>8. ASSUME NEW u \in Unit, SkipUnchanged(u) \/ SkipFailed(u) PROVE HonestyInv'
  <2>1. /\ UNCHANGED <<disk, header, newest, rows, manifest, apart, excused>>
        /\ run'.seen = run.seen /\ run'.base = run.base /\ run'.reparsed = run.reparsed
        /\ run'.at = run.at /\ run.at = "loop"
    BY <1>1, <1>8 DEF SkipUnchanged, SkipFailed, InLoop, TypeOK
  <2> QED BY <1>2, <2>1 DEF Stored
<1>9. ASSUME NEW u \in Unit, RecordUnit(u) PROVE HonestyInv'
  <2>1. /\ UNCHANGED <<disk, header, newest, rows, manifest, apart>>
        /\ run'.seen = run.seen /\ run'.base = run.base /\ run'.reparsed = run.reparsed \cup {u}
        /\ run'.at = "recorded" /\ run.at = "stored" /\ run.next = u
    BY <1>1, <1>9 DEF RecordUnit, TypeOK
  <2>2. excused'.rows = excused.rows
    <3>1. excused' = excused \/ \E units : Mark(units)
      BY <1>9 DEF RecordUnit
    <3> QED BY <1>1, <3>1 DEF Mark, TypeOK
  <2> QED BY <1>2, <2>1, <2>2 DEF Stored
<1>10. CASE NoCheckpoint \/ MarkCheckpoint \/ EndLoop \/ ExpandMacros \/ ResolveDispatches
  <2>1. /\ UNCHANGED <<disk, header, newest, rows, manifest, apart>>
        /\ run'.seen = run.seen /\ run'.base = run.base /\ run'.reparsed = run.reparsed
        /\ run'.at # "stored" /\ run.at # "stored"
    BY <1>1, <1>10 DEF NoCheckpoint, MarkCheckpoint, EndLoop, ExpandMacros, ResolveDispatches, TypeOK
  <2>2. excused'.rows = excused.rows
    BY <1>1, <1>10 DEF NoCheckpoint, MarkCheckpoint, EndLoop, ExpandMacros, ResolveDispatches, Mark, TypeOK
  <2> QED BY <1>2, <2>1, <2>2 DEF Stored
<1>11. CASE UNCHANGED vars
  BY <1>2, <1>11 DEF vars, Stored
<1> QED
  BY <1>3, <1>4, <1>5, <1>6, <1>7, <1>8, <1>9, <1>10, <1>11 DEF Next, RunStep

\* A unit that a manifest proves unchanged holds what a parse would give, wherever runs
\* stop, whatever they fail to write and whichever texts come back, but for the units
\* whose text came back after a store that no manifest on disk records.
THEOREM UnchangedUnitsAreCurrent == Spec => []UnchangedMeansCurrent
<1>1. HonestyInv /\ [Next]_vars => HonestyInv'
  BY HonestyStep
<1> QED BY <1>1, HonestyInit, HonestyMeansCurrent, PTL DEF Spec

(***************************************************************************)
(* A stop loses no result that the next run does not make again.           *)
(*                                                                         *)
(* A result of a unit can only be missing while the marker on disk names   *)
(* the unit (or, for macros, exists) or the manifest on disk calls the     *)
(* unit stale.  That is inductive once it is also said of what the run     *)
(* will write, its own list of units and the manifest it started with, and *)
(* that a unit the marker does not cover is apart: a text of it that comes *)
(* back is then what excuses it.                                           *)
(***************************************************************************)
AfterMark == {"checkpoint", "manifest", "macros", "dispatch", "clear"}

\* How the lists of a run and the marker on disk belong together.
Lists ==
  /\ run.reparsed \subseteq {u \in run.parse : u < run.next}
  /\ run.at = "stored" => /\ run.next \in run.parse
                          /\ run.next \in Dispatching => run.next \in run.temp
  /\ marker.units \cap Dispatching \subseteq run.markerUnits
  /\ run.markerUnits \ run.reparsed \subseteq marker.units
  /\ run.markerUnits \subseteq run.parse
  /\ run.reparsed \cap Dispatching \subseteq run.markerUnits \cap run.temp
  /\ marker.on = run.markerWritten
  /\ run.markerWritten => run.pendingRun \/ run.reparsed # {}
  /\ run.reparsed # {} => run.markerWritten
  /\ run.at = "recorded" => run.reparsed # {}
  /\ run.at \in AfterMark /\ run.markerWritten => marker.units = run.markerUnits

Bookkeeping ==
  /\ marker.units # {} => marker.on
  /\ IF run.at = "off" THEN run = Idle ELSE Lists

EdgesLost(u) == u \in Dispatching /\ rows[u].src # NoHash /\ u \notin edges /\ u \notin excused.edges
MacrosLost(u) == rows[u].src # NoHash /\ u \notin expanded /\ u \notin excused.macros

\* What a stop would lose now is made again.
LossOnDisk ==
  \A u \in Unit : /\ EdgesLost(u) => u \in marker.units \/ ~Agrees(manifest, u)
                  /\ MacrosLost(u) => marker.on \/ ~Agrees(manifest, u)

\* And so it is after the next write of the manifest, for the units it carries over.
LossInRun ==
  run.at # "off" => \A u \in Unit \ Stored :
    /\ EdgesLost(u) => u \in run.markerUnits \/ ~Agrees(run.base, u)
    /\ MacrosLost(u) => marker.on \/ ~Agrees(run.base, u)

\* What the marker does not cover was lost after the last write of the manifest.
LossIsApart ==
  \A u \in Unit : /\ EdgesLost(u) => u \in marker.units \cup apart
                  /\ MacrosLost(u) => marker.on \/ u \in apart

\* At its end the run has made the results of what it parsed.
LossAtEnd ==
  /\ run.at = "clear" => \A u \in run.temp : ~EdgesLost(u)
  /\ run.at \in {"dispatch", "clear"} /\ (run.reparsed # {} \/ run.pendingRun)
       => \A u \in Unit : ~MacrosLost(u)

LEMMA BookkeepingStep ==
  ASSUME TypeOK, TypeOK', Bookkeeping, [Next]_vars
  PROVE  Bookkeeping'
<1> USE ConstantTypes
<1>0. /\ run \in Places /\ marker \in Markers /\ run' \in Places /\ marker' \in Markers
      /\ Idle.at = "off"
  BY DEF TypeOK, Places, Idle
<1>1. ASSUME NEW force \in Forcing, Start(force) PROVE Bookkeeping'
  <2>1. /\ run'.at = "loop" /\ run'.next = 1 /\ run'.reparsed = {} /\ run'.temp = {}
        /\ run'.markerUnits = marker.units /\ run'.markerWritten = marker.on
        /\ run'.pendingRun = marker.on /\ marker' = marker
        /\ run'.parse = MustParse(manifest, marker.units, force)
    BY <1>1 DEF Start, Idle
  <2>2. marker.units \subseteq MustParse(manifest, marker.units, force)
    BY <1>0 DEF MustParse, Markers
  <2> QED BY <2>1, <2>2 DEF Bookkeeping, Lists, AfterMark
<1>2. ASSUME NEW u \in Unit, SkipUnchanged(u) \/ SkipFailed(u) PROVE Bookkeeping'
  <2>1. run.at = "loop" /\ run' = [run EXCEPT !.next = u + 1] /\ run.next = u /\ marker' = marker
    BY <1>2 DEF SkipUnchanged, SkipFailed, InLoop
  <2>2. /\ run'.at = "loop" /\ run'.next = u + 1 /\ run'.reparsed = run.reparsed
        /\ run'.temp = run.temp /\ run'.markerUnits = run.markerUnits
        /\ run'.markerWritten = run.markerWritten /\ run'.pendingRun = run.pendingRun
        /\ run'.parse = run.parse
    BY <1>0, <2>1 DEF Places
  <2>3. \A v \in Unit : v < u => v < u + 1
    OBVIOUS
  <2>4. run.parse \subseteq Unit
    BY <1>0 DEF Places
  <2> QED BY <2>1, <2>2, <2>3, <2>4 DEF Bookkeeping, Lists, AfterMark
<1>3. ASSUME NEW u \in Unit, StoreUnit(u) PROVE Bookkeeping'
  <2>1. /\ run.at = "loop" /\ run.next = u /\ u \in run.parse /\ marker' = marker
        /\ run' = [run EXCEPT !.at = "stored",
                              !.temp = IF u \in Dispatching THEN @ \cup {u} ELSE @]
    BY <1>3 DEF StoreUnit, InLoop
  <2>2. /\ run'.at = "stored" /\ run'.next = u /\ run'.reparsed = run.reparsed
        /\ run'.temp = (IF u \in Dispatching THEN run.temp \cup {u} ELSE run.temp)
        /\ run'.markerUnits = run.markerUnits
        /\ run'.markerWritten = run.markerWritten /\ run'.pendingRun = run.pendingRun
        /\ run'.parse = run.parse
    BY <1>0, <2>1 DEF Places
  <2> QED BY <2>1, <2>2 DEF Bookkeeping, Lists, AfterMark
<1>4. ASSUME NEW u \in Unit, RecordUnit(u) PROVE Bookkeeping'
  <2> DEFINE units == IF u \in Dispatching THEN run.markerUnits \cup {u} ELSE run.markerUnits \ {u}
  <2>1. /\ run.at = "stored" /\ run.next = u
        /\ run'.at = "recorded" /\ run'.next = u + 1 /\ run'.reparsed = run.reparsed \cup {u}
        /\ run'.temp = run.temp /\ run'.markerUnits = units
        /\ run'.markerWritten = TRUE /\ run'.pendingRun = run.pendingRun
        /\ run'.parse = run.parse
    BY <1>0, <1>4 DEF RecordUnit, Places
  <2>2. marker' = IF run.markerWritten THEN marker ELSE [on |-> TRUE, units |-> units]
    BY <1>4 DEF RecordUnit, Mark
  <2>3. \A v \in Unit : v < u => v < u + 1
    OBVIOUS
  <2>4. run.parse \subseteq Unit
    BY <1>0 DEF Places
  <2>5. Lists /\ u \in run.parse /\ (u \in Dispatching => u \in run.temp)
    BY <2>1 DEF Bookkeeping, Lists
  <2>6. run'.reparsed \subseteq {v \in run'.parse : v < run'.next}
    <3>1. u \in run'.parse /\ u < run'.next
      BY <2>1, <2>5
    <3>2. ASSUME NEW v \in run.reparsed PROVE v \in run'.parse /\ v < run'.next
      <4>1. v \in run.parse /\ v < u /\ v \in Unit
        BY <2>1, <2>4, <2>5 DEF Lists
      <4> QED BY <2>1, <2>3, <4>1
    <3> QED BY <2>1, <3>1, <3>2
  <2>7. /\ marker'.units \cap Dispatching \subseteq run'.markerUnits
        /\ run'.markerUnits \ run'.reparsed \subseteq marker'.units
    BY <2>1, <2>2, <2>5 DEF Lists
  <2>8. /\ run'.markerUnits \subseteq run'.parse
        /\ run'.reparsed \cap Dispatching \subseteq run'.markerUnits \cap run'.temp
    BY <2>1, <2>5 DEF Lists
  <2>9. marker'.on = run'.markerWritten
    BY <2>1, <2>2, <2>5 DEF Lists
  <2> HIDE DEF units
  <2> QED BY <2>1, <2>6, <2>7, <2>8, <2>9 DEF Bookkeeping, Lists, AfterMark
<1>5. CASE MarkCheckpoint \/ (EndLoop /\ run.markerWritten)
  <2>1. /\ run.at \in {"recorded", "loop"} /\ run'.at \in {"checkpoint", "manifest"}
        /\ run'.next = run.next /\ run'.reparsed = run.reparsed
        /\ run'.temp = run.temp /\ run'.markerUnits = run.markerUnits
        /\ run'.markerWritten = run.markerWritten /\ run'.pendingRun = run.pendingRun
        /\ run'.parse = run.parse
        /\ marker' = [on |-> TRUE, units |-> run.markerUnits]
    BY <1>0, <1>5 DEF MarkCheckpoint, EndLoop, Mark, Places
  <2>2. run.markerWritten
    <3>1. CASE EndLoop
      BY <1>5, <3>1, <2>1 DEF EndLoop, MarkCheckpoint
    <3>2. CASE MarkCheckpoint
      BY <3>2, <2>1 DEF Bookkeeping, Lists, MarkCheckpoint
    <3> QED BY <1>5, <3>1, <3>2
  <2> QED BY <2>1, <2>2 DEF Bookkeeping, Lists
<1>6. ASSUME /\ run.at # "off" /\ run'.at \notin {"off", "stored"} /\ marker' = marker
             /\ run'.next = run.next /\ run'.reparsed = run.reparsed
             /\ run'.temp = run.temp /\ run'.markerUnits = run.markerUnits
             /\ run'.markerWritten = run.markerWritten /\ run'.pendingRun = run.pendingRun
             /\ run'.parse = run.parse
             /\ run'.at \in AfterMark => run.at \in AfterMark \/ ~run.markerWritten
             /\ run'.at # "recorded"
      PROVE  Bookkeeping'
  BY <1>6 DEF Bookkeeping, Lists
<1>7. CASE NoCheckpoint \/ (EndLoop /\ ~run.markerWritten)
  BY <1>0, <1>6, <1>7 DEF NoCheckpoint, EndLoop, Places, AfterMark
<1>8. CASE SaveCheckpoint \/ SaveManifest \/ ExpandMacros \/ ResolveDispatches
  BY <1>0, <1>6, <1>8 DEF SaveCheckpoint, SaveManifest, ExpandMacros, ResolveDispatches, Places, AfterMark
<1>9. CASE ClearPending \/ Stop
  <2>1. run' = Idle /\ (marker' = NoMarker \/ marker' = marker)
    BY <1>9 DEF ClearPending, Stop
  <2> QED BY <1>0, <2>1 DEF Bookkeeping, NoMarker
<1>10. CASE Edit \/ Revert \/ UNCHANGED vars
  <2>1. run' = run /\ marker' = marker
    BY <1>10 DEF Edit, Revert, vars
  <2> QED BY <2>1 DEF Bookkeeping, Lists
<1> QED
  BY <1>1, <1>2, <1>3, <1>4, <1>5, <1>7, <1>8, <1>9, <1>10 DEF Next, RunStep

LossInv == HonestyInv /\ Bookkeeping /\ LossOnDisk /\ LossInRun /\ LossIsApart /\ LossAtEnd

\* A new text makes the units that read it stale by every manifest there is; one that
\* comes back excuses what is lost and not covered by the marker.
LEMMA LossWhenFilesChange ==
  ASSUME LossInv, Edit \/ Revert
  PROVE  LossOnDisk' /\ LossInRun' /\ LossIsApart' /\ LossAtEnd'
<1>0. TypeOK /\ TypeOK' /\ Past /\ Numeric /\ Numeric' /\ Bookkeeping
  <2>1. TypeOK /\ [Next]_vars
    BY DEF LossInv, HonestyInv, Next
  <2> QED BY <2>1, TypeStep, Numbers, NumbersAfter DEF LossInv, HonestyInv
<1>1. UNCHANGED <<rows, edges, expanded, manifest, marker, run, apart>>
  BY <1>0, FilesChange
<1>2. ASSUME NEW u \in Unit
      PROVE  \/ /\ ~Agrees(manifest, u) => ~Agrees(manifest, u)'
                /\ ~Agrees(run.base, u) => ~Agrees(run.base, u)'
                /\ EdgesLost(u)' => EdgesLost(u)
                /\ MacrosLost(u)' => MacrosLost(u)
             \/ /\ EdgesLost(u)' => EdgesLost(u) /\ u \in marker.units
                /\ MacrosLost(u)' => MacrosLost(u) /\ marker.on
  <2>1. CASE /\ disk'[u] = disk[u] \/ newest.src[u] < disk'[u]
             /\ u \in Including => header' = header \/ newest.header < header'
             /\ u \in excused'.edges <=> u \in excused.edges
             /\ u \in excused'.macros <=> u \in excused.macros
    <3>1. ASSUME NEW m, m.src[u] \in Nat, m.header \in Nat, m.src[u] <= newest.src[u],
                 HeaderPast(m), ~Agrees(m, u)
          PROVE  ~(/\ m.src[u] = disk'[u]
                   /\ u \notin m.needs
                   /\ u \in Including => m.header = header')
      BY <1>0, <2>1, <3>1 DEF Agrees, HeaderPast, Numeric
    <3>2. ~Agrees(manifest, u) => ~Agrees(manifest, u)'
      BY <1>0, <1>1, <3>1 DEF Agrees, Past, PastUnit, Numeric
    <3>3. ~Agrees(run.base, u) => ~Agrees(run.base, u)'
      BY <1>0, <1>1, <3>1 DEF Agrees, Past, PastUnit, Numeric
    <3> QED BY <1>1, <2>1, <3>2, <3>3 DEF EdgesLost, MacrosLost
  <2>2. CASE /\ u \in apart => u \in marker.units \/ u \in excused'.edges
             /\ u \in apart => marker.on \/ u \in excused'.macros
             /\ u \in excused.edges => u \in excused'.edges
             /\ u \in excused.macros => u \in excused'.macros
    <3>1. /\ EdgesLost(u)' => EdgesLost(u) /\ u \notin excused'.edges
          /\ MacrosLost(u)' => MacrosLost(u) /\ u \notin excused'.macros
      BY <1>1, <2>2 DEF EdgesLost, MacrosLost
    <3>2. /\ EdgesLost(u) => u \in marker.units \cup apart
          /\ MacrosLost(u) => marker.on \/ u \in apart
      BY DEF LossInv, LossIsApart
    <3> QED BY <2>2, <3>1, <3>2
  <2> QED BY <1>0, <2>1, <2>2, FilesChange
<1>3. LossOnDisk'
  BY <1>1, <1>2 DEF LossInv, LossOnDisk
<1>4. LossInRun'
  <2>1. CASE run.at = "off"
    BY <1>1, <2>1 DEF LossInRun
  <2>2. CASE run.at # "off"
    <3>1. Stored' = Stored
      BY <1>1 DEF Stored
    <3>2. \A u \in Unit : EdgesLost(u) /\ u \in marker.units => u \in run.markerUnits
      BY <1>0, <2>2 DEF Bookkeeping, Lists, EdgesLost
    <3>3. ASSUME NEW u \in Unit \ Stored
          PROVE  /\ EdgesLost(u)' => u \in run.markerUnits \/ ~Agrees(run.base, u)'
                 /\ MacrosLost(u)' => marker.on \/ ~Agrees(run.base, u)'
      BY <1>2, <2>2, <3>2 DEF LossInv, LossInRun
    <3> QED BY <1>1, <3>1, <3>3 DEF LossInRun
  <2> QED BY <2>1, <2>2
<1>5. \A u \in Unit : (EdgesLost(u)' => EdgesLost(u)) /\ (MacrosLost(u)' => MacrosLost(u))
  BY <1>2
<1>6. LossIsApart'
  BY <1>1, <1>5 DEF LossInv, LossIsApart
<1>7. LossAtEnd'
  <2>1. run.temp \subseteq Unit
    BY <1>0 DEF TypeOK
  <2> QED BY <1>1, <1>5, <2>1 DEF LossInv, LossAtEnd
<1> QED BY <1>3, <1>4, <1>6, <1>7

LEMMA LossStep ==
  ASSUME LossInv, [Next]_vars, ~Edit, ~Revert
  PROVE  LossOnDisk' /\ LossInRun' /\ LossIsApart' /\ LossAtEnd'
<1> USE ConstantTypes DEF files, indexVars, history
<1>1. TypeOK /\ TypeOK'
  BY TypeStep DEF LossInv, HonestyInv
<1>2. /\ run \in Places /\ run' \in Places /\ run.parse \subseteq Unit
      /\ excused \in Excuses
      /\ \A u \in Unit : rows[u].src \in Nat /\ disk[u] \in Nat /\ disk[u] # NoHash
  BY <1>1, Numbers DEF TypeOK, Places, Excuses, Numeric
<1>0. UNCHANGED <<disk, header>>
  BY DEF Next, RunStep, vars, Start, SkipUnchanged, SkipFailed, StoreUnit, RecordUnit,
     NoCheckpoint, MarkCheckpoint, SaveCheckpoint, EndLoop, SaveManifest, ExpandMacros,
     ResolveDispatches, ClearPending, Stop
<1>3. ASSUME manifest' = manifest, apart \subseteq apart',
             marker.units \cap Dispatching \subseteq marker'.units, marker.on => marker'.on,
             \A u \in Unit : /\ EdgesLost(u)' => EdgesLost(u) \/ u \in marker'.units
                             /\ MacrosLost(u)' => MacrosLost(u) \/ marker'.on
      PROVE  LossOnDisk' /\ LossIsApart'
  <2> SUFFICES ASSUME NEW u \in Unit
               PROVE  /\ EdgesLost(u)' => u \in marker'.units \/ ~Agrees(manifest, u)'
                      /\ MacrosLost(u)' => marker'.on \/ ~Agrees(manifest, u)'
                      /\ EdgesLost(u)' => u \in marker'.units \/ u \in apart'
                      /\ MacrosLost(u)' => marker'.on \/ u \in apart'
    BY DEF LossOnDisk, LossIsApart
  <2>1. ~Agrees(manifest, u) <=> ~Agrees(manifest, u)'
    BY <1>0, <1>3 DEF Agrees
  <2>2. EdgesLost(u) => /\ u \in Dispatching
                        /\ u \in marker.units \/ ~Agrees(manifest, u)
                        /\ u \in marker.units \/ u \in apart
    BY DEF LossInv, LossOnDisk, LossIsApart, EdgesLost
  <2>3. MacrosLost(u) => /\ marker.on \/ ~Agrees(manifest, u)
                         /\ marker.on \/ u \in apart
    BY DEF LossInv, LossOnDisk, LossIsApart
  <2> QED BY <1>3, <2>1, <2>2, <2>3
<1>4. ASSUME run.at # "off", run'.base = run.base, Stored \subseteq Stored',
             run.markerUnits \ Stored' \subseteq run'.markerUnits,
             marker.on => marker'.on,
             \A u \in Unit \ Stored' :
               /\ EdgesLost(u)' => EdgesLost(u) \/ u \in run'.markerUnits
               /\ MacrosLost(u)' => MacrosLost(u) \/ marker'.on
      PROVE  LossInRun'
  <2> SUFFICES ASSUME NEW u \in Unit \ Stored'
               PROVE  /\ EdgesLost(u)' => u \in run'.markerUnits \/ ~Agrees(run.base, u)'
                      /\ MacrosLost(u)' => marker'.on \/ ~Agrees(run.base, u)'
    BY DEF LossInRun
  <2>1. ~Agrees(run.base, u) <=> ~Agrees(run.base, u)'
    BY <1>0, <1>4 DEF Agrees
  <2>2. /\ EdgesLost(u) => u \in run.markerUnits \/ ~Agrees(run.base, u)
        /\ MacrosLost(u) => marker.on \/ ~Agrees(run.base, u)
    BY <1>4 DEF LossInv, LossInRun
  <2> QED BY <1>4, <2>1, <2>2
<1>5. ASSUME run'.at \notin {"dispatch", "clear"} PROVE LossAtEnd'
  BY <1>5 DEF LossAtEnd
<1>6. ASSUME UNCHANGED <<rows, edges, expanded>>,
             excused.edges \subseteq excused'.edges, excused.macros \subseteq excused'.macros
      PROVE  \A u \in Unit : (EdgesLost(u)' => EdgesLost(u)) /\ (MacrosLost(u)' => MacrosLost(u))
  BY <1>6 DEF EdgesLost, MacrosLost
<1>7. ASSUME NEW units \in SUBSET Unit, Mark(units), UNCHANGED <<rows, edges, expanded>>
      PROVE  \A u \in Unit : /\ EdgesLost(u)' => EdgesLost(u) \/ u \in units
                             /\ marker'.units = units /\ marker'.on
  BY <1>2, <1>7 DEF Mark, EdgesLost, Excuses
<1>8. CASE run.at # "off"
  <2>0. Lists
    BY <1>8 DEF LossInv, Bookkeeping
  <2>1. ASSUME NEW u \in Unit, SkipUnchanged(u) \/ SkipFailed(u)
        PROVE  LossOnDisk' /\ LossInRun' /\ LossIsApart' /\ LossAtEnd'
    <3>1. /\ UNCHANGED <<rows, edges, expanded, excused, manifest, marker, apart>>
          /\ run'.base = run.base /\ run'.reparsed = run.reparsed /\ run.at = "loop"
          /\ run'.markerUnits = run.markerUnits /\ run'.at = "loop"
      BY <1>2, <2>1 DEF SkipUnchanged, SkipFailed, InLoop, Places
    <3>2. Stored' = Stored
      BY <3>1 DEF Stored
    <3> QED BY <1>3, <1>4, <1>5, <1>6, <1>8, <3>1, <3>2
  <2>2. ASSUME NEW u \in Unit, StoreUnit(u)
        PROVE  LossOnDisk' /\ LossInRun' /\ LossIsApart' /\ LossAtEnd'
    <3>1. /\ run.at = "loop" /\ run.next = u
          /\ UNCHANGED <<manifest, marker>> /\ apart' = apart \cup {u}
          /\ run'.base = run.base /\ run'.reparsed = run.reparsed /\ run'.at = "stored"
          /\ run'.markerUnits = run.markerUnits /\ run'.next = u
      BY <1>2, <2>2 DEF StoreUnit, InLoop, Places
    <3>2. Stored' = Stored \cup {u}
      BY <3>1 DEF Stored
    <3>3. ASSUME NEW v \in Unit, v # u
          PROVE  (EdgesLost(v)' => EdgesLost(v)) /\ (MacrosLost(v)' => MacrosLost(v))
      <4>1. rows'[v] = rows[v]
        BY <1>1, <2>2, <3>3 DEF StoreUnit, TypeOK
      <4>2. /\ v \in edges => v \in edges'
            /\ v \in expanded => v \in expanded'
        BY <2>2, <3>3 DEF StoreUnit
      <4>3. /\ v \in excused.edges => v \in excused'.edges
            /\ v \in excused.macros => v \in excused'.macros
        BY <2>2, <3>3 DEF StoreUnit, MayPass
      <4> QED BY <4>1, <4>2, <4>3 DEF EdgesLost, MacrosLost
    <3>4. /\ EdgesLost(u)' => u \in marker'.units \/ ~Agrees(manifest, u)'
          /\ MacrosLost(u)' => marker'.on \/ ~Agrees(manifest, u)'
      <4>1. Agrees(manifest, u)' <=> Agrees(manifest, u)
        BY <1>0, <3>1 DEF Agrees
      <4>2. ASSUME Agrees(manifest, u)
            PROVE  /\ u \in excused'.edges \/ u \in marker.units
                   /\ u \in excused'.macros \/ marker.on
        BY <2>2, <4>2 DEF StoreUnit, MayPass
      <4> QED BY <3>1, <4>1, <4>2 DEF EdgesLost, MacrosLost
    <3>5. LossOnDisk' /\ LossIsApart'
      <4> SUFFICES ASSUME NEW v \in Unit
                   PROVE  /\ EdgesLost(v)' => v \in marker'.units \/ ~Agrees(manifest, v)'
                          /\ MacrosLost(v)' => marker'.on \/ ~Agrees(manifest, v)'
                          /\ EdgesLost(v)' => v \in marker'.units \/ v \in apart'
                          /\ MacrosLost(v)' => marker'.on \/ v \in apart'
        BY DEF LossOnDisk, LossIsApart
      <4>1. CASE v = u
        BY <3>1, <3>4, <4>1
      <4>2. CASE v # u
        <5>1. ~Agrees(manifest, v) <=> ~Agrees(manifest, v)'
          BY <1>0, <3>1 DEF Agrees
        <5>2. /\ EdgesLost(v) => /\ v \in marker.units \/ ~Agrees(manifest, v)
                                 /\ v \in marker.units \/ v \in apart
              /\ MacrosLost(v) => /\ marker.on \/ ~Agrees(manifest, v)
                                  /\ marker.on \/ v \in apart
          BY DEF LossInv, LossOnDisk, LossIsApart
        <5> QED BY <3>1, <3>3, <4>2, <5>1, <5>2
      <4> QED BY <4>1, <4>2
    <3>6. LossInRun'
      BY <1>4, <1>8, <3>1, <3>2, <3>3
    <3> QED BY <1>5, <3>1, <3>5, <3>6
  <2>3. ASSUME NEW u \in Unit, RecordUnit(u)
        PROVE  LossOnDisk' /\ LossInRun' /\ LossIsApart' /\ LossAtEnd'
    <3> DEFINE units == IF u \in Dispatching THEN run.markerUnits \cup {u} ELSE run.markerUnits \ {u}
    <3>1. /\ run'.base = run.base /\ run'.reparsed = run.reparsed \cup {u}
          /\ run.at = "stored" /\ run.next = u
          /\ run'.at = "recorded" /\ run'.markerUnits = units
          /\ UNCHANGED <<rows, edges, expanded, manifest, apart>>
      BY <1>2, <2>3 DEF RecordUnit, Places
    <3>2. units \in SUBSET Unit /\ Stored' = Stored /\ u \in Stored'
      BY <1>2, <3>1 DEF Places, Stored
    <3>3. /\ marker.units \cap Dispatching \subseteq units
          /\ run.markerUnits \ Stored' \subseteq units
      BY <2>0, <3>1, <3>2 DEF Lists
    <3>4. CASE run.markerWritten
      <4>1. UNCHANGED <<marker, excused>>
        BY <2>3, <3>4 DEF RecordUnit
      <4>2. marker.units \cap Dispatching \subseteq marker'.units
        BY <4>1
      <4> HIDE DEF units
      <4> QED BY <1>3, <1>4, <1>5, <1>6, <1>8, <3>1, <3>2, <3>3, <4>1, <4>2
    <3>5. CASE ~run.markerWritten
      <4>1. Mark(units)
        BY <2>3, <3>5 DEF RecordUnit
      <4> HIDE DEF units
      <4>2. \A v \in Unit : /\ EdgesLost(v)' => EdgesLost(v) \/ v \in units
                            /\ marker'.units = units /\ marker'.on
        BY <1>7, <3>1, <3>2, <4>1
      <4>3. marker'.units = units /\ marker'.on
        BY <4>1 DEF Mark
      <4> QED BY <1>3, <1>4, <1>5, <1>8, <3>1, <3>2, <3>3, <4>2, <4>3
    <3> QED BY <3>4, <3>5
  <2>4. CASE MarkCheckpoint \/ (EndLoop /\ run.markerWritten)
    <3>1. /\ run'.base = run.base /\ run'.reparsed = run.reparsed /\ run.at \in {"recorded", "loop"}
          /\ run'.at \in {"checkpoint", "manifest"} /\ run'.markerUnits = run.markerUnits
          /\ UNCHANGED <<rows, edges, expanded, manifest, apart>>
      BY <1>2, <2>4 DEF MarkCheckpoint, EndLoop, Places
    <3>2. Mark(run.markerUnits) /\ run.markerUnits \in SUBSET Unit /\ Stored' = Stored
      BY <1>2, <2>4, <3>1 DEF MarkCheckpoint, EndLoop, Places, Stored
    <3>3. marker.units \cap Dispatching \subseteq run.markerUnits
      BY <2>0 DEF Lists
    <3>4. \A v \in Unit : /\ EdgesLost(v)' => EdgesLost(v) \/ v \in run.markerUnits
                          /\ marker'.units = run.markerUnits /\ marker'.on
      BY <1>7, <3>1, <3>2
    <3>5. marker'.units = run.markerUnits /\ marker'.on
      BY <3>2 DEF Mark
    <3>6. LossOnDisk' /\ LossIsApart'
      BY <1>3, <3>1, <3>3, <3>4, <3>5
    <3>7. LossInRun'
      BY <1>4, <1>8, <3>1, <3>2, <3>4, <3>5
    <3>8. run'.at \notin {"dispatch", "clear"}
      BY <3>1
    <3> QED BY <1>5, <3>6, <3>7, <3>8
  <2>5. CASE NoCheckpoint \/ (EndLoop /\ ~run.markerWritten)
    <3>1. /\ UNCHANGED <<rows, edges, expanded, excused, manifest, marker, apart>>
          /\ run'.base = run.base /\ run'.reparsed = run.reparsed /\ run.at # "stored"
          /\ run'.markerUnits = run.markerUnits /\ run'.at \in {"loop", "manifest"}
      BY <1>2, <2>5 DEF NoCheckpoint, EndLoop, Places
    <3>2. Stored' = Stored
      BY <3>1 DEF Stored
    <3> QED BY <1>3, <1>4, <1>5, <1>6, <1>8, <3>1, <3>2
  <2>6. CASE SaveCheckpoint \/ SaveManifest
    <3>1. /\ UNCHANGED <<rows, edges, expanded, marker>>
          /\ run'.base = run.base /\ run'.reparsed = run.reparsed
          /\ run'.markerUnits = run.markerUnits /\ run'.at \in {"loop", "macros"}
          /\ run.at \in AfterMark /\ run.at # "stored" /\ WriteManifest
      BY <1>2, <2>6 DEF SaveCheckpoint, SaveManifest, AfterMark, Places
    <3>2. /\ excused'.edges = excused.edges /\ excused'.macros = excused.macros
          /\ Stored' = Stored /\ Stored = run.reparsed
      BY <1>2, <3>1 DEF WriteManifest, Stored, Excuses
    <3>3. LossInRun' /\ LossAtEnd'
      BY <1>4, <1>5, <1>6, <1>8, <3>1, <3>2
    <3>4. CASE UNCHANGED <<manifest, apart>>
      BY <1>3, <1>6, <3>1, <3>2, <3>3, <3>4
    <3>5. CASE manifest' = UpdatedManifest /\ apart' = apart \ Recorded
      <4> SUFFICES ASSUME NEW v \in Unit
                   PROVE  /\ EdgesLost(v) => v \in marker.units \/ ~Agrees(UpdatedManifest, v)
                          /\ MacrosLost(v) => marker.on \/ ~Agrees(UpdatedManifest, v)
                          /\ EdgesLost(v) => v \in marker.units \/ v \in apart \ Recorded
                          /\ MacrosLost(v) => marker.on \/ v \in apart \ Recorded
        <5>1. \A v \in Unit : Agrees(manifest, v)' <=> Agrees(UpdatedManifest, v)
          BY <1>0, <3>5 DEF Agrees
        <5> QED BY <1>6, <3>1, <3>2, <3>3, <3>5, <5>1 DEF LossOnDisk, LossIsApart
      <4>1. CASE v \in run.reparsed
        <5>1. run.markerWritten /\ marker.on /\ marker.units = run.markerUnits
          BY <2>0, <3>1, <4>1 DEF Lists
        <5>2. v \in Dispatching => v \in run.markerUnits
          BY <2>0, <4>1 DEF Lists
        <5> QED BY <5>1, <5>2 DEF EdgesLost
      <4>2. CASE v \notin run.reparsed
        <5>1. ~Agrees(run.base, v) => ~Agrees(UpdatedManifest, v)
          <6>1. /\ UpdatedManifest.src[v] = run.base.src[v]
                /\ v \in run.base.needs => v \in UpdatedManifest.needs
            BY <4>2 DEF UpdatedManifest, Fresh
          <6>2. v \in Including /\ run.base.src[v] # NoHash /\ UpdatedManifest.header # run.base.header
                  => v \in UpdatedManifest.needs
            BY <4>2 DEF UpdatedManifest, MovedOn, Fresh
          <6> QED BY <1>2, <6>1, <6>2 DEF Agrees
        <5>2. /\ EdgesLost(v) => v \in run.markerUnits \/ ~Agrees(run.base, v)
              /\ MacrosLost(v) => marker.on \/ ~Agrees(run.base, v)
          BY <1>8, <3>2, <4>2 DEF LossInv, LossInRun
        <5>3. v \in run.markerUnits => v \in marker.units
          BY <2>0, <4>2 DEF Lists
        <5>4. /\ EdgesLost(v) => v \in marker.units \/ v \in apart
              /\ MacrosLost(v) => marker.on \/ v \in apart
          BY DEF LossInv, LossIsApart
        <5>5. v \notin Recorded
          BY <4>2 DEF Recorded, Fresh
        <5> QED BY <5>1, <5>2, <5>3, <5>4, <5>5
      <4> QED BY <4>1, <4>2
    <3> QED BY <3>1, <3>3, <3>4, <3>5 DEF WriteManifest
  <2>7. CASE ExpandMacros
    <3>1. /\ run'.base = run.base /\ run'.reparsed = run.reparsed
          /\ run'.markerUnits = run.markerUnits /\ run'.at = "dispatch" /\ run.at = "macros"
          /\ run'.pendingRun = run.pendingRun /\ run'.temp = run.temp
          /\ UNCHANGED <<rows, edges, manifest, marker, apart>>
      BY <1>2, <2>7 DEF ExpandMacros, Places
    <3>a. Stored' = Stored
      BY <3>1 DEF Stored
    <3>2. CASE run.reparsed # {} \/ run.pendingRun
      <4>1. PICK failed \in SUBSET Unit :
              /\ expanded' = (expanded \cup Unit) \ (failed \ expanded)
              /\ excused' = [excused EXCEPT !.macros = failed \ expanded]
        BY <2>7, <3>2 DEF ExpandMacros
      <4>2. excused'.edges = excused.edges /\ excused'.macros = failed \ expanded
        BY <1>2, <4>1 DEF Excuses
      <4>3. \A v \in Unit : ~MacrosLost(v)' /\ (EdgesLost(v)' <=> EdgesLost(v))
        BY <3>1, <4>1, <4>2 DEF MacrosLost, EdgesLost
      <4>4. LossAtEnd'
        BY <3>1, <4>3 DEF LossAtEnd
      <4> QED BY <1>3, <1>4, <1>8, <3>1, <3>a, <4>3, <4>4
    <3>3. CASE ~(run.reparsed # {} \/ run.pendingRun)
      <4>1. UNCHANGED <<expanded, excused>>
        BY <2>7, <3>3 DEF ExpandMacros
      <4>2. LossAtEnd'
        BY <3>1, <3>3 DEF LossAtEnd
      <4> QED BY <1>3, <1>4, <1>6, <1>8, <3>1, <3>a, <4>1, <4>2
    <3> QED BY <3>2, <3>3
  <2>8. CASE ResolveDispatches
    <3>1. /\ run.at = "dispatch" /\ run'.base = run.base /\ run'.reparsed = run.reparsed
          /\ run'.markerUnits = run.markerUnits /\ run'.at = "clear"
          /\ run'.pendingRun = run.pendingRun /\ run'.temp = run.temp
          /\ UNCHANGED <<rows, expanded, manifest, marker, apart>>
      BY <1>2, <2>8 DEF ResolveDispatches, Places
    <3>a. Stored' = Stored
      BY <3>1 DEF Stored
    <3>2. /\ edges \subseteq edges' /\ excused.edges \subseteq excused'.edges
          /\ excused'.macros = excused.macros
          /\ run.temp \subseteq edges' \cup excused'.edges
      BY <1>2, <2>8 DEF ResolveDispatches, Excuses
    <3>3. \A v \in Unit : /\ EdgesLost(v)' => EdgesLost(v) /\ v \notin run.temp
                          /\ MacrosLost(v)' <=> MacrosLost(v)
      BY <3>1, <3>2 DEF EdgesLost, MacrosLost
    <3>4. LossAtEnd'
      <4>1. \A v \in run.temp : ~EdgesLost(v)'
        BY <3>2 DEF EdgesLost
      <4>2. run.reparsed # {} \/ run.pendingRun => \A v \in Unit : ~MacrosLost(v)
        BY <3>1 DEF LossInv, LossAtEnd
      <4> QED BY <3>1, <3>3, <4>1, <4>2 DEF LossAtEnd
    <3> QED BY <1>3, <1>4, <1>8, <3>1, <3>a, <3>3, <3>4
  <2>9. CASE ClearPending
    <3>1. /\ run.at = "clear" /\ run'.at = "off" /\ marker'.on = FALSE
          /\ UNCHANGED <<rows, edges, expanded, manifest, apart>>
          /\ excused'.macros = excused.macros
          /\ excused'.edges = excused.edges \cup (run.markerUnits \cap (run.parse \ run.reparsed))
      BY <1>2, <2>9 DEF ClearPending, Idle, NoMarker, Excuses
    <3>2. \A v \in Unit : Agrees(manifest, v)' <=> Agrees(manifest, v)
      BY <1>0, <3>1 DEF Agrees
    <3>3. ASSUME NEW v \in Unit, EdgesLost(v)' PROVE ~Agrees(manifest, v) /\ v \in apart
      <4>1. EdgesLost(v) /\ v \in Dispatching /\ v \notin run.markerUnits \cap (run.parse \ run.reparsed)
        BY <3>1, <3>3 DEF EdgesLost
      <4>2. ~(v \in run.markerUnits)
        <5> SUFFICES ASSUME v \in run.markerUnits PROVE FALSE
          OBVIOUS
        <5>1. v \in run.reparsed
          BY <2>0, <4>1 DEF Lists
        <5>2. v \in run.temp
          BY <2>0, <4>1, <5>1 DEF Lists
        <5> QED BY <3>1, <4>1, <5>2 DEF LossInv, LossAtEnd
      <4>3. v \notin marker.units
        BY <2>0, <4>1, <4>2 DEF Lists
      <4> QED BY <4>1, <4>3 DEF LossInv, LossOnDisk, LossIsApart
    <3>4. ASSUME NEW v \in Unit, MacrosLost(v)' PROVE ~Agrees(manifest, v) /\ v \in apart
      <4>1. MacrosLost(v)
        BY <3>1, <3>4 DEF MacrosLost
      <4>2. ~(run.reparsed # {} \/ run.pendingRun)
        BY <3>1, <4>1 DEF LossInv, LossAtEnd
      <4>3. ~marker.on
        BY <2>0, <4>2 DEF Lists
      <4> QED BY <4>1, <4>3 DEF LossInv, LossOnDisk, LossIsApart
    <3>5. LossOnDisk' /\ LossIsApart'
      BY <3>1, <3>2, <3>3, <3>4 DEF LossOnDisk, LossIsApart
    <3>6. LossInRun' /\ LossAtEnd'
      BY <3>1 DEF LossInRun, LossAtEnd
    <3> QED BY <3>5, <3>6
  <2>10. CASE Stop
    <3>1. UNCHANGED <<rows, edges, expanded, excused, manifest, marker, apart>> /\ run'.at = "off"
      BY <2>10 DEF Stop, Idle
    <3>2. LossOnDisk' /\ LossIsApart'
      BY <1>3, <1>6, <3>1
    <3> QED BY <3>1, <3>2 DEF LossInRun, LossAtEnd
  <2>11. CASE UNCHANGED vars
    <3>1. UNCHANGED <<rows, edges, expanded, excused, manifest, marker, run, apart>>
      BY <2>11 DEF vars
    <3>a. Stored' = Stored
      BY <3>1 DEF Stored
    <3>2. LossOnDisk' /\ LossInRun' /\ LossIsApart'
      BY <1>3, <1>4, <1>6, <1>8, <3>1, <3>a
    <3>3. LossAtEnd'
      BY <3>1 DEF LossInv, LossAtEnd, EdgesLost, MacrosLost
    <3> QED BY <3>2, <3>3
  <2>12. ASSUME NEW force \in Forcing, Start(force) PROVE FALSE
    BY <1>8, <2>12 DEF Start
  <2> QED
    BY <2>1, <2>2, <2>3, <2>4, <2>5, <2>6, <2>7, <2>8, <2>9, <2>10, <2>11, <2>12
    DEF Next, RunStep
<1>9. CASE run.at = "off"
  <2>1. ASSUME NEW force \in Forcing, Start(force)
        PROVE  LossOnDisk' /\ LossInRun' /\ LossIsApart' /\ LossAtEnd'
    <3>1. /\ UNCHANGED <<rows, edges, expanded, excused, manifest, marker, apart>>
          /\ run'.at = "loop" /\ run'.base = manifest /\ run'.markerUnits = marker.units
      BY <2>1 DEF Start, Idle
    <3>2. LossOnDisk' /\ LossIsApart'
      BY <1>3, <1>6, <3>1
    <3>3. \A v \in Unit : (Agrees(run.base, v)' <=> Agrees(manifest, v))
      BY <1>0, <3>1 DEF Agrees
    <3>4. LossInRun'
      BY <1>6, <3>1, <3>3 DEF LossInv, LossOnDisk, LossInRun
    <3> QED BY <1>5, <3>1, <3>2, <3>4
  <2>2. CASE UNCHANGED vars
    <3>1. UNCHANGED <<rows, edges, expanded, excused, manifest, marker, run, apart>>
      BY <2>2 DEF vars
    <3>2. LossOnDisk' /\ LossIsApart'
      BY <1>3, <1>6, <3>1
    <3> QED BY <1>9, <3>1, <3>2 DEF LossInRun, LossAtEnd
  <2>3. CASE ~UNCHANGED vars /\ ~\E force \in Forcing : Start(force)
    BY <1>9, <2>3 DEF Next, RunStep, SkipUnchanged, SkipFailed, StoreUnit, RecordUnit, InLoop,
       NoCheckpoint, MarkCheckpoint, EndLoop, SaveCheckpoint, SaveManifest, ExpandMacros,
       ResolveDispatches, ClearPending, Stop
  <2> QED BY <2>1, <2>2, <2>3
<1> QED BY <1>8, <1>9

LEMMA LossInit == Init => LossInv
<1> SUFFICES ASSUME Init PROVE LossInv
    OBVIOUS
<1>1. HonestyInv
  BY HonestyInit
<1>2. Bookkeeping
  BY DEF Init, Bookkeeping, NoMarker, Idle
<1>3. LossOnDisk /\ LossInRun /\ LossIsApart /\ LossAtEnd
  BY DEF Init, LossOnDisk, LossInRun, LossIsApart, LossAtEnd, EdgesLost, MacrosLost, Idle
<1> QED BY <1>1, <1>2, <1>3 DEF LossInv

LEMMA LossInductive == LossInv /\ [Next]_vars => LossInv'
<1> SUFFICES ASSUME LossInv, [Next]_vars PROVE LossInv'
    OBVIOUS
<1>1. TypeOK /\ TypeOK'
  BY TypeStep DEF LossInv, HonestyInv
<1>2. HonestyInv' /\ Bookkeeping'
  BY <1>1, HonestyStep, BookkeepingStep DEF LossInv
<1>3. LossOnDisk' /\ LossInRun' /\ LossIsApart' /\ LossAtEnd'
  BY LossStep, LossWhenFilesChange
<1> QED BY <1>2, <1>3 DEF LossInv

\* Edges that a stop lost are made again: the next run parses the unit, save where the
\* code gave the edges up (see LostEdgesReparsed).
THEOREM LostEdgesAreReparsed == Spec => []LostEdgesReparsed
<1>1. LossInv => LostEdgesReparsed
  BY ConstantTypes DEF LossInv, LossOnDisk, LostEdgesReparsed, EdgesLost, NextParses, ProvenBy
<1> QED BY <1>1, LossInit, LossInductive, PTL DEF Spec

\* And so are macro values that a stop lost: the next run runs the macro step.
THEOREM LostMacrosAreExpanded == Spec => []LostMacrosExpanded
<1>1. LossInv => LostMacrosExpanded
  BY DEF LossInv, LossOnDisk, LostMacrosExpanded, MacrosLost, ProvenBy
<1> QED BY <1>1, LossInit, LossInductive, PTL DEF Spec

(***************************************************************************)
(* While a run goes on.                                                    *)
(***************************************************************************)
\* The TEMP table holds dispatching units that the run has stored.
TempInv == \A u \in run.temp : u \in Dispatching /\ rows[u].src # NoHash

LEMMA TempStep == TypeOK /\ TempInv /\ [Next]_vars => TempInv'
<1> SUFFICES ASSUME TypeOK, TempInv, [Next]_vars PROVE TempInv'
    OBVIOUS
<1> USE DEF files, indexVars, history
<1>1. ASSUME NEW u \in Unit, StoreUnit(u) PROVE TempInv'
  <2>1. /\ run'.temp = IF u \in Dispatching THEN run.temp \cup {u} ELSE run.temp
        /\ \A v \in Unit : rows'[v].src = IF v = u THEN disk[u] ELSE rows[v].src
    BY <1>1 DEF StoreUnit, TypeOK
  <2>2. disk[u] # NoHash /\ run.temp \subseteq Unit
    BY Numbers DEF Numeric, TypeOK
  <2> QED BY <2>1, <2>2 DEF TempInv
<1>2. CASE UNCHANGED rows /\ run'.temp \in {run.temp, {}}
  BY <1>2 DEF TempInv
<1>3. ASSUME NEW u \in Unit, SkipUnchanged(u) \/ SkipFailed(u) \/ RecordUnit(u) PROVE TempInv'
  <2>1. CASE SkipUnchanged(u) \/ SkipFailed(u)
    BY <1>2, <2>1 DEF SkipUnchanged, SkipFailed, TypeOK
  <2>2. CASE RecordUnit(u)
    BY <1>2, <2>2 DEF RecordUnit, TypeOK
  <2> QED BY <1>3, <2>1, <2>2
<1>4. CASE NoCheckpoint \/ MarkCheckpoint \/ SaveCheckpoint \/ EndLoop \/ SaveManifest
  BY <1>2, <1>4 DEF NoCheckpoint, MarkCheckpoint, SaveCheckpoint, EndLoop, SaveManifest, TypeOK
<1>5. CASE ExpandMacros \/ ResolveDispatches
  BY <1>2, <1>5 DEF ExpandMacros, ResolveDispatches, TypeOK
<1>6. CASE ClearPending \/ Stop \/ \E force \in Forcing : Start(force)
  <2>1. ClearPending \/ Stop => run'.temp = {}
    BY DEF ClearPending, Stop, Idle
  <2>2. ASSUME NEW force \in Forcing, Start(force) PROVE run'.temp = {}
    BY <2>2 DEF Start, Idle
  <2> QED BY <1>6, <2>1, <2>2 DEF TempInv
<1>7. CASE Edit \/ Revert \/ UNCHANGED vars
  BY <1>2, <1>7 DEF Edit, Revert, vars
<1> QED BY <1>1, <1>3, <1>4, <1>5, <1>6, <1>7 DEF Next, RunStep

\* What _run_marker.py promises (StopLosesNoEdges, which the code breaks in the ways that
\* LostEdgesReparsed names), at every moment of every run, as far as it is true: a stop
\* now has the next run parse each unit whose edges only the stopped process knows, but
\* those given up.
THEOREM StopsLoseOnlyGivenUpEdges ==
  Spec => [](\A u \in run.temp \ edges : NextParses(u) \/ u \in excused.edges)
<1> DEFINE Kept == \A u \in run.temp \ edges : NextParses(u) \/ u \in excused.edges
<1>1. LossInv /\ TempInv => Kept
  BY ConstantTypes DEF LossInv, LossOnDisk, TempInv, EdgesLost, NextParses, ProvenBy
<1>2. LossInv /\ TempInv /\ [Next]_vars => LossInv' /\ TempInv'
  BY LossInductive, TempStep DEF LossInv, HonestyInv
<1>3. Init => TempInv
  BY DEF Init, TempInv, Idle
<1> QED BY <1>1, <1>2, <1>3, LossInit, PTL DEF Spec
=============================================================================
