------------------------ MODULE SourcePreviewProofs ------------------------
(***************************************************************************)
(* Proofs about SourcePreview for any files, runs, tables and faults.      *)
(*                                                                         *)
(* A run that touches the preview tables or their backups adds every other *)
(* run in the middle of its own work to `crossed`.  So what a run that was *)
(* not crossed knows of tables and backups (RecoveryOf) is disturbed by no *)
(* step but its own, and the tables agree but for a restore in progress    *)
(* (Pending), which ends in the tables its run began with.                 *)
(*                                                                         *)
(* The manifest's rows of a file are later the newer what they were hashed *)
(* from, and what an ingest is about to append is newer still (ManifestInv,*)
(* PendingInv).  The batches of refreshes differ (BatchInv), so a write    *)
(* keeps what a completed one shows, and a run that was not crossed can    *)
(* only bring back tables that show it as well (ShownInv).                 *)
(***************************************************************************)
EXTENDS SourcePreview, FiniteSetTheorems, WellFoundedInduction, TLAPS

\* The cases of a step of a run, by what they do to the tables.
IngestStep(b) ==
  \/ AppendRunning(b) \/ RecordRunning(b) \/ Scan(b) \/ Archive(b) \/ AppendManifest(b)
RecordStep(b) ==
  \/ InsertRun(b) \/ SnapshotReady(b) \/ AppendCompleted(b) \/ RecordCompleted(b)
  \/ UpdateRun(b) \/ AppendViewCompleted(b) \/ ViewRaises(b) \/ MarkRun(b)
  \/ Restored(b) \/ AppendFailed(b) \/ RecordFailed(b) \/ Redeliver(b)
EnterStep(b) == Acquire(b) \/ AcquireView(b)
RaiseStep(b) == RefreshRaises(b) \/ AppendViewFailed(b)
CleanUpStep(b) == CleanUpWritten(b) \/ CleanUpView(b) \/ CleanUpRestored(b)
SnapshotStep(b) == DropBackup(b) \/ SnapshotTable(b)
EndStep(b) == Escapes(b) \/ Interrupt(b)
CutStep(b) == RestoreCut(b, "storage") \/ RestoreCut(b, "interrupt")

LEMMA RunCases ==
  ASSUME NEW b, RunNext(b)
  PROVE  \/ IngestStep(b) \/ RecordStep(b) \/ EnterStep(b) \/ RaiseStep(b)
         \/ CleanUpStep(b) \/ EndStep(b) \/ CutStep(b)
         \/ SnapshotStep(b) \/ Write(b) \/ RestoreTable(b)
BY DEF RunNext, IngestStep, RecordStep, EnterStep, RaiseStep, CleanUpStep, EndStep, CutStep,
   SnapshotStep

-----------------------------------------------------------------------------
LEMMA InitType == Init => TypeOK
<1>. SUFFICES ASSUME Init PROVE TypeOK
  OBVIOUS
<1>1. source \in [File -> Nat]
  BY OpeningAssumption DEF Init
<1>2. PICK s \in Shift :
         /\ stage = [b \in Run |-> IF b \in s.who THEN "waiting" ELSE "done"]
         /\ changes = s.changes /\ retries = s.retries
  BY DEF Init
<1>3. changes \in Nat /\ retries \in Nat /\ stage \in [Run -> Stage]
  BY <1>2, ShiftAssumption DEF Stage
<1>4. live \in [Table -> Seq(SUBSET Row)]
  <2>1. <<{}>> \in Seq(SUBSET Row)
    OBVIOUS
  <2>. QED
    BY <2>1 DEF Init
<1>5. backup \in [Table -> Seq(SUBSET Row)]
  <2>1. Missing \in Seq(SUBSET Row)
    BY DEF Missing
  <2>. QED
    BY <2>1 DEF Init
<1>6. before \in [Run -> [Table -> Seq(SUBSET Row)]]
  BY <1>4 DEF Init
<1>7. records \in [Run -> Seq(Status)]
  <2>1. <<>> \in Seq(Status)
    OBVIOUS
  <2>. QED
    BY <2>1 DEF Init
<1>. QED
  BY <1>1, <1>3, <1>4, <1>5, <1>6, <1>7 DEF Init, TypeOK, NoBatch, Status

LEMMA SelectedType ==
  ASSUME NEW n, NEW found \in SUBSET Row
  PROVE  Selected(n, found) \subseteq Row
BY DEF Selected, LatestRows

LEMMA ReplacedType ==
  ASSUME NEW t \in Table, NEW S \in SUBSET Row, live \in [Table -> Seq(SUBSET Row)],
         live[t] # Missing
  PROVE  <<Replaced(t, S)>> \in Seq(SUBSET Row)
<1>1. live[t] \in Seq(SUBSET Row) /\ live[t] # <<>>
  BY DEF Missing
<1>2. live[t][1] \in SUBSET Row
  BY <1>1
<1>3. Replaced(t, S) \in SUBSET Row
  BY <1>2 DEF Replaced
<1>. QED
  BY <1>3

LEMMA RecordType ==
  ASSUME TypeOK, NEW b \in Run, NEW s \in Status, Record(b, s)
  PROVE  records' \in [Run -> Seq(Status)]
BY DEF TypeOK, Record

LEMMA StageType ==
  ASSUME TypeOK, NEW b \in Run, NEW s \in Stage, stage' = [stage EXCEPT ![b] = s]
  PROVE  stage' \in [Run -> Stage]
BY DEF TypeOK

LEMMA StepType ==
  ASSUME TypeOK, [Next]_vars
  PROVE  TypeOK'
<1>. USE DEF TypeOK, Step, ingestVars, tableVars, Crossing, Release
<1>1. CASE UNCHANGED vars
  BY <1>1 DEF vars
<1>2. ASSUME NEW f \in File, NewContent(f)
      PROVE  TypeOK'
  BY <1>2 DEF NewContent
<1>3. ASSUME NEW b \in Run, RunNext(b)
      PROVE  TypeOK'
  <2>1. CASE IngestStep(b)
    <3>1. CASE AppendRunning(b)
      BY <3>1, RecordType DEF AppendRunning, Stage, Status
    <3>2. CASE RecordRunning(b)
      BY <3>2 DEF RecordRunning, Stage, Status
    <3>3. CASE Scan(b)
      <4>1. stage' \in [Run -> Stage]
        BY <3>3 DEF Scan, Stage
      <4>2. batch' \in [Run -> Batch \cup {NoBatch, Unknown}] /\ rows' \in [Run -> SUBSET Row]
        <5>1. CASE UNCHANGED <<batch, rows>>
          BY <5>1
        <5>2. ASSUME NEW n \in Batch, NEW S \in SUBSET File,
                     batch' = [batch EXCEPT ![b] = n],
                     rows' = [rows EXCEPT ![b] =
                               {[batch |-> n, file |-> f, version |-> source[f],
                                 content |-> 0, at |-> 0] : f \in S}]
              PROVE  batch' \in [Run -> Batch \cup {NoBatch, Unknown}] /\ rows' \in [Run -> SUBSET Row]
          BY <5>2 DEF Row
        <5>3. {f \in File : Changed(f)} \in SUBSET File
          OBVIOUS
        <5>. QED
          BY <3>3, <5>1, <5>2, <5>3 DEF Scan
      <4>. QED
        BY <3>3, <4>1, <4>2 DEF Scan
    <3>4. CASE Archive(b)
      <4>1. ASSUME NEW m \in Row
            PROVE  Archived(m) \in Row
        <5>1. source[m.file] \in Nat /\ clock + 1 \in Nat
          BY DEF Row
        <5>2. \A c \in Nat, a \in Nat : [m EXCEPT !.content = c, !.at = a] \in Row
          BY DEF Row
        <5>. QED
          BY <5>1, <5>2 DEF Archived
      <4>2. rows' \in [Run -> SUBSET Row]
        <5>1. rows[b] \in SUBSET Row
          OBVIOUS
        <5>2. {Archived(m) : m \in rows[b]} \in SUBSET Row
          BY <4>1, <5>1
        <5>. QED
          BY <3>4, <5>2 DEF Archive
      <4>3. stage' \in [Run -> Stage] /\ clock' \in Nat
        BY <3>4 DEF Archive, Stage
      <4>. QED
        BY <3>4, <4>2, <4>3 DEF Archive
    <3>5. CASE AppendManifest(b)
      <4>1. Files(b) \subseteq File
        BY DEF Files, Row
      <4>. QED
        BY <3>5, <4>1 DEF AppendManifest, Stage
    <3>. QED
      BY <2>1, <3>1, <3>2, <3>3, <3>4, <3>5 DEF IngestStep
  <2>2. CASE RecordStep(b)
    <3>1. CASE AppendCompleted(b) \/ AppendViewCompleted(b) \/ AppendFailed(b)
      BY <3>1, RecordType DEF AppendCompleted, AppendViewCompleted, AppendFailed, Stage, Status
    <3>2. CASE InsertRun(b) \/ RecordCompleted(b) \/ UpdateRun(b) \/ MarkRun(b) \/ RecordFailed(b)
      BY <3>2 DEF InsertRun, RecordCompleted, UpdateRun, MarkRun, RecordFailed, Stage, Status
    <3>3. CASE SnapshotReady(b) \/ ViewRaises(b) \/ Restored(b)
      BY <3>3 DEF SnapshotReady, ViewRaises, Restored, Stage
    <3>4. CASE Redeliver(b)
      BY <3>4 DEF Redeliver, Stage, NoBatch
    <3>. QED
      BY <2>2, <3>1, <3>2, <3>3, <3>4 DEF RecordStep
  <2>3. CASE EnterStep(b)
    <3>1. CASE Acquire(b)
      BY <3>1 DEF Acquire, Enter, Stage
    <3>2. CASE AcquireView(b)
      <4>1. \A m \in manifest : m.batch \in Batch
        BY DEF Row
      <4>. QED
        BY <3>2, <4>1 DEF AcquireView, Enter, Stage
    <3>. QED
      BY <2>3, <3>1, <3>2 DEF EnterStep
  <2>4. CASE RaiseStep(b)
    <3>1. CASE RefreshRaises(b)
      BY <3>1 DEF RefreshRaises, Stage
    <3>2. CASE AppendViewFailed(b)
      <4>1. records' \in [Run -> Seq(Status)]
        BY <3>2, RecordType DEF AppendViewFailed, Status
      <4>. QED
        BY <3>2, <4>1 DEF AppendViewFailed, Stage
    <3>. QED
      BY <2>4, <3>1, <3>2 DEF RaiseStep
  <2>5. CASE CleanUpStep(b)
    <3>1. ASSUME Drops
          PROVE  backup' \in [Table -> Seq(SUBSET Row)]
      BY <3>1 DEF Drops, Missing
    <3>. QED
      BY <2>5, <3>1 DEF CleanUpStep, CleanUpWritten, CleanUpView, CleanUpRestored, Stage
  <2>6. CASE EndStep(b)
    BY <2>6 DEF EndStep, Escapes, Interrupt, End, Stage
  <2>7. CASE CutStep(b)
    <3>1. live' \in [Table -> Seq(SUBSET Row)]
      <4>1. Missing \in Seq(SUBSET Row)
        BY DEF Missing
      <4>. QED
        BY <2>7, <4>1 DEF CutStep, RestoreCut
    <3>2. stage' \in [Run -> Stage] /\ writer' \in Run \cup {NoRun}
      BY <2>7 DEF CutStep, RestoreCut, Stage
    <3>. QED
      BY <2>7, <3>1, <3>2 DEF CutStep, RestoreCut
  <2>8. CASE SnapshotStep(b)
    <3>1. CASE DropBackup(b)
      <4>1. Missing \in Seq(SUBSET Row)
        BY DEF Missing
      <4>2. backup' \in [Table -> Seq(SUBSET Row)]
        BY <3>1, <4>1 DEF DropBackup
      <4>. QED
        BY <3>1, <4>2 DEF DropBackup
    <3>2. CASE SnapshotTable(b)
      BY <3>2 DEF SnapshotTable
    <3>. QED
      BY <2>8, <3>1, <3>2 DEF SnapshotStep
  <2>9. CASE Write(b)
    <3>1. PICK found \in SUBSET manifest : Writes(b, found) /\ Losing(b, found)
      BY <2>9 DEF Write, Archives
    <3>2. live' \in [Table -> Seq(SUBSET Row)]
      <4>1. Selected(batch[b], found) \in SUBSET Row
        BY SelectedType
      <4>2. \A t \in Table : <<Replaced(t, Selected(batch[b], found))>> \in Seq(SUBSET Row)
        BY <2>9, <4>1, ReplacedType DEF Write, TablesExist
      <4>. QED
        BY <3>1, <4>2 DEF Writes
    <3>3. lost' \subseteq Row
      BY <3>1 DEF Losing
    <3>. QED
      BY <2>9, <3>2, <3>3 DEF Write, Stage
  <2>10. CASE RestoreTable(b)
    BY <2>10 DEF RestoreTable
  <2>. QED
    BY <1>3, <2>1, <2>2, <2>3, <2>4, <2>5, <2>6, <2>7, <2>8, <2>9, <2>10, RunCases
<1>. QED
  BY <1>1, <1>2, <1>3 DEF Next

THEOREM TypeCorrect == Spec => []TypeOK
<1>1. TypeOK /\ [Next]_vars => TypeOK'
  BY StepType
<1>. QED
  BY <1>1, InitType, PTL DEF Spec

-----------------------------------------------------------------------------
(***************************************************************************)
(* What a restore brings back                                              *)
(***************************************************************************)
LEMMA LeastNatural ==
  ASSUME NEW T \in SUBSET Nat, T # {}
  PROVE  \E n \in T : \A m \in T : n <= m
<1> DEFINE Lt == OpToRel(<, Nat)
<1>1. IsWellFoundedOn(Lt, Nat)
  BY NatLessThanWellFounded
<1>2. \E n \in T : \A m \in T : <<m, n>> \notin Lt
  <2> HIDE DEF Lt
  <2> QED BY <1>1, WFMin
<1>3. \A n, m \in Nat : <<m, n>> \notin Lt => n <= m
  BY DEF OpToRel
<1> QED BY <1>2, <1>3

\* The table whose turn it is is one of those that are left.
LEMMA TurnLeft ==
  ASSUME TypeOK, NEW b \in Run, left[b] # {}
  PROVE  Turn(b) \in left[b]
<1>1. left[b] \in SUBSET Nat
  BY DEF TypeOK, Table
<1>2. \E n \in left[b] : \A m \in left[b] : n <= m
  BY <1>1, LeastNatural
<1>. QED
  BY <1>2 DEF Turn, Min

Same(f, g) == \A t \in Table : f[t] = g[t]

\* What a run that was not crossed knows of the tables and of their backups.
RecoveryOf(b) ==
  /\ stage[b] = "opened" => Same(live, before[b]) /\ left[b] = Table
  /\ stage[b] = "snapshot" =>
       /\ Same(live, before[b])
       /\ \A t \in Table \ left[b] : backup[t] = before[b][t]
  /\ stage[b] \in {"write", "written", "stored"} => Same(backup, before[b])
  /\ (stage[b] \in {"raised", "marked"} /\ left[b] = {}) => Same(backup, before[b])
  /\ stage[b] = "restore" =>
       /\ Same(backup, before[b])
       /\ \A t \in Table \ left[b] : live[t] = before[b][t]
  /\ stage[b] = "clean" => Same(live, before[b])

RecoveryInv == \A b \in Run \ crossed : RecoveryOf(b)

\* A view has no ingest and a refresh no row of its own.
IngestStage == {"recorded", "ingest", "scanned", "archived", "ingested"}
ViewStage == {"opened", "stored", "committed", "raised", "marked"}
StageInv ==
  /\ \A b \in View : stage[b] \notin IngestStage
  /\ \A b \in Refresh : stage[b] \notin ViewStage

LEMMA StepStage ==
  ASSUME TypeOK, StageInv, [Next]_vars
  PROVE  StageInv'
<1>. USE RunAssumption DEF TypeOK, StageInv, IngestStage, ViewStage, Step, Run
<1>1. CASE UNCHANGED vars
  BY <1>1 DEF vars
<1>2. ASSUME NEW f \in File, NewContent(f)
      PROVE  StageInv'
  BY <1>2 DEF NewContent
<1>3. ASSUME NEW b \in Run, RunNext(b)
      PROVE  StageInv'
  <2>1. CASE IngestStep(b)
    BY <2>1 DEF IngestStep, AppendRunning, RecordRunning, Scan, Archive, AppendManifest
  <2>2. CASE RecordStep(b)
    BY <2>2 DEF RecordStep, InsertRun, SnapshotReady, AppendCompleted, RecordCompleted,
       UpdateRun, AppendViewCompleted, ViewRaises, MarkRun, Restored, AppendFailed,
       RecordFailed, Redeliver
  <2>3. CASE EnterStep(b) \/ RaiseStep(b) \/ EndStep(b)
    BY <2>3 DEF EnterStep, Acquire, AcquireView, RaiseStep, RefreshRaises, AppendViewFailed,
       EndStep, Escapes, Interrupt, End
  <2>4. CASE CleanUpStep(b) \/ CutStep(b)
    BY <2>4 DEF CleanUpStep, CleanUpWritten, CleanUpView, CleanUpRestored, CutStep, RestoreCut
  <2>5. CASE SnapshotStep(b) \/ Write(b) \/ RestoreTable(b)
    BY <2>5 DEF SnapshotStep, DropBackup, SnapshotTable, Write, RestoreTable
  <2>. QED
    BY <1>3, <2>1, <2>2, <2>3, <2>4, <2>5, RunCases
<1>. QED
  BY <1>1, <1>2, <1>3 DEF Next

\* A step of another run leaves a run where it is, and crosses it before it
\* touches the tables the run depends on.
LEMMA OtherRun ==
  ASSUME TypeOK, NEW b \in Run, NEW c \in Run, b # c, RunNext(c)
  PROVE  /\ stage'[b] = stage[b] /\ left'[b] = left[b] /\ before'[b] = before[b]
         /\ b \in crossed => b \in crossed'
         /\ UNCHANGED <<live, backup>> \/ (Critical(b) => b \in crossed')
<1>. USE DEF TypeOK, Step, ingestVars, tableVars, Crossing
<1>1. CASE IngestStep(c)
  BY <1>1 DEF IngestStep, AppendRunning, RecordRunning, Scan, Archive, AppendManifest
<1>2. CASE RecordStep(c)
  BY <1>2 DEF RecordStep, InsertRun, SnapshotReady, AppendCompleted, RecordCompleted,
     UpdateRun, AppendViewCompleted, ViewRaises, MarkRun, Restored, AppendFailed,
     RecordFailed, Redeliver
<1>3. CASE EnterStep(c)
  BY <1>3 DEF EnterStep, Acquire, AcquireView, Enter
<1>4. CASE RaiseStep(c)
  BY <1>4 DEF RaiseStep, RefreshRaises, AppendViewFailed
<1>5. CASE CleanUpStep(c)
  BY <1>5 DEF CleanUpStep, CleanUpWritten, CleanUpView, CleanUpRestored
<1>6. CASE EndStep(c)
  BY <1>6 DEF EndStep, Escapes, Interrupt, End
<1>7. CASE CutStep(c)
  BY <1>7 DEF CutStep, RestoreCut
<1>8. CASE SnapshotStep(c)
  BY <1>8 DEF SnapshotStep, DropBackup, SnapshotTable
<1>9. CASE Write(c)
  BY <1>9 DEF Write
<1>10. CASE RestoreTable(c)
  BY <1>10 DEF RestoreTable
<1>. QED
  BY <1>1, <1>2, <1>3, <1>4, <1>5, <1>6, <1>7, <1>8, <1>9, <1>10, RunCases

\* No step of its own marks a run as crossed, or as one that is not, but for
\* the one that takes the lock.
LEMMA OwnCrossed ==
  ASSUME TypeOK, NEW b \in Run, RunNext(b)
  PROVE  b \in crossed' \/ b \notin crossed \/ EnterStep(b)
<1>. USE DEF TypeOK, Step, ingestVars, tableVars, Crossing
<1>1. CASE IngestStep(b) \/ RecordStep(b)
  BY <1>1 DEF IngestStep, AppendRunning, RecordRunning, Scan, Archive, AppendManifest,
     RecordStep, InsertRun, SnapshotReady, AppendCompleted, RecordCompleted,
     UpdateRun, AppendViewCompleted, ViewRaises, MarkRun, Restored, AppendFailed,
     RecordFailed, Redeliver
<1>2. CASE RaiseStep(b) \/ EndStep(b)
  BY <1>2 DEF RaiseStep, RefreshRaises, AppendViewFailed, EndStep, Escapes, Interrupt, End
<1>3. CASE CleanUpStep(b) \/ CutStep(b) \/ SnapshotStep(b) \/ Write(b) \/ RestoreTable(b)
  BY <1>3 DEF CleanUpStep, CleanUpWritten, CleanUpView, CleanUpRestored, CutStep,
     RestoreCut, SnapshotStep, DropBackup, SnapshotTable, Write, RestoreTable
<1>. QED
  BY <1>1, <1>2, <1>3, RunCases

\* A step of its own keeps what a run knows.
LEMMA OwnRecovery ==
  ASSUME TypeOK, StageInv, NEW b \in Run, RunNext(b), RecoveryOf(b) \/ EnterStep(b)
  PROVE  RecoveryOf(b)'
<1>. USE DEF TypeOK, Step, ingestVars, tableVars, Crossing, RecoveryOf, Same
<1>1. CASE IngestStep(b)
  BY <1>1 DEF IngestStep, EnterStep, Acquire, AcquireView, AppendRunning, RecordRunning,
     Scan, Archive, AppendManifest
<1>2. CASE EnterStep(b)
  BY <1>2 DEF EnterStep, Acquire, AcquireView, Enter
<1>3. ASSUME RecoveryOf(b), RecordStep(b)
      PROVE  RecoveryOf(b)'
  <2>1. CASE InsertRun(b)
    BY <1>3, <2>1 DEF InsertRun
  <2>2. CASE SnapshotReady(b) \/ Restored(b)
    BY <1>3, <2>2 DEF SnapshotReady, Restored
  <2>4. CASE UpdateRun(b) \/ MarkRun(b)
    BY <1>3, <2>4 DEF UpdateRun, MarkRun
  <2>5. CASE ViewRaises(b)
    BY <1>3, <2>5 DEF ViewRaises, Raises, StageInv, IngestStage
  <2>3. CASE \/ AppendCompleted(b) \/ RecordCompleted(b) \/ AppendViewCompleted(b)
             \/ AppendFailed(b) \/ RecordFailed(b) \/ Redeliver(b)
    BY <2>3 DEF AppendCompleted, RecordCompleted, AppendViewCompleted, AppendFailed,
       RecordFailed, Redeliver
  <2>. QED
    BY <1>3, <2>1, <2>2, <2>3, <2>4, <2>5 DEF RecordStep
<1>4. ASSUME RecoveryOf(b), RaiseStep(b)
      PROVE  RecoveryOf(b)'
  BY <1>4 DEF RaiseStep, RefreshRaises, AppendViewFailed
<1>5. CASE CleanUpStep(b)
  BY <1>5 DEF CleanUpStep, CleanUpWritten, CleanUpView, CleanUpRestored
<1>6. CASE EndStep(b)
  BY <1>6 DEF EndStep, Escapes, Interrupt, End
<1>7. CASE CutStep(b)
  BY <1>7 DEF CutStep, RestoreCut
<1>8. ASSUME RecoveryOf(b), SnapshotStep(b)
      PROVE  RecoveryOf(b)'
  <2>1. CASE DropBackup(b)
    <3>1. Turn(b) \in left[b]
      BY <2>1, TurnLeft DEF DropBackup
    <3>. QED
      BY <1>8, <2>1, <3>1 DEF DropBackup
  <2>2. CASE SnapshotTable(b)
    BY <1>8, <2>2 DEF SnapshotTable
  <2>. QED
    BY <1>8, <2>1, <2>2 DEF SnapshotStep
<1>9. ASSUME RecoveryOf(b), Write(b)
      PROVE  RecoveryOf(b)'
  BY <1>9 DEF Write
<1>10. ASSUME RecoveryOf(b), RestoreTable(b)
       PROVE  RecoveryOf(b)'
  BY <1>10 DEF RestoreTable
<1>11. CASE ~ EnterStep(b)
  BY <1>1, <1>3, <1>4, <1>5, <1>6, <1>7, <1>8, <1>9, <1>10, <1>11, RunCases
<1>. QED
  BY <1>2, <1>11

\* Nobody knows less after a step than before, who was not crossed by it.
LEMMA StepRecovery ==
  ASSUME TypeOK, StageInv, RecoveryInv, [Next]_vars
  PROVE  RecoveryInv'
<1>. SUFFICES ASSUME NEW b \in Run, b \notin crossed'
              PROVE  RecoveryOf(b)'
  BY DEF RecoveryInv
<1>1. CASE UNCHANGED vars
  BY <1>1 DEF vars, tableVars, RecoveryInv, RecoveryOf, Same
<1>2. ASSUME NEW f \in File, NewContent(f)
      PROVE  RecoveryOf(b)'
  BY <1>2 DEF NewContent, tableVars, RecoveryInv, RecoveryOf, Same
<1>3. CASE RunNext(b)
  BY <1>3, OwnCrossed, OwnRecovery DEF RecoveryInv
<1>4. ASSUME NEW c \in Run, b # c, RunNext(c)
      PROVE  RecoveryOf(b)'
  <2>1. /\ stage'[b] = stage[b] /\ left'[b] = left[b] /\ before'[b] = before[b]
        /\ b \notin crossed
        /\ UNCHANGED <<live, backup>> \/ ~ Critical(b)
    BY <1>4, OtherRun
  <2>2. RecoveryOf(b)
    BY <2>1 DEF RecoveryInv
  <2>3. CASE UNCHANGED <<live, backup>>
    BY <2>1, <2>2, <2>3 DEF RecoveryOf, Same
  <2>4. CASE ~ Critical(b)
    BY <2>1, <2>4 DEF RecoveryOf, Critical
  <2>. QED
    BY <2>1, <2>3, <2>4
<1>. QED
  BY <1>1, <1>2, <1>3, <1>4 DEF Next

LEMMA InitRecovery == Init => StageInv /\ RecoveryInv
<1>. SUFFICES ASSUME Init PROVE StageInv /\ RecoveryInv
  OBVIOUS
<1>1. PICK s \in Shift : stage = [b \in Run |-> IF b \in s.who THEN "waiting" ELSE "done"]
  BY DEF Init
<1>2. \A b \in Run : stage[b] \in {"waiting", "done"}
  BY <1>1
<1>. QED
  BY <1>2 DEF StageInv, IngestStage, ViewStage, RecoveryInv, RecoveryOf, Run

LEMMA RecoveryHolds == Spec => [](TypeOK /\ StageInv /\ RecoveryInv)
<1>1. TypeOK /\ StageInv /\ RecoveryInv /\ [Next]_vars => (TypeOK /\ StageInv /\ RecoveryInv)'
  BY StepType, StepStage, StepRecovery
<1>. QED
  BY <1>1, InitType, InitRecovery, PTL DEF Spec

\* When a run has failed and restored its tables they are what they were when
\* it took the lock, unless another run touched them, for any number of runs,
\* tables and faults.
THEOREM RestoredHolds == Spec => []RestoredIsAsBefore
<1>1. TypeOK /\ RecoveryInv => RestoredIsAsBefore
  <2>. SUFFICES ASSUME TypeOK, RecoveryInv, NEW b \in Run \ crossed, stage[b] = "clean"
                PROVE  live = before[b]
    BY DEF RestoredIsAsBefore
  <2>1. \A t \in Table : live[t] = before[b][t]
    BY DEF RecoveryInv, RecoveryOf, Same
  <2>2. live \in [Table -> Seq(SUBSET Row)] /\ before[b] \in [Table -> Seq(SUBSET Row)]
    BY DEF TypeOK
  <2>. QED
    BY <2>1, <2>2
<1>. QED
  BY <1>1, RecoveryHolds, PTL

-----------------------------------------------------------------------------
(***************************************************************************)
(* The tables agree                                                        *)
(***************************************************************************)
Agree(f) == \A t \in Table : f[t] = f[1] /\ f[t] # Missing

\* A restore that has tables to go: it will restore them or be cut off.
Pending(d) == stage[d] = "restore" /\ left[d] # {}

Depending == {"opened", "snapshot", "write", "written", "stored", "raised", "marked",
              "restore"}

\* Only a pending restore lets the tables differ, and a run that was not crossed
\* can only then have begun with tables that differ.
AgreeInv ==
  ~undone =>
    /\ (\A d \in Run : ~Pending(d)) => Agree(live)
    /\ \A b \in Run \ crossed :
         stage[b] \in Depending =>
           Agree(before[b]) \/ \E d \in Run \ {b} : Pending(d)

LEMMA AgreeOrPending ==
  ASSUME AgreeInv, ~undone
  PROVE  Agree(live) \/ \E d \in Run : Pending(d)
BY DEF AgreeInv

\* Nobody but a restore that is cut off ends another one.
LEMMA PendingStays ==
  ASSUME TypeOK, NEW b \in Run, NEW d \in Run, b # d, RunNext(b), Pending(d)
  PROVE  Pending(d)'
BY OtherRun DEF Pending

LEMMA ReplacedAgree ==
  ASSUME Agree(live), NEW S
  PROVE  \A t \in Table : Replaced(t, S) = Replaced(1, S)
BY DEF Agree, Replaced

\* The steps that neither touch the tables nor end a restore.
Calm(b) ==
  \/ IngestStep(b) \/ RecordStep(b) \/ EnterStep(b) \/ RaiseStep(b) \/ CleanUpStep(b)
  \/ EndStep(b) \/ SnapshotStep(b)

LEMMA CalmFrame ==
  ASSUME TypeOK, NEW b \in Run, Calm(b)
  PROVE  live' = live /\ undone' = undone /\ (Pending(b) => Pending(b)')
<1>. USE DEF TypeOK, Step, ingestVars, tableVars, Pending
<1>1. CASE IngestStep(b) \/ RecordStep(b)
  BY <1>1 DEF IngestStep, AppendRunning, RecordRunning, Scan, Archive, AppendManifest,
     RecordStep, InsertRun, SnapshotReady, AppendCompleted, RecordCompleted,
     UpdateRun, AppendViewCompleted, ViewRaises, MarkRun, Restored, AppendFailed,
     RecordFailed, Redeliver, Raises
<1>2. CASE EnterStep(b)
  BY <1>2 DEF EnterStep, Acquire, AcquireView, Enter
<1>3. CASE RaiseStep(b) \/ EndStep(b)
  BY <1>3 DEF RaiseStep, RefreshRaises, AppendViewFailed, EndStep, Escapes, Interrupt, End,
     Raises
<1>4. CASE CleanUpStep(b) \/ SnapshotStep(b)
  BY <1>4 DEF CleanUpStep, CleanUpWritten, CleanUpView, CleanUpRestored, SnapshotStep, DropBackup, SnapshotTable
<1>. QED
  BY <1>1, <1>2, <1>3, <1>4 DEF Calm

\* A run comes to depend on the tables it began with when it takes the lock.
LEMMA CalmDepends ==
  ASSUME TypeOK, NEW b \in Run, Calm(b), stage'[b] \in Depending
  PROVE  \/ before'[b] = live /\ ~ Pending(b)
         \/ stage[b] \in Depending /\ before'[b] = before[b] /\ b \notin crossed \ crossed'
         \/ b \in View /\ stage[b] \in IngestStage
<1>. USE DEF TypeOK, Step, ingestVars, tableVars, Crossing, Pending, Depending, IngestStage
<1>1. CASE IngestStep(b) \/ RecordStep(b)
  BY <1>1 DEF IngestStep, AppendRunning, RecordRunning, Scan, Archive, AppendManifest,
     RecordStep, InsertRun, SnapshotReady, AppendCompleted, RecordCompleted,
     UpdateRun, AppendViewCompleted, ViewRaises, MarkRun, Restored, AppendFailed,
     RecordFailed, Redeliver, Raises
<1>2. CASE EnterStep(b)
  BY <1>2 DEF EnterStep, Acquire, AcquireView, Enter
<1>3. CASE RaiseStep(b) \/ EndStep(b)
  BY <1>3 DEF RaiseStep, RefreshRaises, AppendViewFailed, EndStep, Escapes, Interrupt, End,
     Raises
<1>4. CASE CleanUpStep(b) \/ SnapshotStep(b)
  BY <1>4 DEF CleanUpStep, CleanUpWritten, CleanUpView, CleanUpRestored, SnapshotStep, DropBackup, SnapshotTable
<1>. QED
  BY <1>1, <1>2, <1>3, <1>4 DEF Calm

LEMMA AgreeUnchanged ==
  ASSUME AgreeInv, UNCHANGED <<live, undone, before, crossed, stage, left>>
  PROVE  AgreeInv'
BY DEF AgreeInv, Agree, Pending

\* The first part, after a step of b.
LEMMA StepAgreeLive ==
  ASSUME TypeOK, StageInv, RecoveryInv, AgreeInv, NEW b \in Run, RunNext(b), ~undone',
         \A d \in Run : ~Pending(d)'
  PROVE  Agree(live)'
<1>1. \A d \in Run \ {b} : ~Pending(d)
  BY PendingStays
<1>2. CASE Calm(b)
  <2>1. ~undone /\ \A d \in Run : ~Pending(d)
    BY <1>1, <1>2, CalmFrame
  <2>. QED
    BY <1>2, <2>1, CalmFrame, AgreeOrPending DEF Agree
<1>3. CASE CutStep(b)
  BY <1>3 DEF CutStep, RestoreCut
<1>4. CASE Write(b)
  <2>7. PICK found \in SUBSET manifest : Writes(b, found)
    BY <1>4 DEF Write, Archives
  <2>1. ~undone /\ stage[b] = "write" /\ live \in [Table -> Seq(SUBSET Row)]
        /\ live' = [t \in Table |-> <<Replaced(t, Selected(batch[b], found))>>]
    BY <1>4, <2>7 DEF Write, Writes, Step, TypeOK
  <2>2. Agree(live)
    BY <1>1, <2>1, AgreeOrPending DEF Pending
  <2>3. \A t \in Table :
          Replaced(t, Selected(batch[b], found)) = Replaced(1, Selected(batch[b], found))
    BY <2>2, ReplacedAgree
  <2>4. \A t \in Table : 1 \in Table
    BY BoundAssumption DEF Table
  <2>. QED
    BY <2>1, <2>3, <2>4 DEF Agree, Missing
<1>5. CASE RestoreTable(b)
  <2>1. ~undone /\ b \notin crossed /\ stage[b] = "restore" /\ stage' = stage
        /\ before' = before
    BY <1>5 DEF RestoreTable, TypeOK
  <2>2. left'[b] = {}
    BY <2>1 DEF Pending
  <2>3. RecoveryOf(b)'
    BY <2>1, OwnRecovery DEF RecoveryInv
  <2>4. \A t \in Table : live'[t] = before[b][t]
    BY <2>1, <2>2, <2>3 DEF RecoveryOf
  <2>5. Agree(before[b])
    BY <1>1, <2>1 DEF AgreeInv, Depending
  <2>6. \A t \in Table : 1 \in Table
    BY BoundAssumption DEF Table
  <2>. QED
    BY <2>4, <2>5, <2>6 DEF Agree
<1>. QED
  BY <1>2, <1>3, <1>4, <1>5, RunCases DEF Calm

\* The second part, for the run that steps.
LEMMA StepAgreeOwn ==
  ASSUME TypeOK, StageInv, AgreeInv, NEW b \in Run, RunNext(b), ~undone',
         b \notin crossed', stage'[b] \in Depending
  PROVE  Agree(before'[b]) \/ \E d \in Run \ {b} : Pending(d)'
<1>1. \A d \in Run \ {b} : Pending(d) => Pending(d)'
  BY PendingStays
<1>2. CASE Calm(b)
  <2>1. ~undone
    BY <1>2, CalmFrame
  <2>2. CASE before'[b] = live /\ ~ Pending(b)
    BY <1>1, <2>1, <2>2, AgreeOrPending
  <2>3. CASE stage[b] \in Depending /\ before'[b] = before[b] /\ b \notin crossed
    BY <1>1, <2>1, <2>3 DEF AgreeInv
  <2>. QED
    BY <1>2, <2>2, <2>3, CalmDepends DEF StageInv
<1>3. CASE CutStep(b)
  BY <1>3 DEF CutStep, RestoreCut
<1>4. CASE Write(b) \/ RestoreTable(b)
  <2>1. ~undone /\ stage[b] \in Depending /\ before' = before /\ b \notin crossed
    BY <1>4 DEF Write, RestoreTable, Step, Crossing, Depending, TypeOK
  <2>. QED
    BY <1>1, <2>1 DEF AgreeInv
<1>. QED
  BY <1>2, <1>3, <1>4, RunCases DEF Calm

\* The second part, for another run.
LEMMA StepAgreeOther ==
  ASSUME TypeOK, AgreeInv, NEW b \in Run, RunNext(b), ~undone', NEW e \in Run, e # b,
         e \notin crossed', stage'[e] \in Depending
  PROVE  Agree(before'[e]) \/ \E d \in Run \ {e} : Pending(d)'
<1>1. stage'[e] = stage[e] /\ before'[e] = before[e] /\ e \notin crossed
  BY OtherRun
<1>2. Critical(e)
  BY <1>1 DEF Critical, Depending
<1>3. CASE CutStep(b)
  BY <1>3 DEF CutStep, RestoreCut
<1>4. CASE RestoreTable(b)
  BY <1>2, <1>4 DEF RestoreTable, Crossing
<1>5. CASE Calm(b) \/ Write(b)
  <2>1. ~undone /\ (Pending(b) => Pending(b)')
    BY <1>5, CalmFrame DEF Write, Step, Pending, TypeOK
  <2>2. \A d \in Run : Pending(d) => Pending(d)'
    BY <2>1, PendingStays
  <2>. QED
    BY <1>1, <2>1, <2>2 DEF AgreeInv
<1>. QED
  BY <1>3, <1>4, <1>5, RunCases DEF Calm

LEMMA StepAgree ==
  ASSUME TypeOK, StageInv, RecoveryInv, AgreeInv, [Next]_vars
  PROVE  AgreeInv'
<1>1. CASE UNCHANGED vars
  BY <1>1, AgreeUnchanged DEF vars, tableVars
<1>2. ASSUME NEW f \in File, NewContent(f)
      PROVE  AgreeInv'
  BY <1>2, AgreeUnchanged DEF NewContent, tableVars
<1>3. ASSUME NEW b \in Run, RunNext(b)
      PROVE  AgreeInv'
  <2>. SUFFICES ASSUME ~undone'
                PROVE  AgreeInv'
    BY DEF AgreeInv
  <2>1. (\A d \in Run : ~Pending(d)') => Agree(live)'
    BY <1>3, StepAgreeLive
  <2>2. \A e \in Run : (e \notin crossed' /\ stage'[e] \in Depending) =>
          Agree(before'[e]) \/ \E d \in Run \ {e} : Pending(d)'
    BY <1>3, StepAgreeOwn, StepAgreeOther
  <2>. QED
    BY <2>1, <2>2 DEF AgreeInv, Agree
<1>. QED
  BY <1>1, <1>2, <1>3 DEF Next

\* Outside of a restore the tables agree, unless one was cut off or not of its
\* own backups, for any number of runs, tables and faults.
THEOREM TablesAgreeHolds == Spec => []TablesAgreeUnlessUndone
<1>1. Init => AgreeInv
  <2>. SUFFICES ASSUME Init PROVE AgreeInv
    OBVIOUS
  <2>1. Agree(live)
    <3>1. \A t \in Table : 1 \in Table
      BY BoundAssumption DEF Table
    <3>. QED
      BY <3>1 DEF Init, Agree, Missing
  <2>2. \A b \in Run : before[b] = live
    BY DEF Init
  <2>. QED
    BY <2>1, <2>2 DEF AgreeInv
<1>2. TypeOK /\ StageInv /\ RecoveryInv /\ AgreeInv /\ [Next]_vars => AgreeInv'
  BY StepAgree
<1>3. AgreeInv => TablesAgreeUnlessUndone
  BY DEF AgreeInv, TablesAgreeUnlessUndone, Pending, Agree
<1>. QED
  BY <1>1, <1>2, <1>3, RecoveryHolds, PTL DEF Spec

-----------------------------------------------------------------------------
(***************************************************************************)
(* The job state                                                           *)
(***************************************************************************)
Has(b, s) == \E i \in 1 .. Len(records[b]) : records[b][i] = s

\* A refresh writes to the stream first.
JobInv ==
  \A b \in Refresh :
    /\ stage[b] = "recorded" => Has(b, "running")
    /\ stage[b] = "completed" => Has(b, "completed")
    /\ stage[b] = "undone" => Has(b, "failed")
    /\ job[b] # "none" => Has(b, job[b])

\* A record that is appended is there, and the others stay.
LEMMA HasAppended ==
  ASSUME TypeOK, NEW b \in Run, NEW s \in Status, Record(b, s)
  PROVE  Has(b, s)' /\ \A c \in Run : \A x : Has(c, x) => Has(c, x)'
<1>1. records[b] \in Seq(Status)
  BY DEF TypeOK
<1>2. records'[b] = Append(records[b], s) /\ \A c \in Run \ {b} : records'[c] = records[c]
  BY DEF Record, TypeOK
<1>3. /\ Len(records'[b]) = Len(records[b]) + 1 /\ records'[b][Len(records[b]) + 1] = s
      /\ \A i \in 1 .. Len(records[b]) : records'[b][i] = records[b][i]
      /\ Len(records[b]) \in Nat
  BY <1>1, <1>2
<1>4. Has(b, s)'
  BY <1>3 DEF Has
<1>5. ASSUME NEW c \in Run, NEW x, Has(c, x)
      PROVE  Has(c, x)'
  <2>1. CASE c = b
    BY <1>3, <1>5, <2>1 DEF Has
  <2>2. CASE c # b
    BY <1>2, <1>5, <2>2 DEF Has
  <2>. QED
    BY <2>1, <2>2
<1>. QED
  BY <1>4, <1>5

LEMMA HasStays ==
  ASSUME UNCHANGED records
  PROVE  \A c \in Run : \A x : Has(c, x) => Has(c, x)'
BY DEF Has

LEMMA StepJob ==
  ASSUME TypeOK, StageInv, JobInv, [Next]_vars
  PROVE  JobInv'
<1>. USE RunAssumption DEF TypeOK, Step, Run, ingestVars, tableVars
<1>1. CASE UNCHANGED vars
  BY <1>1, HasStays DEF vars, JobInv
<1>2. ASSUME NEW f \in File, NewContent(f)
      PROVE  JobInv'
  BY <1>2, HasStays DEF NewContent, JobInv
<1>3. ASSUME NEW b \in Run, RunNext(b)
      PROVE  JobInv'
  <2>1. CASE AppendRunning(b) \/ AppendCompleted(b) \/ AppendFailed(b)
    <3>1. \/ Record(b, "running") /\ stage' = [stage EXCEPT ![b] = "recorded"]
          \/ Record(b, "completed") /\ stage' = [stage EXCEPT ![b] = "completed"]
          \/ Record(b, "failed") /\ stage' = [stage EXCEPT ![b] = "undone"]
      BY <2>1 DEF AppendRunning, AppendCompleted, AppendFailed
    <3>2. job' = job
      BY <2>1 DEF AppendRunning, AppendCompleted, AppendFailed
    <3>. QED
      BY <3>1, <3>2, HasAppended DEF JobInv, Status
  <2>2. CASE AppendViewCompleted(b) \/ AppendViewFailed(b)
    <3>1. b \in View
      BY <2>2 DEF AppendViewCompleted, AppendViewFailed, StageInv, ViewStage
    <3>2. \A c \in Run : \A x : Has(c, x) => Has(c, x)'
      BY <2>2, HasAppended, HasStays DEF AppendViewCompleted, AppendViewFailed, Status
    <3>3. job' = job /\ \A c \in Run \ {b} : stage'[c] = stage[c]
      BY <2>2 DEF AppendViewCompleted, AppendViewFailed
    <3>. QED
      BY <3>1, <3>2, <3>3 DEF JobInv
  <2>3. CASE RecordRunning(b) \/ RecordCompleted(b) \/ RecordFailed(b)
    <3>1. /\ records' = records
          /\ \A c \in Run \ {b} : stage'[c] = stage[c] /\ job'[c] = job[c]
          /\ stage'[b] \notin {"recorded", "completed", "undone"}
          /\ \/ stage[b] = "recorded" /\ job'[b] = "running"
             \/ stage[b] = "completed" /\ job'[b] = "completed"
             \/ stage[b] = "undone" /\ job'[b] = "failed"
      BY <2>3 DEF RecordRunning, RecordCompleted, RecordFailed
    <3>2. \A c \in Refresh : job'[c] # "none" => Has(c, job'[c])
      BY <3>1 DEF JobInv
    <3>. QED
      BY <3>1, <3>2, HasStays DEF JobInv
  <2>4. CASE InsertRun(b) \/ UpdateRun(b) \/ MarkRun(b)
    <3>1. b \in View
      BY <2>4 DEF InsertRun, UpdateRun, MarkRun, StageInv, ViewStage
    <3>2. records' = records /\ \A c \in Run \ {b} : stage'[c] = stage[c] /\ job'[c] = job[c]
      BY <2>4 DEF InsertRun, UpdateRun, MarkRun
    <3>. QED
      BY <3>1, <3>2, HasStays DEF JobInv
  <2>5. CASE Scan(b) \/ Archive(b) \/ AppendManifest(b) \/ SnapshotReady(b) \/ ViewRaises(b)
             \/ Restored(b) \/ Redeliver(b) \/ RefreshRaises(b) \/ EnterStep(b)
             \/ CleanUpStep(b) \/ EndStep(b) \/ CutStep(b) \/ SnapshotStep(b) \/ Write(b)
             \/ RestoreTable(b)
    <3>1. UNCHANGED <<records, job>>
      BY <2>5 DEF Scan, Archive, AppendManifest, SnapshotReady, ViewRaises, Restored,
         Redeliver, RefreshRaises, EnterStep, Acquire, AcquireView, Enter, CleanUpStep,
         CleanUpWritten, CleanUpView, CleanUpRestored, EndStep, Escapes, Interrupt, End,
         CutStep, RestoreCut, SnapshotStep, DropBackup, SnapshotTable, Write, RestoreTable
    <3>2. \A c \in Run : \/ stage'[c] = stage[c]
                         \/ stage'[c] \notin {"recorded", "completed", "undone"}
      BY <2>5 DEF Scan, Archive, AppendManifest, SnapshotReady, ViewRaises, Restored,
         Redeliver, RefreshRaises, EnterStep, Acquire, AcquireView, Enter, CleanUpStep,
         CleanUpWritten, CleanUpView, CleanUpRestored, EndStep, Escapes, Interrupt, End,
         CutStep, RestoreCut, SnapshotStep, DropBackup, SnapshotTable, Write, RestoreTable
    <3>. QED
      BY <3>1, <3>2, HasStays DEF JobInv
  <2>. QED
    BY <1>3, <2>1, <2>2, <2>3, <2>4, <2>5, RunCases DEF IngestStep, RecordStep, RaiseStep
<1>. QED
  BY <1>1, <1>2, <1>3 DEF Next

\* The job state says only what the stream of the runs says already.
THEOREM JobStateHolds == Spec => []JobStateFollowsRecords
<1>1. Init => JobInv
  <2>. SUFFICES ASSUME Init PROVE JobInv
    OBVIOUS
  <2>1. PICK s \in Shift : stage = [b \in Run |-> IF b \in s.who THEN "waiting" ELSE "done"]
    BY DEF Init
  <2>2. \A b \in Run : stage[b] \in {"waiting", "done"} /\ job[b] = "none"
    BY <2>1 DEF Init
  <2>. QED
    BY <2>2 DEF JobInv, Run
<1>2. TypeOK /\ StageInv /\ JobInv /\ [Next]_vars => JobInv'
  BY StepJob
<1>3. JobInv => JobStateFollowsRecords
  BY DEF JobInv, JobStateFollowsRecords, Has
<1>. QED
  BY <1>1, <1>2, <1>3, RecoveryHolds, PTL DEF Spec

-----------------------------------------------------------------------------
(***************************************************************************)
(* The manifest                                                            *)
(***************************************************************************)
LEMMA LastNatural ==
  ASSUME NEW k \in Nat, NEW T \in SUBSET (0 .. k), T # {}
  PROVE  \E n \in T : \A m \in T : m <= n
<1> DEFINE U == {n \in 0 .. k : k - n \in T}
<1>1. U \in SUBSET Nat /\ U # {}
  <2>1. PICK m \in T : TRUE
    OBVIOUS
  <2>2. m \in 0 .. k /\ k - m \in 0 .. k /\ k - (k - m) = m
    OBVIOUS
  <2>3. k - m \in U
    BY <2>1, <2>2
  <2> QED BY <2>3
<1>2. PICK u \in U : \A v \in U : u <= v
  <2> HIDE DEF U
  <2> QED BY <1>1, LeastNatural
<1>3. ASSUME NEW m \in T PROVE m <= k - u
  <2>1. m \in 0 .. k /\ k - m \in 0 .. k /\ k - (k - m) = m
    OBVIOUS
  <2>2. k - m \in U
    BY <2>1
  <2>3. u <= k - m
    BY <1>2, <2>2
  <2> QED BY <2>1, <2>3, <1>2
<1> QED BY <1>2, <1>3

\* The rows of a file that no two ingests raced for are later the newer what they
\* were hashed from, and no newer than the file.
ManifestInv ==
  /\ \A m \in manifest : m.at <= clock /\ m.version <= source[m.file]
  /\ \A m, n \in manifest : (m.file = n.file /\ m.file \notin raced) =>
       /\ m.at < n.at => m.version < n.version
       /\ m.at = n.at => m.version = n.version

\* What an ingest is about to append is newer still.
PendingInv ==
  \A b \in Run :
    /\ rows[b] # {} => Ingesting(b)
    /\ \A r \in rows[b] :
         /\ r.version <= source[r.file]
         /\ stage[b] = "archived" => r.at <= clock
         /\ \A q \in rows[b] : q.file = r.file => q = r
         /\ \A m \in manifest : (m.file = r.file /\ r.file \notin raced) =>
              /\ m.version < r.version
              /\ stage[b] = "archived" => m.at < r.at

LEMMA LatestExists ==
  ASSUME TypeOK, ManifestInv, NEW f \in File, Slot(f) # {}
  PROVE  LatestOf(f) \in Slot(f) /\ \A n \in Slot(f) : n.at <= LatestOf(f).at
<1> DEFINE T == {m.at : m \in Slot(f)}
<1>1. T \in SUBSET (0 .. clock) /\ T # {} /\ clock \in Nat
  BY DEF TypeOK, ManifestInv, Slot, Row
<1>2. \E n \in T : \A m \in T : m <= n
  <2> HIDE DEF T
  <2> QED BY <1>1, LastNatural
<1>3. \E m \in Slot(f) : \A n \in Slot(f) : n.at <= m.at
  BY <1>2
<1> QED BY <1>3 DEF LatestOf

\* A file that has changed is newer than the rows it has.
LEMMA ChangedIsNewer ==
  ASSUME TypeOK, ManifestInv, NEW f \in File \ raced, Changed(f)
  PROVE  \A m \in Slot(f) : m.version < source[f]
<1> SUFFICES ASSUME NEW m \in Slot(f)
             PROVE  m.version < source[f]
  OBVIOUS
<1> DEFINE l == LatestOf(f)
<1>1. l \in Slot(f) /\ m.at <= l.at /\ l.version # source[f]
  BY LatestExists DEF Changed
<1>2. /\ m \in Row /\ l \in Row /\ m \in manifest /\ l \in manifest
      /\ m.file = f /\ l.file = f /\ source[f] \in Nat
  BY <1>1 DEF Slot, TypeOK
<1>3. m.version <= l.version /\ l.version <= source[f]
  <2> HIDE DEF l
  <2>1. m.at \in Nat /\ l.at \in Nat /\ m.version \in Nat /\ l.version \in Nat
    BY <1>2 DEF Row
  <2> QED BY <1>1, <1>2, <2>1 DEF ManifestInv
<1>4. l.version \in Nat /\ m.version \in Nat
  BY <1>2 DEF Row
<1> HIDE DEF l
<1> QED BY <1>1, <1>2, <1>3, <1>4

\* A step that only moves runs without rows.
LEMMA ManifestUnchanged ==
  ASSUME ManifestInv, PendingInv, UNCHANGED <<source, manifest, clock, rows, raced>>,
         \A c \in Run : rows[c] # {} => stage'[c] = stage[c]
  PROVE  ManifestInv' /\ PendingInv'
BY DEF ManifestInv, PendingInv, Ingesting

\* A step that ends a run gives its rows up.
LEMMA ManifestGivenUp ==
  ASSUME TypeOK, ManifestInv, PendingInv, NEW b \in Run,
         UNCHANGED <<source, manifest, clock, raced>>, rows' = [rows EXCEPT ![b] = {}],
         \A c \in Run \ {b} : stage'[c] = stage[c]
  PROVE  ManifestInv' /\ PendingInv'
BY DEF ManifestInv, PendingInv, Ingesting, TypeOK

LEMMA NewContentManifest ==
  ASSUME TypeOK, ManifestInv, PendingInv, NEW f \in File, NewContent(f)
  PROVE  ManifestInv' /\ PendingInv'
<1>1. UNCHANGED <<manifest, clock, raced, rows, stage>>
  BY DEF NewContent
<1>2. ASSUME NEW g \in File, NEW v \in Nat, v <= source[g]
      PROVE  v <= source'[g]
  BY <1>2 DEF NewContent, TypeOK
<1>3. \A m \in Row : m.file \in File /\ m.version \in Nat
  BY DEF Row
<1>4. manifest \subseteq Row /\ \A c \in Run : rows[c] \subseteq Row
  BY DEF TypeOK
<1>5. ManifestInv'
  BY <1>1, <1>2, <1>3, <1>4 DEF ManifestInv
<1>6. PendingInv'
  BY <1>1, <1>2, <1>3, <1>4 DEF PendingInv, Ingesting
<1> QED BY <1>5, <1>6

LEMMA ScanManifest ==
  ASSUME TypeOK, ManifestInv, PendingInv, NEW b \in Run, Scan(b)
  PROVE  ManifestInv' /\ PendingInv'
<1> DEFINE fresh == {f \in File : Changed(f)}
<1>1. /\ stage[b] = "ingest" /\ UNCHANGED <<source, manifest, clock, raced>>
      /\ \A c \in Run \ {b} : stage'[c] = stage[c]
  BY DEF Scan, Step, TypeOK
<1>2. rows[b] = {}
  BY <1>1 DEF PendingInv, Ingesting
<1>3. CASE fresh = {}
  <2>1. rows' = rows
    BY <1>3 DEF Scan
  <2> QED BY <1>1, <1>2, <2>1, ManifestUnchanged
<1>4. CASE fresh # {}
  <2>1. stage'[b] = "scanned"
    BY <1>4 DEF Scan, Step, TypeOK
  <2>2. PICK n \in Batch :
          rows' = [rows EXCEPT ![b] =
                     {[batch |-> n, file |-> f, version |-> source[f], content |-> 0,
                       at |-> 0] : f \in fresh}]
    BY <1>4 DEF Scan
  <2>3. /\ \A c \in Run \ {b} : rows'[c] = rows[c]
        /\ \A r \in rows'[b] : r.file \in fresh /\ r.version = source[r.file]
        /\ \A r, q \in rows'[b] : q.file = r.file => q = r
    BY <2>2 DEF TypeOK
  <2>4. \A r \in rows'[b], m \in manifest :
          (m.file = r.file /\ r.file \notin raced) => m.version < r.version
    BY <2>3, ChangedIsNewer DEF Slot
  <2>5. \A f \in File : source[f] \in Nat
    BY DEF TypeOK
  <2>6. ManifestInv'
    BY <1>1 DEF ManifestInv
  <2>7. PendingInv'
    <3>1. ASSUME NEW c \in Run \ {b}
          PROVE  rows'[c] = rows[c] /\ stage'[c] = stage[c]
      BY <1>1, <2>3
    <3>2. \A r \in rows'[b] : r.version <= source[r.file]
      BY <2>3, <2>5
    <3> HIDE DEF fresh
    <3> QED BY <1>1, <2>1, <2>3, <2>4, <3>1, <3>2 DEF PendingInv, Ingesting
  <2> QED BY <2>6, <2>7
<1> QED BY <1>3, <1>4

LEMMA ArchiveManifest ==
  ASSUME TypeOK, ManifestInv, PendingInv, NEW b \in Run, Archive(b)
  PROVE  ManifestInv' /\ PendingInv'
<1>1. /\ stage[b] = "scanned" /\ UNCHANGED <<source, manifest, raced>>
      /\ stage'[b] = "archived" /\ clock' = clock + 1 /\ clock \in Nat
      /\ \A c \in Run \ {b} : stage'[c] = stage[c] /\ rows'[c] = rows[c]
      /\ rows'[b] = {Archived(r) : r \in rows[b]}
  BY DEF Archive, Step, TypeOK
<1>2. manifest \subseteq Row /\ \A c \in Run : rows[c] \subseteq Row
  BY DEF TypeOK
<1>3. \A r \in Row : /\ Archived(r).file = r.file /\ Archived(r).version = r.version
                     /\ Archived(r).at = clock + 1 /\ r.at \in Nat
  BY DEF Archived, Row
<1>4. ManifestInv'
  BY <1>1, <1>2, <1>3 DEF ManifestInv
<1>5. PendingInv'
  <2>1. \A c \in Run \ {b} : \A r \in rows[c] :
          r.at \in Nat /\ (stage[c] = "archived" => r.at <= clock + 1)
    BY <1>1, <1>2, <1>3 DEF PendingInv
  <2>2. \A m \in manifest : m.at < clock + 1
    BY <1>1, <1>2, <1>3 DEF ManifestInv
  <2>3. ASSUME NEW r \in rows'[b]
        PROVE  /\ r.version <= source[r.file] /\ r.at = clock + 1
               /\ \A q \in rows'[b] : q.file = r.file => q = r
               /\ \A m \in manifest : (m.file = r.file /\ r.file \notin raced) =>
                    m.version < r.version
    <3>1. PICK s \in rows[b] : r = Archived(s)
      BY <1>1
    <3>2. s \in Row /\ r.file = s.file /\ r.version = s.version /\ r.at = clock + 1
      BY <1>2, <1>3, <3>1
    <3>3. \A q \in rows'[b] : q.file = r.file => q = r
      BY <1>1, <1>2, <1>3, <3>1, <3>2 DEF PendingInv
    <3> QED BY <3>2, <3>3 DEF PendingInv
  <2> QED BY <1>1, <2>1, <2>2, <2>3 DEF PendingInv, Ingesting
<1> QED BY <1>4, <1>5

LEMMA AppendManifestManifest ==
  ASSUME TypeOK, ManifestInv, PendingInv, NEW b \in Run, AppendManifest(b)
  PROVE  ManifestInv' /\ PendingInv'
<1>1. /\ stage[b] = "archived" /\ UNCHANGED <<source, clock>>
      /\ manifest' = manifest \cup rows[b] /\ raced \subseteq raced'
      /\ rows'[b] = {}
      /\ \A c \in Run \ {b} : stage'[c] = stage[c] /\ rows'[c] = rows[c]
  BY DEF AppendManifest, Step, TypeOK
<1>2. \A c \in Run \ {b} : \A r \in rows[c], q \in rows[b] :
        r.file = q.file => r.file \in raced'
  BY DEF AppendManifest, Files, PendingInv
<1>3. manifest \subseteq Row /\ \A c \in Run : rows[c] \subseteq Row
  BY DEF TypeOK
<1>4. \A r \in Row : r.at \in Nat /\ r.version \in Nat
  BY DEF Row
<1>5. ManifestInv'
  <2>1. \A m \in manifest' : m.at <= clock /\ m.version <= source[m.file]
    BY <1>1 DEF ManifestInv, PendingInv
  <2>2. ASSUME NEW m \in manifest', NEW n \in manifest', m.file = n.file, m.file \notin raced'
        PROVE  (m.at < n.at => m.version < n.version) /\ (m.at = n.at => m.version = n.version)
    <3>1. m.at \in Nat /\ n.at \in Nat /\ m.file \notin raced
      BY <1>1, <1>3, <1>4, <2>2
    <3>2. CASE m \in manifest /\ n \in manifest
      BY <2>2, <3>1, <3>2 DEF ManifestInv
    <3>3. CASE m \in manifest /\ n \in rows[b]
      BY <1>1, <2>2, <3>1, <3>3 DEF PendingInv
    <3>4. CASE m \in rows[b] /\ n \in manifest
      <4>1. n.at < m.at
        BY <1>1, <2>2, <3>1, <3>4 DEF PendingInv
      <4> QED BY <3>1, <4>1
    <3>5. CASE m \in rows[b] /\ n \in rows[b]
      <4>1. m = n
        BY <2>2, <3>5 DEF PendingInv
      <4> QED BY <3>1, <4>1
    <3> QED BY <1>1, <3>2, <3>3, <3>4, <3>5
  <2> QED BY <1>1, <2>1, <2>2 DEF ManifestInv
<1>6. PendingInv'
  <2>1. ASSUME NEW c \in Run \ {b}, NEW r \in rows[c], NEW m \in manifest',
               m.file = r.file, r.file \notin raced'
        PROVE  m \in manifest /\ r.file \notin raced
    BY <1>1, <1>2, <2>1
  <2> QED BY <1>1, <2>1 DEF PendingInv, Ingesting
<1> QED BY <1>5, <1>6

LEMMA StepManifest ==
  ASSUME TypeOK, StageInv, ManifestInv, PendingInv, [Next]_vars
  PROVE  ManifestInv' /\ PendingInv'
<1> USE DEF Step, tableVars
<1>1. CASE UNCHANGED vars
  BY <1>1, ManifestUnchanged DEF vars, ingestVars
<1>2. ASSUME NEW f \in File, NewContent(f)
      PROVE  ManifestInv' /\ PendingInv'
  BY <1>2, NewContentManifest
<1>3. ASSUME NEW b \in Run, RunNext(b)
      PROVE  ManifestInv' /\ PendingInv'
  <2>1. CASE Scan(b) \/ Archive(b) \/ AppendManifest(b)
    BY <2>1, ScanManifest, ArchiveManifest, AppendManifestManifest
  <2>2. CASE RefreshRaises(b) \/ EndStep(b)
    <3>1. /\ UNCHANGED <<source, manifest, clock, raced>> /\ rows' = [rows EXCEPT ![b] = {}]
          /\ \A c \in Run \ {b} : stage'[c] = stage[c]
      BY <2>2 DEF RefreshRaises, EndStep, Escapes, Interrupt, End, TypeOK
    <3> QED BY <3>1, ManifestGivenUp
  <2>3. CASE AppendRunning(b) \/ RecordRunning(b) \/ RecordStep(b) \/ EnterStep(b)
             \/ AppendViewFailed(b) \/ CleanUpStep(b) \/ CutStep(b) \/ SnapshotStep(b)
             \/ Write(b) \/ RestoreTable(b)
    <3>1. UNCHANGED ingestVars /\ \A c \in Run \ {b} : stage'[c] = stage[c]
      BY <2>3 DEF TypeOK, AppendRunning, RecordRunning, RecordStep, InsertRun,
         SnapshotReady, AppendCompleted, RecordCompleted, UpdateRun, AppendViewCompleted,
         ViewRaises, MarkRun, Restored, AppendFailed, RecordFailed, Redeliver, EnterStep,
         Acquire, AcquireView, Enter, AppendViewFailed, CleanUpStep, CleanUpWritten,
         CleanUpView, CleanUpRestored, CutStep, RestoreCut, SnapshotStep, DropBackup, SnapshotTable, Write,
         RestoreTable
    <3>2. ~Ingesting(b)
      BY <2>3, RunAssumption DEF StageInv, IngestStage, Ingesting, AppendRunning,
         RecordRunning, RecordStep, InsertRun,
         SnapshotReady, AppendCompleted, RecordCompleted, UpdateRun, AppendViewCompleted,
         ViewRaises, MarkRun, Restored, AppendFailed, RecordFailed, Redeliver, EnterStep,
         Acquire, AcquireView, Enter, AppendViewFailed, CleanUpStep, CleanUpWritten,
         CleanUpView, CleanUpRestored, CutStep, RestoreCut, SnapshotStep, DropBackup, SnapshotTable, Write,
         RestoreTable
    <3>3. rows[b] = {}
      BY <3>2 DEF PendingInv
    <3> QED BY <3>1, <3>3, ManifestUnchanged DEF ingestVars
  <2> QED
    BY <1>3, <2>1, <2>2, <2>3, RunCases DEF IngestStep, RaiseStep
<1> QED
  BY <1>1, <1>2, <1>3 DEF Next

\* A file gets one manifest row for each content it was found with, in order,
\* unless two ingests of it overlapped, for any files, runs, changes and faults.
THEOREM ManifestFollowsHolds == Spec => []ManifestFollowsSourceUnlessRaced
<1>1. Init => ManifestInv /\ PendingInv
  BY DEF Init, ManifestInv, PendingInv
<1>2. TypeOK /\ StageInv /\ ManifestInv /\ PendingInv /\ [Next]_vars =>
        (ManifestInv /\ PendingInv)'
  BY StepManifest
<1>3. ManifestInv => ManifestFollowsSourceUnlessRaced
  BY DEF ManifestInv, ManifestFollowsSourceUnlessRaced
<1> QED
  BY <1>1, <1>2, <1>3, RecoveryHolds, PTL DEF Spec

-----------------------------------------------------------------------------
(***************************************************************************)
(* What a completed refresh shows                                          *)
(***************************************************************************)
\* Finitely many dates have a greatest one: of the first k files of a list the
\* dates are bounded for every k, as there is no least k for which they are not.
LEMMA LastDate ==
  \E u \in Nat : \A f \in File : DateOf[f] <= u
<1>1. PICK n \in Nat : ExistsSurjection(1 .. n, File)
  BY FS_NatSurjection, FileAssumption
<1>2. PICK g \in [1 .. n -> File] : \A f \in File : \E i \in 1 .. n : g[i] = f
  BY <1>1 DEF ExistsSurjection, Surjection
<1> DEFINE Bounded(k) == \E u \in Nat : \A i \in 1 .. n : i <= k => DateOf[g[i]] <= u
           Bad == {k \in 0 .. n : ~Bounded(k)}
<1>3. Bad = {}
  <2> SUFFICES ASSUME Bad # {} PROVE FALSE
    OBVIOUS
  <2>1. PICK k \in Bad : \A j \in Bad : k <= j
    <3>1. Bad \in SUBSET Nat
      OBVIOUS
    <3> HIDE DEF Bad
    <3> QED BY <3>1, LeastNatural
  <2>2. k \in 0 .. n /\ ~Bounded(k)
    OBVIOUS
  <2>3. k # 0
    <3>1. Bounded(0)
      OBVIOUS
    <3> QED BY <2>2, <3>1
  <2>4. k - 1 \in 0 .. n /\ k - 1 \notin Bad
    <3>1. k - 1 \in 0 .. n /\ ~(k <= k - 1)
      BY <2>2, <2>3
    <3> HIDE DEF Bad
    <3> QED BY <2>1, <3>1
  <2>5. PICK u \in Nat : \A i \in 1 .. n : i <= k - 1 => DateOf[g[i]] <= u
    BY <2>4
  <2>6. DateOf[g[k]] \in Nat
    BY <1>2, <2>2, <2>3, FileAssumption
  <2>7. PICK w \in Nat : u <= w /\ DateOf[g[k]] <= w
    <3>1. \A x, y \in Nat : x <= y \/ y <= x
      OBVIOUS
    <3>2. \A x \in Nat : x <= x
      OBVIOUS
    <3> HIDE DEF Bad, Bounded
    <3> QED BY <2>6, <3>1, <3>2
  <2>8. \A i \in 1 .. n : i <= k => DateOf[g[i]] <= w
    <3> SUFFICES ASSUME NEW i \in 1 .. n, i <= k
                 PROVE  DateOf[g[i]] <= w
      OBVIOUS
    <3>1. CASE i = k
      BY <2>7, <3>1
    <3>2. CASE i # k
      <4>1. i <= k - 1 /\ DateOf[g[i]] \in Nat
        BY <1>2, <2>2, <3>2, FileAssumption
      <4>2. DateOf[g[i]] <= u /\ u <= w
        BY <2>5, <2>7, <4>1
      <4>3. \A x, y, z \in Nat : (x <= y /\ y <= z) => x <= z
        OBVIOUS
      <4> HIDE DEF Bad, Bounded
      <4> QED BY <4>1, <4>2, <4>3
    <3> QED BY <3>1, <3>2
  <2> QED BY <2>2, <2>8
<1>4. Bounded(n)
  <2>1. n \in 0 .. n
    OBVIOUS
  <2> QED BY <1>3, <2>1
<1>5. PICK u \in Nat : \A i \in 1 .. n : DateOf[g[i]] <= u
  BY <1>4
<1> QED BY <1>2, <1>5

\* A family that has rows has latest rows.
LEMMA LatestRowsExist ==
  ASSUME TypeOK, ManifestInv, NEW found \in SUBSET manifest, NEW m \in found
  PROVE  LatestRows(FamilyOf[m.file], found) # {}
<1> DEFINE all == {n \in found : FamilyOf[n.file] = FamilyOf[m.file]}
           bounded == {n \in all : \A k \in all : DateOf[k.file] <= DateOf[n.file]}
<1>1. /\ \A n \in found : n.file \in File /\ DateOf[n.file] \in Nat /\ n.at \in Nat
                             /\ n.at <= clock /\ n.batch \in 1 .. MaxBatch
      /\ clock \in Nat /\ MaxBatch \in Nat
  <2>1. \A n \in Row : n.file \in File /\ n.at \in Nat /\ n.batch \in 1 .. MaxBatch
    BY DEF Row, Batch
  <2> QED BY <2>1, FileAssumption, BoundAssumption DEF TypeOK, ManifestInv
<1>2. PICK d \in all : \A k \in all : DateOf[k.file] <= DateOf[d.file]
  <2> DEFINE T == {DateOf[n.file] : n \in all}
  <2>1. PICK u \in Nat : \A f \in File : DateOf[f] <= u
    BY LastDate
  <2>2. T \in SUBSET (0 .. u) /\ T # {}
    BY <1>1, <2>1
  <2>3. \E t \in T : \A s \in T : s <= t
    <3> HIDE DEF T
    <3> QED BY <2>1, <2>2, LastNatural
  <2> QED BY <2>3
<1>3. PICK a \in bounded : \A k \in bounded : k.at <= a.at
  <2> DEFINE T == {n.at : n \in bounded}
  <2>1. T \in SUBSET (0 .. clock) /\ T # {}
    BY <1>1, <1>2
  <2>2. \E t \in T : \A s \in T : s <= t
    <3> HIDE DEF T
    <3> QED BY <1>1, <2>1, LastNatural
  <2> QED BY <2>2
<1>4. PICK e \in bounded : e.at = a.at /\ \A k \in bounded : k.at = a.at => k.batch <= e.batch
  <2> DEFINE T == {n.batch : n \in {k \in bounded : k.at = a.at}}
  <2>1. T \in SUBSET (0 .. MaxBatch) /\ T # {}
    BY <1>1, <1>3
  <2>2. \E t \in T : \A s \in T : s <= t
    <3> HIDE DEF T
    <3> QED BY <1>1, <2>1, LastNatural
  <2> QED BY <2>2
<1>5. \A n \in bounded : Later(e, n)
  BY <1>1, <1>3, <1>4 DEF Later
<1>6. e \in LatestRows(FamilyOf[m.file], found)
  BY <1>5 DEF LatestRows
<1> QED BY <1>6

\* The batches of refreshes differ.
EarlyStage == {"waiting", "recorded", "ingest"}
BatchInv ==
  /\ \A b, c \in Refresh : (b # c /\ batch[b] = batch[c]) => batch[b] = NoBatch
  /\ \A b \in Refresh : stage[b] \in EarlyStage => batch[b] = NoBatch
  /\ \A b \in Run : /\ Ingesting(b) => rows[b] # {}
                    /\ \A r \in rows[b] : r.batch = batch[b]

\* A run that goes on without an ingest.
LEMMA BatchKept ==
  ASSUME BatchInv, TypeOK, NEW b \in Run, batch' = batch,
         rows' = rows \/ rows' = [rows EXCEPT ![b] = {}],
         \A c \in Run \ {b} : stage'[c] = stage[c],
         stage'[b] \in EarlyStage => stage[b] \in EarlyStage,
         ~Ingesting(b)'
  PROVE  BatchInv'
<1>1. \A c \in Run \ {b} : rows'[c] = rows[c]
  BY DEF TypeOK
<1>2. rows'[b] \subseteq rows[b]
  BY DEF TypeOK
<1> QED BY <1>1, <1>2 DEF BatchInv, Ingesting, Run

LEMMA StepBatch ==
  ASSUME TypeOK, StageInv, PendingInv, BatchInv, [Next]_vars
  PROVE  BatchInv'
<1> USE DEF Step, tableVars, ingestVars
<1>1. CASE UNCHANGED vars
  BY <1>1 DEF vars, BatchInv, Ingesting
<1>2. ASSUME NEW f \in File, NewContent(f)
      PROVE  BatchInv'
  BY <1>2 DEF NewContent, BatchInv, Ingesting
<1>3. ASSUME NEW b \in Run, RunNext(b)
      PROVE  BatchInv'
  <2>1. CASE Scan(b)
    <3> DEFINE fresh == {f \in File : Changed(f)}
    <3>1. /\ stage[b] = "ingest" /\ UNCHANGED manifest /\ b \in Refresh /\ b \in Run
          /\ \A c \in Run \ {b} : stage'[c] = stage[c]
      BY <2>1, RunAssumption DEF Scan, TypeOK, StageInv, IngestStage, Run
    <3>2. batch[b] = NoBatch
      BY <3>1 DEF BatchInv, EarlyStage
    <3>3. CASE fresh = {}
      <4>1. stage'[b] = "ingested" /\ UNCHANGED <<batch, rows>>
        BY <2>1, <3>3 DEF Scan, TypeOK
      <4> QED BY <3>1, <3>2, <4>1 DEF BatchInv, Ingesting, Run, EarlyStage
    <3>4. CASE fresh # {}
      <4>1. stage'[b] = "scanned"
        BY <2>1, <3>4 DEF Scan, TypeOK
      <4>2. PICK n \in Batch :
              /\ \A c \in Run : batch[c] # n
              /\ batch' = [batch EXCEPT ![b] = n]
              /\ rows' = [rows EXCEPT ![b] =
                     {[batch |-> n, file |-> f, version |-> source[f], content |-> 0,
                       at |-> 0] : f \in fresh}]
        BY <2>1, <3>4 DEF Scan
      <4>3. /\ batch'[b] = n /\ rows'[b] # {} /\ \A r \in rows'[b] : r.batch = n
            /\ \A c \in Run \ {b} : batch'[c] = batch[c] /\ rows'[c] = rows[c]
        <5> DEFINE new == {[batch |-> n, file |-> f, version |-> source[f],
                            content |-> 0, at |-> 0] : f \in fresh}
        <5>1. PICK f \in fresh : TRUE
          BY <3>4
        <5>3. new # {}
          BY <5>1
        <5>4. \A r \in new : r.batch = n
          OBVIOUS
        <5>2. rows' = [rows EXCEPT ![b] = new]
          BY <4>2
        <5> HIDE DEF new, fresh
        <5> QED BY <3>1, <4>2, <5>2, <5>3, <5>4 DEF TypeOK
      <4> HIDE DEF fresh
      <4> QED BY <3>1, <4>1, <4>2, <4>3
              DEF BatchInv, Ingesting, Run, EarlyStage
    <3> QED BY <3>3, <3>4
  <2>2. CASE Archive(b)
    <3>1. /\ stage[b] = "scanned" /\ UNCHANGED <<manifest, batch>> /\ stage'[b] = "archived"
          /\ \A c \in Run \ {b} : stage'[c] = stage[c] /\ rows'[c] = rows[c]
          /\ rows'[b] = {Archived(r) : r \in rows[b]}
      BY <2>2 DEF Archive, TypeOK
    <3>2. \A r \in rows[b] : Archived(r).batch = r.batch
      BY DEF Archived, TypeOK, Row
    <3> QED BY <3>1, <3>2 DEF BatchInv, Ingesting, Run, EarlyStage
  <2>3. CASE AppendManifest(b)
    <3>1. /\ stage[b] = "archived" /\ UNCHANGED batch /\ stage'[b] = "ingested"
          /\ \A c \in Run \ {b} : stage'[c] = stage[c] /\ rows'[c] = rows[c]
          /\ rows'[b] = {} /\ manifest' = manifest \cup rows[b]
      BY <2>3 DEF AppendManifest, TypeOK
    <3> QED BY <3>1 DEF BatchInv, Ingesting, Run, EarlyStage
  <2>4. CASE AcquireView(b)
    <3>1. /\ b \in View /\ UNCHANGED <<manifest, rows>> /\ stage[b] = "waiting"
          /\ stage'[b] = "opened"
          /\ \A c \in Run \ {b} : stage'[c] = stage[c]
      BY <2>4 DEF AcquireView, Enter, TypeOK
    <3>3. \A c \in Run \ {b} : batch'[c] = batch[c]
      BY <2>4 DEF AcquireView, TypeOK
    <3>4. rows[b] = {}
      BY <3>1 DEF PendingInv, Ingesting
    <3> QED BY <3>1, <3>3, <3>4, RunAssumption DEF BatchInv, Ingesting, Run
  <2>5. CASE Redeliver(b)
    <3>1. /\ b \in Refresh /\ UNCHANGED <<manifest, rows>> /\ stage'[b] = "waiting"
          /\ rows[b] = {} /\ batch'[b] = NoBatch
          /\ \A c \in Run \ {b} : stage'[c] = stage[c] /\ batch'[c] = batch[c]
      BY <2>5 DEF Redeliver, TypeOK, PendingInv, Ingesting
    <3> QED BY <3>1, RunAssumption DEF BatchInv, Ingesting, Run
  <2>6. CASE RefreshRaises(b) \/ EndStep(b)
    <3>1. /\ UNCHANGED <<batch, manifest>> /\ rows' = [rows EXCEPT ![b] = {}]
          /\ \A c \in Run \ {b} : stage'[c] = stage[c]
          /\ stage'[b] \in {"restore", "failed", "over"}
      BY <2>6 DEF RefreshRaises, EndStep, Escapes, Interrupt, End, TypeOK
    <3> QED BY <3>1, BatchKept DEF EarlyStage, Ingesting
  <2>7. CASE AppendRunning(b) \/ RecordRunning(b) \/ InsertRun(b) \/ SnapshotReady(b)
             \/ AppendCompleted(b) \/ RecordCompleted(b) \/ UpdateRun(b)
             \/ AppendViewCompleted(b) \/ ViewRaises(b) \/ MarkRun(b) \/ Restored(b)
             \/ AppendFailed(b) \/ RecordFailed(b) \/ Acquire(b) \/ AppendViewFailed(b)
             \/ CleanUpStep(b) \/ CutStep(b) \/ SnapshotStep(b) \/ Write(b)
             \/ RestoreTable(b)
    <3>1. /\ UNCHANGED <<batch, manifest, rows>>
          /\ \A c \in Run \ {b} : stage'[c] = stage[c]
          /\ stage'[b] \in EarlyStage => stage[b] \in EarlyStage
          /\ ~Ingesting(b)'
      BY <2>7 DEF TypeOK, EarlyStage, Ingesting, AppendRunning, RecordRunning,
         InsertRun, SnapshotReady, AppendCompleted, RecordCompleted, UpdateRun,
         AppendViewCompleted, ViewRaises, MarkRun, Restored, AppendFailed, RecordFailed,
         Acquire, Enter, AppendViewFailed, CleanUpStep, CleanUpWritten,
         CleanUpView, CleanUpRestored, CutStep, RestoreCut, SnapshotStep, DropBackup, SnapshotTable, Write,
         RestoreTable
    <3> QED BY <3>1, BatchKept
  <2> QED
    BY <1>3, <2>1, <2>2, <2>3, <2>4, <2>5, <2>6, <2>7, RunCases
    DEF IngestStep, RecordStep, RaiseStep, EnterStep
<1> QED
  BY <1>1, <1>2, <1>3 DEF Next

\* What a batch shows stays as it is once the refresh has appended its rows.
ShownStage == {"written", "released", "completed", "done"}

LEMMA ShownFixed ==
  ASSUME TypeOK, StageInv, BatchInv, [Next]_vars, NEW b \in Refresh,
         stage[b] \in ShownStage, batch'[b] = batch[b]
  PROVE  LatestDates(batch[b])' = LatestDates(batch[b]) /\ OneFamily(batch[b])' = OneFamily(batch[b])
<1>1. \A m \in manifest' : m \in manifest \/ m.batch # batch[b]
  <2>1. CASE manifest' = manifest
    BY <2>1
  <2>2. ASSUME NEW c \in Run, AppendManifest(c)
        PROVE  \A m \in manifest' : m \in manifest \/ m.batch # batch[b]
    <3>1. manifest' = manifest \cup rows[c] /\ stage[c] = "archived" /\ c # b /\ c \in Refresh
      BY <2>2, RunAssumption
      DEF AppendManifest, Step, StageInv, IngestStage, ShownStage, Run
    <3>2. \A m \in rows[c] : m.batch = batch[c] /\ m.batch # NoBatch
      BY <3>1 DEF BatchInv, TypeOK, Row, Batch, NoBatch
    <3>3. \A m \in rows[c] : m.batch # batch[b]
      BY <3>1, <3>2 DEF BatchInv
    <3> QED BY <3>1, <3>3
  <2>3. ASSUME NEW c \in Run, RunNext(c), ~AppendManifest(c)
        PROVE  manifest' = manifest
    BY <2>3, RunCases DEF ingestVars, tableVars, IngestStep, AppendRunning, RecordRunning,
       Scan, Archive, RecordStep, InsertRun, SnapshotReady, AppendCompleted,
       RecordCompleted, UpdateRun, AppendViewCompleted, ViewRaises, MarkRun, Restored,
       AppendFailed, RecordFailed, Redeliver, EnterStep, Acquire, AcquireView, Enter,
       RaiseStep, RefreshRaises, AppendViewFailed, CleanUpStep, CleanUpWritten,
       CleanUpView, CleanUpRestored, EndStep, Escapes, Interrupt, End, CutStep,
       RestoreCut, SnapshotStep, DropBackup, SnapshotTable, Write, RestoreTable
  <2>4. ASSUME NEW f \in File, NewContent(f)
        PROVE  manifest' = manifest
    BY <2>4 DEF NewContent
  <2>5. UNCHANGED vars => manifest' = manifest
    BY DEF vars, ingestVars
  <2> QED BY <2>1, <2>2, <2>3, <2>4, <2>5 DEF Next
<1>2. manifest \subseteq manifest'
  <2>1. ASSUME NEW c \in Run, RunNext(c)
        PROVE  manifest \subseteq manifest'
    BY <2>1, RunCases DEF ingestVars, tableVars, IngestStep, AppendRunning, RecordRunning,
       Scan, Archive, AppendManifest, RecordStep, InsertRun, SnapshotReady,
       AppendCompleted, RecordCompleted, UpdateRun, AppendViewCompleted, ViewRaises,
       MarkRun, Restored, AppendFailed, RecordFailed, Redeliver, EnterStep, Acquire,
       AcquireView, Enter, RaiseStep, RefreshRaises, AppendViewFailed, CleanUpStep,
       CleanUpWritten, CleanUpView, CleanUpRestored, EndStep, Escapes, Interrupt, End,
       CutStep, RestoreCut, SnapshotStep, DropBackup, SnapshotTable, Write, RestoreTable
  <2>2. ASSUME NEW f \in File, NewContent(f)
        PROVE  manifest \subseteq manifest'
    BY <2>2 DEF NewContent
  <2>3. UNCHANGED vars => manifest \subseteq manifest'
    BY DEF vars, ingestVars
  <2> QED BY <2>1, <2>2, <2>3 DEF Next
<1>3. {m \in manifest' : m.batch = batch[b]} = {m \in manifest : m.batch = batch[b]}
  BY <1>1, <1>2
<1>4. LatestDates(batch[b])' = LatestDates(batch[b])
  BY <1>1, <1>2 DEF LatestDates
<1>5. OneFamily(batch[b])' = OneFamily(batch[b])
  BY <1>1, <1>2 DEF OneFamily
<1> QED BY <1>4, <1>5

\* No step forgets what is lost.
LEMMA LostGrows ==
  ASSUME [Next]_vars
  PROVE  lost \subseteq lost'
<1>1. ASSUME NEW c \in Run, RunNext(c)
      PROVE  lost \subseteq lost'
  <2>1. CASE Write(c)
    BY <2>1 DEF Write, Losing
  <2>2. CASE ~Write(c)
    BY <1>1, <2>2, RunCases DEF tableVars, IngestStep, AppendRunning, RecordRunning,
       Scan, Archive, AppendManifest, RecordStep, InsertRun, SnapshotReady,
       AppendCompleted, RecordCompleted, UpdateRun, AppendViewCompleted, ViewRaises,
       MarkRun, Restored, AppendFailed, RecordFailed, Redeliver, EnterStep, Acquire,
       AcquireView, Enter, RaiseStep, RefreshRaises, AppendViewFailed, CleanUpStep,
       CleanUpWritten, CleanUpView, CleanUpRestored, EndStep, Escapes, Interrupt, End,
       CutStep, RestoreCut, SnapshotStep, DropBackup, SnapshotTable, RestoreTable
  <2> QED BY <2>1, <2>2
<1>2. ASSUME NEW f \in File, NewContent(f)
      PROVE  lost \subseteq lost'
  BY <1>2 DEF NewContent, tableVars
<1>3. UNCHANGED vars => lost \subseteq lost'
  BY DEF vars, tableVars
<1> QED BY <1>1, <1>2, <1>3 DEF Next

\* What is written replaces the rows of a batch of one family by all it shows, but
\* for those it loses.
LEMMA ReplacedShows ==
  ASSUME TypeOK, ManifestInv, NEW d \in Run, NEW found \in SUBSET manifest,
         Losing(d, found), NEW n, OneFamily(n), NEW t \in Table,
         LatestDates(n) \ lost \subseteq live[t][1]
  PROVE  LatestDates(n) \ lost' \subseteq Replaced(t, Selected(batch[d], found))
<1> DEFINE new == Selected(batch[d], found)
<1> SUFFICES ASSUME NEW m \in LatestDates(n) \ lost'
             PROVE  m \in Replaced(t, new)
  OBVIOUS
<1>1. m \in manifest /\ m.batch = n /\ m.file \in File
  BY DEF LatestDates, TypeOK, Row
<1>4. m \in live[t][1]
  BY DEF Losing
<1>5. /\ m \notin found => m.batch \notin {batch[d]} \cup {k.batch : k \in new}
      /\ ~Nothing(batch[d], found)
  BY <1>1, <1>4 DEF Losing
<1>2. new # {}
  <2>1. PICK k \in found : batch[d] = NoBatch \/ k.batch = batch[d]
    BY <1>5 DEF Nothing
  <2>2. CASE batch[d] = NoBatch
    <3>1. LatestRows(FamilyOf[k.file], found) # {}
      BY LatestRowsExist
    <3>2. k.file \in File
      BY <2>1 DEF TypeOK, Row
    <3> QED BY <2>2, <3>1, <3>2 DEF Selected
  <2>3. CASE batch[d] # NoBatch
    BY <2>1, <2>3 DEF Selected
  <2> QED BY <2>2, <2>3
<1>3. ASSUME NEW k \in new, k.batch = n
      PROVE  m \in new
  <2>3. m \in found
    BY <1>1, <1>3, <1>5
  <2>1. CASE batch[d] # NoBatch
    BY <1>1, <1>3, <2>1, <2>3 DEF Selected
  <2>2. CASE batch[d] = NoBatch
    <3>1. PICK f \in File : k \in LatestRows(FamilyOf[f], found)
      BY <1>3, <2>2 DEF Selected
    <3>2. k \in found /\ FamilyOf[k.file] = FamilyOf[f]
      BY <3>1 DEF LatestRows
    <3>3. FamilyOf[m.file] = FamilyOf[f] /\ DateOf[k.file] <= DateOf[m.file]
      BY <1>1, <1>3, <3>2 DEF OneFamily, LatestDates
    <3>4. \A j \in found : FamilyOf[j.file] = FamilyOf[f] => DateOf[j.file] <= DateOf[m.file]
      <4>1. \A j \in manifest : DateOf[j.file] \in Nat
        BY FileAssumption DEF TypeOK, Row
      <4>2. \A j \in found : FamilyOf[j.file] = FamilyOf[f] => DateOf[j.file] <= DateOf[k.file]
        BY <3>1 DEF LatestRows
      <4> QED BY <1>1, <3>2, <3>3, <4>1, <4>2
    <3>5. m \in LatestRows(FamilyOf[f], found)
      BY <1>1, <1>3, <2>3, <3>1, <3>3, <3>4 DEF LatestRows
    <3> QED BY <2>2, <3>5 DEF Selected
  <2> QED BY <2>1, <2>2
<1> HIDE DEF new
<1> QED BY <1>1, <1>2, <1>3, <1>4 DEF Replaced

\* The batch of a refresh that is over the write is shown, but for what is lost, and
\* in what a run that was not crossed may bring back.
ShownInv ==
  ~undone => \A b \in Refresh : (stage[b] \in ShownStage /\ OneFamily(batch[b])) =>
    \A t \in Table :
      /\ LatestDates(batch[b]) \ lost \subseteq live[t][1]
      /\ \A c \in Run \ (crossed \cup {b}) :
           stage[c] \in Depending => LatestDates(batch[b]) \ lost \subseteq before[c][t][1]

\* A calm step takes no refresh to the write, and changes no batch after it.
LEMMA CalmShown ==
  ASSUME TypeOK, StageInv, NEW d \in Run, Calm(d), NEW b \in Refresh,
         stage'[b] \in ShownStage
  PROVE  stage[b] \in ShownStage /\ batch'[b] = batch[b]
<1> USE RunAssumption DEF TypeOK, StageInv, IngestStage, ViewStage, Step, Run, ShownStage,
        ingestVars, tableVars
<1>1. CASE IngestStep(d)
  BY <1>1 DEF IngestStep, AppendRunning, RecordRunning, Scan, Archive, AppendManifest
<1>2. CASE RecordStep(d)
  BY <1>2 DEF RecordStep, InsertRun, SnapshotReady, AppendCompleted, RecordCompleted,
     UpdateRun, AppendViewCompleted, ViewRaises, MarkRun, Restored, AppendFailed,
     RecordFailed, Redeliver
<1>3. CASE EnterStep(d)
  BY <1>3 DEF EnterStep, Acquire, AcquireView, Enter
<1>4. CASE RaiseStep(d) \/ EndStep(d)
  BY <1>4 DEF RaiseStep, RefreshRaises, AppendViewFailed, EndStep, Escapes, Interrupt, End
<1>5. CASE CleanUpStep(d) \/ SnapshotStep(d)
  BY <1>5 DEF CleanUpStep, CleanUpWritten, CleanUpView, CleanUpRestored, SnapshotStep, DropBackup, SnapshotTable
<1> QED
  BY <1>1, <1>2, <1>3, <1>4, <1>5 DEF Calm

\* The run that writes, or restores a table of its own, for a batch shown before.
LEMMA StepShownTables ==
  ASSUME TypeOK, StageInv, RecoveryInv, ManifestInv, BatchInv, NEW d \in Run,
         Write(d) \/ RestoreTable(d), ~undone', NEW n, OneFamily(n),
         NEW t \in Table, LatestDates(n) \ lost \subseteq live[t][1],
         (d \notin crossed) => LatestDates(n) \ lost \subseteq before[d][t][1]
  PROVE  LatestDates(n) \ lost' \subseteq live'[t][1]
<1>1. CASE Write(d)
  <2>1. PICK found \in SUBSET manifest : Writes(d, found) /\ Losing(d, found)
    BY <1>1 DEF Write, Archives
  <2>2. live'[t] = <<Replaced(t, Selected(batch[d], found))>>
    BY <2>1 DEF Writes
  <2> QED BY <2>1, <2>2, ReplacedShows
<1>2. CASE RestoreTable(d)
  <2>1. d \notin crossed /\ stage[d] = "restore"
    BY <1>2 DEF RestoreTable
  <2>2. backup[t] = before[d][t]
    BY <2>1 DEF RecoveryInv, RecoveryOf, Same
  <2>3. live'[t] = live[t] \/ live'[t] = before[d][t]
    BY <1>2, <2>2 DEF RestoreTable, TypeOK
  <2>4. lost' = lost
    BY <1>2 DEF RestoreTable
  <2> QED BY <2>1, <2>3, <2>4
<1> QED BY <1>1, <1>2

LEMMA StepShown ==
  ASSUME TypeOK, StageInv, RecoveryInv, ManifestInv, BatchInv, ShownInv, [Next]_vars
  PROVE  ShownInv'
<1> SUFFICES ASSUME ~undone', NEW b \in Refresh, stage'[b] \in ShownStage,
                    OneFamily(batch[b])', NEW t \in Table
             PROVE  /\ LatestDates(batch[b])' \ lost' \subseteq live'[t][1]
                    /\ \A c \in Run \ (crossed' \cup {b}) : stage'[c] \in Depending =>
                         LatestDates(batch[b])' \ lost' \subseteq before'[c][t][1]
  BY DEF ShownInv
<1>7. lost \subseteq lost'
  BY LostGrows
<1>1. CASE UNCHANGED <<live, before, crossed, undone, stage, batch>>
  <2>1. LatestDates(batch[b])' = LatestDates(batch[b]) /\ OneFamily(batch[b])
    BY <1>1, ShownFixed
  <2> QED BY <1>1, <1>7, <2>1 DEF ShownInv
<1>2. ASSUME NEW d \in Run, RunNext(d), Calm(d)
      PROVE  /\ LatestDates(batch[b])' \ lost' \subseteq live'[t][1]
             /\ \A c \in Run \ (crossed' \cup {b}) : stage'[c] \in Depending =>
                  LatestDates(batch[b])' \ lost' \subseteq before'[c][t][1]
  <2>1. stage[b] \in ShownStage /\ batch'[b] = batch[b] /\ live' = live /\ ~undone
    BY <1>2, CalmShown, CalmFrame
  <2>2. LatestDates(batch[b])' = LatestDates(batch[b]) /\ OneFamily(batch[b])
    BY <2>1, ShownFixed
  <2>3. LatestDates(batch[b]) \ lost \subseteq live[t][1]
    BY <2>1, <2>2 DEF ShownInv
  <2>4. ASSUME NEW c \in Run \ (crossed' \cup {b}), stage'[c] \in Depending
        PROVE  LatestDates(batch[b]) \ lost \subseteq before'[c][t][1]
    <3>1. CASE c = d
      <4>1. \/ before'[c] = live
            \/ stage[c] \in Depending /\ before'[c] = before[c] /\ c \notin crossed
        BY <1>2, <2>4, <3>1, CalmDepends DEF StageInv
      <4> QED BY <2>1, <2>2, <2>3, <2>4, <4>1 DEF ShownInv
    <3>2. CASE c # d
      <4>1. stage'[c] = stage[c] /\ before'[c] = before[c] /\ c \notin crossed
        BY <1>2, <2>4, <3>2, OtherRun
      <4> QED BY <2>1, <2>2, <2>4, <4>1 DEF ShownInv
    <3> QED BY <3>1, <3>2
  <2> QED BY <1>7, <2>1, <2>2, <2>3, <2>4
<1>3. ASSUME NEW d \in Run, RunNext(d), Write(d) \/ RestoreTable(d)
      PROVE  /\ LatestDates(batch[b])' \ lost' \subseteq live'[t][1]
             /\ \A c \in Run \ (crossed' \cup {b}) : stage'[c] \in Depending =>
                  LatestDates(batch[b])' \ lost' \subseteq before'[c][t][1]
  <2>1. /\ ~undone /\ UNCHANGED <<manifest, batch, before>>
        /\ crossed' = crossed \cup {c \in Run \ {d} : Critical(c)}
        /\ \A c \in Run \ {d} : stage'[c] = stage[c]
        /\ stage[d] \in {"write", "restore"} /\ stage'[d] \in {"written", "restore"}
    BY <1>3 DEF Write, RestoreTable, Step, Crossing, ingestVars, TypeOK
  <2>2. LatestDates(batch[b])' = LatestDates(batch[b]) /\ OneFamily(batch[b])
    BY <2>1 DEF LatestDates, OneFamily
  <2>3. \A c \in Run \ (crossed' \cup {b}) : stage'[c] \in Depending =>
          c = d /\ d \notin crossed /\ stage[d] \in Depending
    BY <2>1 DEF Critical, Depending
  <2>4. CASE b = d
    <3>1. Write(d)
      BY <1>3, <2>1, <2>4 DEF RestoreTable, ShownStage
    <3>2. PICK found \in SUBSET manifest : Writes(d, found) /\ Losing(d, found)
      BY <3>1 DEF Write, Archives
    <3>3. live'[t] = <<Replaced(t, Selected(batch[d], found))>>
      BY <3>2 DEF Writes
    <3>4. LatestDates(batch[d]) \ lost' \subseteq Selected(batch[d], found)
      <4>1. \A m \in manifest : m.batch # NoBatch
        BY DEF TypeOK, Row, Batch, NoBatch
      <4>2. \A m \in LatestDates(batch[d]) : m \in manifest /\ m.batch = batch[d]
        BY DEF LatestDates
      <4>3. \A m \in LatestDates(batch[d]) \ lost' : m \in found
        BY <3>2, <4>2 DEF Losing
      <4> QED BY <4>1, <4>2, <4>3 DEF Selected
    <3>5. LatestDates(batch[d]) \ lost' \subseteq Replaced(t, Selected(batch[d], found))
      BY <3>4 DEF Replaced
    <3> QED BY <2>2, <2>3, <2>4, <3>3, <3>5
  <2>5. CASE b # d
    <3>1. stage[b] \in ShownStage /\ b \in Run
      BY <2>1, <2>5 DEF Run
    <3>2. LatestDates(batch[b]) \ lost \subseteq live[t][1]
      BY <2>1, <2>2, <3>1 DEF ShownInv
    <3>3. (d \notin crossed) => LatestDates(batch[b]) \ lost \subseteq before[d][t][1]
      BY <2>1, <2>2, <2>5, <3>1 DEF ShownInv, Depending
    <3>4. LatestDates(batch[b]) \ lost' \subseteq live'[t][1]
      BY <1>3, <2>2, <3>2, <3>3, StepShownTables
    <3> QED BY <1>7, <2>1, <2>2, <2>3, <3>3, <3>4
  <2> QED BY <2>4, <2>5
<1>4. ASSUME NEW d \in Run, RunNext(d), CutStep(d)
      PROVE  FALSE
  BY <1>4 DEF CutStep, RestoreCut
<1>5. ASSUME NEW f \in File, NewContent(f)
      PROVE  UNCHANGED <<live, before, crossed, undone, stage, batch>>
  BY <1>5 DEF NewContent, tableVars
<1>6. UNCHANGED vars => UNCHANGED <<live, before, crossed, undone, stage, batch>>
  BY DEF vars, tableVars
<1> QED
  BY <1>1, <1>2, <1>3, <1>4, <1>5, <1>6, RunCases DEF Next, Calm

\* A completed refresh of one family is shown, whatever runs, fails and is restored
\* later, unless a restore was cut off or not of its own backups, and but for the rows
\* whose archived file was gone or that a write that found nothing deleted.
THEOREM CompletedIsShownHolds == Spec => []CompletedIsShownUnlessLost
<1> DEFINE Inv == ManifestInv /\ PendingInv /\ BatchInv /\ ShownInv
<1>1. Init => Inv
  <2> SUFFICES ASSUME Init PROVE Inv
    OBVIOUS
  <2>1. PICK s \in Shift : stage = [b \in Run |-> IF b \in s.who THEN "waiting" ELSE "done"]
    BY DEF Init
  <2>2. /\ manifest = {} /\ \A b \in Run : rows[b] = {} /\ batch[b] = NoBatch
        /\ \A b \in Run : stage[b] \in {"waiting", "done"}
    BY <2>1 DEF Init
  <2>3. ManifestInv /\ PendingInv
    BY <2>2 DEF ManifestInv, PendingInv, Ingesting
  <2>4. BatchInv
    BY <2>2 DEF BatchInv, Ingesting, Run
  <2>5. ShownInv
    BY <2>2 DEF ShownInv, LatestDates
  <2> QED BY <2>3, <2>4, <2>5
<1>2. TypeOK /\ StageInv /\ RecoveryInv /\ Inv /\ [Next]_vars => Inv'
  BY StepManifest, StepBatch, StepShown
<1>3. Inv => CompletedIsShownUnlessLost
  BY DEF ShownInv, ShownStage, CompletedIsShownUnlessLost
<1> QED
  <2> HIDE DEF Inv
  <2> QED BY <1>1, <1>2, <1>3, RecoveryHolds, PTL DEF Spec
=============================================================================
