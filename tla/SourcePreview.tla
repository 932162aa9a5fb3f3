---------------------------- MODULE SourcePreview ----------------------------
(***************************************************************************)
(* The source previews (backend/app/tasks/source_preview_refresh.py,       *)
(* backend/app/tasks/materialize.py) with the ingest and the tables they   *)
(* work on (services/ingest_service.py, repositories/                      *)
(* source_manifest_repo.py, repositories/source_preview_repo.py).          *)
(*                                                                         *)
(* A refresh records a running run, archives the changed files under a new *)
(* batch and appends their manifest rows, then copies the preview tables   *)
(* to backup tables and writes the batch under the DuckDB writer lock.     *)
(* When that fails it restores the tables from the backups, after it left  *)
(* the lock.  A cache view does the same to the same tables without an     *)
(* ingest, and restores under the lock.  Runs are threads of one worker;   *)
(* to a run in another process, connections may fail.                      *)
(***************************************************************************)
EXTENDS Naturals, Sequences, FiniteSets, FiniteSetsExt

CONSTANTS
  File,       \* the names of source files
  FamilyOf,   \* describe_source_file: the family of each
  DateOf,     \* and its report date
  Tables,     \* PREVIEW_TABLES are the tables 1 .. Tables
  MaxBatch,   \* bound: the batches of ingests
  Refresh,    \* runs of refresh_source_preview_cache
  View,       \* runs of materialize_cache_view
  NoRun,
  Shift,      \* bound: [who, changes, retries] that happen together
  Opening,    \* bound: the files there may be at the start
  Faults      \* the failures that may happen, a subset of FaultKind

Run == Refresh \cup View
Table == 1 .. Tables
Batch == 1 .. MaxBatch
NoBatch == 0
Unknown == MaxBatch + 1   \* the id of a batch the manifest does not have
FaultKind == {"source", "storage", "governance", "database", "archive", "interrupt"}
Row == [batch : Batch, file : File, version : Nat, content : Nat, at : Nat]

ASSUME FileAssumption ==
  IsFiniteSet(File) /\ DOMAIN FamilyOf = File /\ DateOf \in [File -> Nat]
ASSUME BoundAssumption == {Tables, MaxBatch} \subseteq Nat
ASSUME RunAssumption == NoRun \notin Run /\ Refresh \cap View = {}
ASSUME ShiftAssumption == Shift \subseteq [who : SUBSET Run, changes : Nat, retries : Nat]
ASSUME OpeningAssumption == Opening \subseteq [File -> Nat]
ASSUME FaultAssumption == Faults \subseteq FaultKind

VARIABLES
  source,   \* the content of each file of data_root, 0 when it is not there
  manifest, \* the rows of the source_manifest stream
  clock,    \* created_at of the latest manifest rows
  writer,   \* the run holding the DuckDB writer lock
  stage,    \* where each run is
  changes,  \* times a file may still change
  retries,  \* messages that may still be delivered again
  batch,    \* the batch of each run
  rows,     \* the manifest rows each refresh is about to append
  left,     \* the tables each run has still to copy or to restore
  records,  \* the cache_build_run records of each run
  job,      \* its job state in PostgreSQL or row of phase1_materialize_runs
  live,     \* the preview tables
  backup,   \* their backup tables
  before,   \* history: the preview tables when each run took the lock
  crossed,  \* history: runs whose tables or backups another one has touched
  undone,   \* history: a restore was cut off, or of a run that was crossed
  lost,     \* history: rows a write deleted or left out for want of archived files
  raced     \* history: files two ingests of which overlapped

ingestVars == <<source, changes, manifest, clock, rows, raced>>
tableVars == <<live, backup, before, crossed, undone, lost>>
vars == <<ingestVars, tableVars, writer, stage, retries, batch, left, records, job>>

Stage == {"waiting", "recorded", "ingest", "scanned", "archived", "ingested", "opened",
          "snapshot", "write", "written", "stored", "committed", "released", "completed",
          "raised", "marked", "restore", "broken", "clean", "failed", "undone", "done",
          "over"}
Status == {"running", "completed", "failed"}
\* A table with rows S is <<S>>.
Missing == <<>>

Init ==
  /\ source \in Opening
  /\ manifest = {}
  /\ clock = 0
  /\ writer = NoRun
  /\ \E s \in Shift :
       /\ stage = [b \in Run |-> IF b \in s.who THEN "waiting" ELSE "done"]
       /\ changes = s.changes
       /\ retries = s.retries
  /\ batch = [b \in Run |-> NoBatch]
  /\ rows = [b \in Run |-> {}]
  /\ left = [b \in Run |-> {}]
  /\ records = [b \in Run |-> <<>>]
  /\ job = [b \in Run |-> "none"]
  /\ live = [t \in Table |-> <<{}>>]
  /\ backup = [t \in Table |-> Missing]
  /\ before = [b \in Run |-> live]
  /\ crossed = {}
  /\ undone = FALSE
  /\ lost = {}
  /\ raced = {}

Step(b, from, to) ==
  /\ stage[b] = from
  /\ stage' = [stage EXCEPT ![b] = to]

Record(b, status) == records' = [records EXCEPT ![b] = Append(@, status)]

-----------------------------------------------------------------------------
(***************************************************************************)
(* A refresh: its first record and the ingest                              *)
(***************************************************************************)
\* Somebody puts a file there or replaces it.
NewContent(f) ==
  /\ changes > 0
  /\ changes' = changes - 1
  /\ source' = [source EXCEPT ![f] = @ + 1]
  /\ UNCHANGED <<manifest, clock, rows, raced, tableVars, writer, stage, retries, batch,
                 left, records, job>>

AppendRunning(b) ==
  /\ b \in Refresh
  /\ Step(b, "waiting", "recorded")
  /\ Record(b, "running")
  /\ UNCHANGED <<ingestVars, tableVars, writer, retries, batch, left, job>>

RecordRunning(b) ==
  /\ Step(b, "recorded", "ingest")
  /\ job' = [job EXCEPT ![b] = "running"]
  /\ UNCHANGED <<ingestVars, tableVars, writer, retries, batch, left, records>>

Slot(f) == {m \in manifest : m.file = f}

\* _latest_by_source_slot.
LatestOf(f) == CHOOSE m \in Slot(f) : \A n \in Slot(f) : n.at <= m.at

\* Mutant: the files the manifest has are not dropped.
ChangedAlways(f) == source[f] # 0

\* filter_incremental_rows.
Changed(f) ==
  source[f] # 0 /\ (Slot(f) = {} \/ LatestOf(f).version # source[f])

\* scan_and_archive hashes the files and drops those the manifest has; the id
\* of the batch is a new one, greater or smaller than the others.
Scan(b) ==
  LET fresh == {f \in File : Changed(f)} IN
  /\ Step(b, "ingest", IF fresh = {} THEN "ingested" ELSE "scanned")
  /\ IF fresh = {} THEN UNCHANGED <<batch, rows>>
     ELSE \E n \in Batch :
       /\ \A m \in manifest : m.batch # n
       /\ \A c \in Run : batch[c] # n
       /\ batch' = [batch EXCEPT ![b] = n]
       /\ rows' = [rows EXCEPT ![b] =
                     {[batch |-> n, file |-> f, version |-> source[f], content |-> 0,
                       at |-> 0] : f \in fresh}]
  /\ UNCHANGED <<source, changes, manifest, clock, raced, tableVars, writer, retries,
                 left, records, job>>

Archived(m) == [m EXCEPT !.content = source[m.file], !.at = clock + 1]

\* archive_file copies what the files hold now; add_many stamps the rows.
Archive(b) ==
  /\ Step(b, "scanned", "archived")
  /\ clock' = clock + 1
  /\ rows' = [rows EXCEPT ![b] = {Archived(m) : m \in @}]
  /\ UNCHANGED <<source, changes, manifest, raced, tableVars, writer, retries, batch,
                 left, records, job>>

Files(b) == {m.file : m \in rows[b]}
Ingesting(c) == stage[c] \in {"scanned", "archived"}

AppendManifest(b) ==
  /\ Step(b, "archived", "ingested")
  /\ manifest' = manifest \cup rows[b]
  /\ raced' = raced \cup
                (Files(b) \cap UNION {Files(c) : c \in {r \in Run \ {b} : Ingesting(r)}})
  /\ rows' = [rows EXCEPT ![b] = {}]
  /\ UNCHANGED <<source, changes, clock, tableVars, writer, retries, batch, left, records,
                 job>>

-----------------------------------------------------------------------------
(***************************************************************************)
(* The preview tables under the writer lock                                *)
(***************************************************************************)
\* The runs whose recovery depends on the tables and their backups.
Critical(b) ==
  stage[b] \in {"opened", "snapshot", "write", "written", "stored", "committed",
                "raised", "marked", "restore", "broken", "clean"}

Crossing(b) == crossed' = crossed \cup {c \in Run \ {b} : Critical(c)}

Enter(b) ==
  /\ writer = NoRun
  /\ writer' = b
  /\ left' = [left EXCEPT ![b] = Table]
  /\ before' = [before EXCEPT ![b] = live]
  /\ crossed' = crossed \ {b}
  /\ UNCHANGED <<ingestVars, retries, records, job, live, backup, undone, lost>>

Acquire(b) ==
  /\ Step(b, "ingested", "snapshot")
  /\ Enter(b)
  /\ UNCHANGED batch

\* A view is asked for a batch, which need not exist, or for none.
AcquireView(b) ==
  /\ b \in View
  /\ Step(b, "waiting", "opened")
  /\ Enter(b)
  /\ \E n \in {NoBatch, Unknown} \cup {m.batch : m \in manifest} :
       batch' = [batch EXCEPT ![b] = n]

InsertRun(b) ==
  /\ Step(b, "opened", "snapshot")
  /\ job' = [job EXCEPT ![b] = "running"]
  /\ UNCHANGED <<ingestVars, tableVars, writer, retries, batch, left, records>>

Turn(b) == Min(left[b])

\* Mutant: a backup that is already there is kept.
SnapshotKeeps(b) ==
  /\ stage[b] = "snapshot"
  /\ left[b] # {}
  /\ backup' = [backup EXCEPT ![Turn(b)] = IF @ = Missing THEN live[Turn(b)] ELSE @]
  /\ left' = [left EXCEPT ![b] = @ \ {Turn(b)}]
  /\ Crossing(b)
  /\ UNCHANGED <<ingestVars, writer, stage, retries, batch, records, job, live, before,
                 undone, lost>>

\* snapshot_preview_tables, one table, outside any transaction: the backup is dropped,
DropBackup(b) ==
  /\ stage[b] = "snapshot"
  /\ left[b] # {}
  /\ backup[Turn(b)] # Missing
  /\ backup' = [backup EXCEPT ![Turn(b)] = Missing]
  /\ Crossing(b)
  /\ UNCHANGED <<ingestVars, writer, stage, retries, batch, left, records, job, live,
                 before, undone, lost>>

\* then created: no table, no backup.
SnapshotTable(b) ==
  /\ stage[b] = "snapshot"
  /\ left[b] # {}
  /\ backup[Turn(b)] = Missing
  /\ backup' = [backup EXCEPT ![Turn(b)] = live[Turn(b)]]
  /\ left' = [left EXCEPT ![b] = @ \ {Turn(b)}]
  /\ Crossing(b)
  /\ UNCHANGED <<ingestVars, writer, stage, retries, batch, records, job, live, before,
                 undone, lost>>

SnapshotReady(b) ==
  /\ Step(b, "snapshot", "write")
  /\ left[b] = {}
  /\ UNCHANGED <<ingestVars, tableVars, writer, retries, batch, left, records, job>>

Later(m, n) == m.at > n.at \/ (m.at = n.at /\ m.batch >= n.batch)

\* Rows whose archived file is gone are dropped before anything is selected.
Archives == {found \in SUBSET manifest : found = manifest \/ "archive" \in Faults}

\* Of a family, the latest batch with a file of its latest report date.
LatestRows(family, found) ==
  LET all == {m \in found : FamilyOf[m.file] = family}
      bounded == {m \in all : \A n \in all : DateOf[n.file] <= DateOf[m.file]}
  IN  {m \in bounded : \A n \in bounded : \E k \in bounded :
         k.batch = m.batch /\ Later(k, n)}

LatestDates(n) ==
  {m \in manifest : m.batch = n /\ \A k \in manifest :
     (k.batch = n /\ FamilyOf[k.file] = FamilyOf[m.file])
       => DateOf[k.file] <= DateOf[m.file]}

OneFamily(n) ==
  \A m, k \in manifest :
    (m.batch = n /\ k.batch = n) => FamilyOf[m.file] = FamilyOf[k.file]

\* Mutant: a batch is previewed like a refresh without one.
SelectedLatest(n, found) == UNION {LatestRows(FamilyOf[f], found) : f \in File}

\* _select_manifest_rows.
Selected(n, found) ==
  IF n # NoBatch THEN {m \in found : m.batch = n}
  ELSE UNION {LatestRows(FamilyOf[f], found) : f \in File}

\* The rows of the batches that are written are replaced; no row empties all.
Replaced(t, new) ==
  IF new = {} THEN {}
  ELSE {m \in live[t][1] : \A n \in new : m.batch # n.batch} \cup new

TablesExist == \A t \in Table : live[t] # Missing

\* No archived file is there of what is asked for.
Nothing(n, found) == \A m \in found : n # NoBatch /\ m.batch # n

\* What a write leaves out, and what it deletes when it finds nothing.
Losing(b, found) ==
  LET new == Selected(batch[b], found) IN
  lost' = lost \cup
    {m \in manifest :
       \/ m \notin found /\ m.batch \in {batch[b]} \cup {n.batch : n \in new}
       \/ Nothing(batch[b], found) /\ \E t \in Table : m \in live[t][1]}

\* Mutant: the tables are written one after the other.
WritesTorn(b, found) ==
  live' = [live EXCEPT ![1] = <<Replaced(1, Selected(batch[b], found))>>]

Writes(b, found) == live' = [t \in Table |-> <<Replaced(t, Selected(batch[b], found))>>]

\* Mutant: the job state is completed at the commit.
WriteRecording(b) ==
  /\ Step(b, "write", "written")
  /\ TablesExist
  /\ \E found \in Archives : Writes(b, found) /\ Losing(b, found)
  /\ job' = [job EXCEPT ![b] = "completed"]
  /\ Crossing(b)
  /\ UNCHANGED <<ingestVars, writer, retries, batch, left, records, backup, before, undone>>

\* materialize_source_previews: one transaction.
Write(b) ==
  /\ Step(b, "write", "written")
  /\ TablesExist
  /\ \E found \in Archives : Writes(b, found) /\ Losing(b, found)
  /\ Crossing(b)
  /\ UNCHANGED <<ingestVars, writer, retries, batch, left, records, job, backup, before,
                 undone>>

Release(b) == writer' = IF writer = b THEN NoRun ELSE writer

\* cleanup_preview_backups drops one backup after the other; when it raises,
\* the rest stays, and the run goes on.
Drops ==
  \E n \in 0 .. Tables :
    /\ n < Tables => "storage" \in Faults
    /\ backup' = [t \in Table |-> IF t <= n THEN Missing ELSE backup[t]]

\* The refresh cleans up, then leaves the lock.
CleanUpWritten(b) ==
  /\ b \in Refresh
  /\ Step(b, "written", "released")
  /\ Drops
  /\ Crossing(b)
  /\ Release(b)
  /\ UNCHANGED <<ingestVars, retries, batch, left, records, job, live, before, undone, lost>>

\* The manifest and the completed record are one append.
AppendCompleted(b) ==
  /\ Step(b, "released", "completed")
  /\ Record(b, "completed")
  /\ UNCHANGED <<ingestVars, tableVars, writer, retries, batch, left, job>>

RecordCompleted(b) ==
  /\ Step(b, "completed", "done")
  /\ job' = [job EXCEPT ![b] = "completed"]
  /\ UNCHANGED <<ingestVars, tableVars, writer, retries, batch, left, records>>

\* The view updates its row, appends its records and then cleans up.
UpdateRun(b) ==
  /\ b \in View
  /\ Step(b, "written", "stored")
  /\ job' = [job EXCEPT ![b] = "completed"]
  /\ UNCHANGED <<ingestVars, tableVars, writer, retries, batch, left, records>>

AppendViewCompleted(b) ==
  /\ Step(b, "stored", "committed")
  /\ Record(b, "completed")
  /\ UNCHANGED <<ingestVars, tableVars, writer, retries, batch, left, job>>

CleanUpView(b) ==
  /\ Step(b, "committed", "done")
  /\ Drops
  /\ Crossing(b)
  /\ Release(b)
  /\ UNCHANGED <<ingestVars, retries, batch, left, records, job, live, before, undone, lost>>

-----------------------------------------------------------------------------
(***************************************************************************)
(* Failures                                                                *)
(***************************************************************************)
\* What the task catches, and why it is raised.
Raises(b) ==
  \/ stage[b] \in {"ingest", "scanned"} /\ "source" \in Faults
  \/ stage[b] \in {"ingest", "archived"} /\ "governance" \in Faults
  \/ stage[b] = "ingested" /\ writer # NoRun                     \* lock timeout
  \/ stage[b] = "snapshot" /\ "storage" \in Faults
  \/ stage[b] = "write" /\ Faults \cap {"source", "storage", "governance"} # {}
  \/ stage[b] = "write" /\ ~TablesExist
  \/ b \in View /\ stage[b] = "written" /\ "storage" \in Faults
  \/ stage[b] = "stored" /\ "governance" \in Faults

\* The refresh leaves the lock first; it restores what it copied completely.
RefreshRaises(b) ==
  /\ b \in Refresh
  /\ Raises(b)
  /\ stage' = [stage EXCEPT ![b] = IF @ = "write" THEN "restore" ELSE "failed"]
  /\ left' = [left EXCEPT ![b] = Table]
  /\ rows' = [rows EXCEPT ![b] = {}]
  /\ Release(b)
  /\ UNCHANGED <<source, changes, manifest, clock, raced, tableVars, retries, batch,
                 records, job>>

\* The view goes on under the lock, and first updates its row,
ViewRaises(b) ==
  /\ b \in View
  /\ Raises(b)
  /\ stage' = [stage EXCEPT ![b] = "raised"]
  /\ UNCHANGED <<ingestVars, tableVars, writer, retries, batch, left, records, job>>

MarkRun(b) ==
  /\ Step(b, "raised", "marked")
  /\ job' = [job EXCEPT ![b] = "failed"]
  /\ UNCHANGED <<ingestVars, tableVars, writer, retries, batch, left, records>>

\* then appends the failed record if it can, then restores.
AppendViewFailed(b) ==
  LET ready == left[b] = {} IN
  /\ Step(b, "marked", IF ready THEN "restore" ELSE "over")
  /\ Record(b, "failed") \/ ("governance" \in Faults /\ UNCHANGED records)
  /\ IF ready THEN left' = [left EXCEPT ![b] = Table] /\ UNCHANGED writer
     ELSE UNCHANGED left /\ Release(b)
  /\ UNCHANGED <<ingestVars, tableVars, retries, batch, job>>

\* Mutant: the tables are not restored.
RestoreNothing(b) ==
  /\ stage[b] = "restore"
  /\ left[b] # {}
  /\ left' = [left EXCEPT ![b] = @ \ {Turn(b)}]
  /\ UNCHANGED <<ingestVars, tableVars, writer, stage, retries, batch, records, job>>

\* restore_preview_tables, one table: no backup, no table.
RestoreTable(b) ==
  /\ stage[b] = "restore"
  /\ left[b] # {}
  /\ live' = [live EXCEPT ![Turn(b)] = backup[Turn(b)]]
  /\ left' = [left EXCEPT ![b] = @ \ {Turn(b)}]
  /\ undone' = (undone \/ b \in crossed)
  /\ Crossing(b)
  /\ UNCHANGED <<ingestVars, writer, stage, retries, batch, records, job, backup, before,
                 lost>>

\* Each table is dropped, then created, outside any transaction.  The refresh
\* cleans up even now, the view does not.
RestoreCut(b, how) ==
  /\ stage[b] = "restore"
  /\ left[b] # {}
  /\ how \in Faults
  /\ \E gone \in BOOLEAN :
       live' = IF gone THEN [live EXCEPT ![Turn(b)] = Missing] ELSE live
  /\ undone' = TRUE
  /\ Crossing(b)
  /\ IF how = "storage" /\ b \in Refresh
     THEN stage' = [stage EXCEPT ![b] = "broken"] /\ UNCHANGED writer
     ELSE stage' = [stage EXCEPT ![b] = "over"] /\ Release(b)
  /\ UNCHANGED <<ingestVars, retries, batch, left, records, job, backup, before, lost>>

Restored(b) ==
  /\ Step(b, "restore", "clean")
  /\ left[b] = {}
  /\ UNCHANGED <<ingestVars, tableVars, writer, retries, batch, left, records, job>>

CleanUpRestored(b) ==
  /\ stage[b] \in {"clean", "broken"}
  /\ stage' = [stage EXCEPT ![b] =
                 IF @ = "clean" /\ b \in Refresh THEN "failed" ELSE "over"]
  /\ Drops
  /\ Crossing(b)
  /\ Release(b)
  /\ UNCHANGED <<ingestVars, retries, batch, left, records, job, live, before, undone, lost>>

AppendFailed(b) ==
  /\ Step(b, "failed", "undone")
  /\ Record(b, "failed")
  /\ UNCHANGED <<ingestVars, tableVars, writer, retries, batch, left, job>>

RecordFailed(b) ==
  /\ Step(b, "undone", "over")
  /\ job' = [job EXCEPT ![b] = "failed"]
  /\ UNCHANGED <<ingestVars, tableVars, writer, retries, batch, left, records>>

End(b) ==
  /\ stage' = [stage EXCEPT ![b] = "over"]
  /\ rows' = [rows EXCEPT ![b] = {}]
  /\ Release(b)
  /\ UNCHANGED <<source, changes, manifest, clock, raced, tableVars, retries, batch, left,
                 records, job>>

\* What the task does not catch.
Escapes(b) ==
  /\ \/ b \in Refresh /\ stage[b] \in {"waiting", "released", "failed"}
        /\ "governance" \in Faults
     \/ stage[b] \in {"recorded", "completed", "undone"} /\ "database" \in Faults
     \/ b \in View /\ stage[b] = "waiting" /\ writer # NoRun     \* lock timeout
     \/ stage[b] \in {"opened", "raised"} /\ "storage" \in Faults
  /\ End(b)

\* The worker dies, or the broker's time limit stops the thread: no handler
\* runs, and the operating system or the context manager frees the lock.
Interrupt(b) ==
  /\ "interrupt" \in Faults
  /\ stage[b] \notin {"waiting", "restore", "done", "over"}
  /\ End(b)

\* A message whose run raised, or was not acknowledged, is delivered again.
Redeliver(b) ==
  /\ b \in Refresh
  /\ retries > 0
  /\ Step(b, "over", "waiting")
  /\ retries' = retries - 1
  /\ batch' = [batch EXCEPT ![b] = NoBatch]
  /\ UNCHANGED <<ingestVars, tableVars, writer, left, records, job>>

-----------------------------------------------------------------------------
RunNext(b) ==
  \/ AppendRunning(b) \/ RecordRunning(b) \/ Scan(b) \/ Archive(b) \/ AppendManifest(b)
  \/ Acquire(b) \/ AcquireView(b) \/ InsertRun(b) \/ DropBackup(b) \/ SnapshotTable(b)
  \/ SnapshotReady(b) \/ Write(b) \/ CleanUpWritten(b) \/ AppendCompleted(b) \/ RecordCompleted(b)
  \/ UpdateRun(b) \/ AppendViewCompleted(b) \/ CleanUpView(b)
  \/ RefreshRaises(b) \/ ViewRaises(b) \/ MarkRun(b) \/ AppendViewFailed(b)
  \/ RestoreTable(b) \/ RestoreCut(b, "storage") \/ RestoreCut(b, "interrupt")
  \/ Restored(b) \/ CleanUpRestored(b) \/ AppendFailed(b) \/ RecordFailed(b)
  \/ Escapes(b) \/ Interrupt(b) \/ Redeliver(b)

Next ==
  \/ \E f \in File : NewContent(f)
  \/ \E b \in Run : RunNext(b)

Spec == Init /\ [][Next]_vars

-----------------------------------------------------------------------------
(***************************************************************************)
(* Properties                                                              *)
(***************************************************************************)
TypeOK ==
  /\ source \in [File -> Nat]
  /\ manifest \subseteq Row
  /\ clock \in Nat
  /\ writer \in Run \cup {NoRun}
  /\ stage \in [Run -> Stage]
  /\ changes \in Nat
  /\ retries \in Nat
  /\ batch \in [Run -> Batch \cup {NoBatch, Unknown}]
  /\ rows \in [Run -> SUBSET Row]
  /\ left \in [Run -> SUBSET Table]
  /\ records \in [Run -> Seq(Status)]
  /\ job \in [Run -> Status \cup {"none"}]
  /\ live \in [Table -> Seq(SUBSET Row)]
  /\ backup \in [Table -> Seq(SUBSET Row)]
  /\ before \in [Run -> [Table -> Seq(SUBSET Row)]]
  /\ crossed \subseteq Run
  /\ undone \in BOOLEAN
  /\ lost \subseteq Row
  /\ raced \subseteq File

\* The last good preview: when a run has failed and restored its tables, they
\* are what they were when it took the lock, also after a commit of its own,
\* unless another run touched them or the backups meanwhile.
RestoredIsAsBefore ==
  \A b \in Run \ crossed : stage[b] = "clean" => live = before[b]

\* Outside of a restore all preview tables hold the rows of the same batches,
\* and none is missing, unless a restore was cut off or not of its own backups:
\* a summary never stands without its rows.
TablesAgreeUnlessUndone ==
  (~undone /\ \A b \in Run : stage[b] # "restore") =>
     \A t \in Table : live[t] = live[1] /\ live[t] # Missing

\* A completed refresh of one family is shown: the rows of its batch of the latest
\* report date are in every preview table, whatever runs, fails and is restored
\* later, unless a restore was cut off or not of its own backups, and but for the
\* rows lost: their archived file was gone when their batch was written, or a write
\* was asked for what has no archived file, and emptied the tables.  (A later run without a batch deletes the
\* rows of the earlier dates and, in a batch of several families, those of a family
\* that has a later batch.)
CompletedIsShownUnlessLost ==
  \A b \in Refresh :
    (~undone /\ stage[b] \in {"released", "completed", "done"} /\ OneFamily(batch[b])) =>
      \A t \in Table : LatestDates(batch[b]) \ lost \subseteq live[t][1]

\* A file gets one manifest row for each content it was found with, in order,
\* through failures and redeliveries, unless two ingests of it overlapped.
ManifestFollowsSourceUnlessRaced ==
  \A m, n \in manifest :
    (m.file = n.file /\ m.file \notin raced /\ m.at < n.at) => m.version < n.version

\* The job state says only what the stream of the runs says already.
JobStateFollowsRecords ==
  \A b \in Refresh :
    job[b] # "none" => \E i \in 1 .. Len(records[b]) : records[b][i] = job[b]
=============================================================================
