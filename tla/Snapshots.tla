------------------------------ MODULE Snapshots ------------------------------
(***************************************************************************)
(* The formal balance pipeline (backend/app/tasks/formal_balance_pipeline) *)
(* and the snapshots it stands on (backend/app/tasks/snapshot_materialize).*)
(*                                                                         *)
(* A source directory holds files, each of a family and a report date that *)
(* its name tells, and there may be several of one family and date: the    *)
(* manifest tells them apart, the snapshots do not.  A pipeline run        *)
(* ingests the files that changed as one batch of the manifest, and then   *)
(* takes the report dates of the batch, earliest first: it materializes    *)
(* the snapshots of the date from the rows of the manifest it selects, and *)
(* the balance facts from the snapshots.  Where it selects no interbank    *)
(* file (tyw) beside a bond file (zqtz) it carries the interbank rows of   *)
(* the latest earlier date forward.  Scripts materialize snapshots without *)
(* a report date, and a refresh materializes balance facts alone.          *)
(*                                                                         *)
(* Both materializations commit one transaction under the DuckDB writer    *)
(* lock, so each is one step here; FormalMaterialize has the run around    *)
(* the balance facts, SourcePreview the copies and failures of an ingest.  *)
(***************************************************************************)
EXTENDS Naturals, Sequences, FiniteSetsExt

CONSTANTS
  Run,         \* pipelines, scripts and balance refreshes
  Dates,       \* report dates are 1 .. Dates
  File,        \* the names of source files
  FamilyOf,    \* the family of each
  DateOf,      \* the report date of each
  MaxVersion,  \* bound: versions of one file
  MaxFiles,    \* bound: files that arrive or are replaced
  Starts,      \* the files there may be at the start, and what the runs are
  Faults       \* the failures that may happen, a subset of FaultKind

Date == 1 .. Dates
Family == {"zqtz", "tyw"}
Version == 0 .. MaxVersion        \* 0: there is no file
Files == [File -> Version]
NoFiles == [f \in File |-> 0]
FaultKind == {"manifest", "archive", "storage", "governance"}
Kind == {"pipeline", "script", "balance"}

\* given: the report_date is an argument, one date; otherwise dates is what
\* start_date and end_date admit.
Orders == {o \in [kind : Kind, given : BOOLEAN, dates : SUBSET Date] :
             o.given => \A d, e \in o.dates : d = e}

ASSUME DatesAssumption == Dates \in Nat /\ MaxVersion \in Nat /\ MaxFiles \in Nat
ASSUME FilesAssumption == FamilyOf \in [File -> Family] /\ DateOf \in [File -> Date]
ASSUME StartsAssumption == Starts \subseteq [source : Files, order : [Run -> Orders]]
ASSUME FaultAssumption == Faults \subseteq FaultKind

\* A snapshot table is replaced by its report dates: what it holds of a family
\* and a date is a cell.
Cell == Family \X Date
CellOf(f) == <<FamilyOf[f], DateOf[f]>>

VARIABLES
  source,    \* the version of each file in the source directory
  manifest,  \* the batches of the source manifest, in append order
  tables,    \* the two snapshot tables: the rows of each cell
  balance,   \* the balance facts of each cell
  order,     \* what each run is
  place,     \* where each run is
  found,     \* the changed files a pipeline has archived, and their versions
  batch,     \* the batch a pipeline has ingested, 0 if nothing had changed
  left,      \* the report dates a run still has to do
  picks,     \* the manifest rows it has selected: files and their batches
  asked,     \* the batch it asks the materializations for, 0 for none
  passed,    \* history: files a later ingest entered since the run chose
  undated,   \* history: cells written by a run without a report date
  missed     \* history: files whose last version no run is bound to show

runVars == <<order, place, found, batch, left, picks, asked>>
vars == <<source, manifest, tables, balance, runVars, passed, undated, missed>>

Place == {"idle", "scanned", "ingested", "resolved", "selected", "empty", "committed",
          "recorded", "ended"}
Batch == 1 .. Len(manifest)

\* Rows that came from one version of a file, under the batch they carry in
\* the table.  Carried rows have a batch of their own, 0.
RowGroup == [batch : Nat, file : File, version : Version]
NoBalance == [rows |-> {}, asked |-> 0]

Init ==
  /\ \E start \in Starts : source = start.source /\ order = start.order
  /\ manifest = <<>>
  /\ tables = [c \in Cell |-> {}]
  /\ balance = [c \in Cell |-> NoBalance]
  /\ place = [p \in Run |-> "idle"]
  /\ found = [p \in Run |-> NoFiles]
  /\ batch = [p \in Run |-> 0]
  /\ left = [p \in Run |-> IF order[p].given THEN order[p].dates ELSE {}]
  /\ picks = [p \in Run |-> {}]
  /\ asked = [p \in Run |-> 0]
  /\ passed = [p \in Run |-> {}]
  /\ undated = {}
  /\ missed = {}

-----------------------------------------------------------------------------
(***************************************************************************)
(* The manifest                                                            *)
(***************************************************************************)
Holds(n, f) == manifest[n][f] # 0
Covers(n, c) == \E f \in File : CellOf(f) = c /\ Holds(n, f)

\* The last batch by created_at that has the file: _latest_by_source_slot.
IsLast(n, f) == Holds(n, f) /\ \A m \in Batch : m > n => ~Holds(m, f)

\* The last batch that has any file of the cell.
IsLatest(n, c) == Covers(n, c) /\ \A m \in Batch : m > n => ~Covers(m, c)

Entered(c) == \E n \in Batch : Covers(n, c)

IsLatestDate(c) == \A d \in Date : d > c[2] => ~Entered(<<c[1], d>>)

\* Mutant: the rows asked for are not limited to those of the batch.
OfBatchUnfiltered(n, ds) ==
  {x \in File \X Batch : DateOf[x[1]] \in ds /\ n \in Batch /\ Holds(x[2], x[1])}

\* select_for_snapshot_materialization of a batch, of a date, and of neither:
\* then of each family its latest report date.  A date or a family without a
\* batch is answered with all files of one batch, the last that has any.
OfBatch(n, ds) == {f \in File : DateOf[f] \in ds /\ n \in Batch /\ Holds(n, f)} \X {n}
OfDate(d) ==
  {x \in File \X Batch :
     DateOf[x[1]] = d /\ Holds(x[2], x[1]) /\ IsLatest(x[2], CellOf(x[1]))}
OfFamilies ==
  {x \in File \X Batch :
     /\ Holds(x[2], x[1]) /\ IsLatest(x[2], CellOf(x[1]))
     /\ IsLatestDate(CellOf(x[1]))}

\* filter_incremental_rows: files whose version is not the last one entered.
Changed ==
  {f \in File :
     source[f] # 0 /\ \A n \in Batch : IsLast(n, f) => manifest[n][f] # source[f]}

Total(amounts) == MapThenSumSet(LAMBDA f : amounts[f], File)

\* A file arrives in the source directory, or is replaced there.
FileArrives(f) ==
  /\ source[f] < MaxVersion
  /\ Total(source) < MaxFiles
  /\ source' = [source EXCEPT ![f] = @ + 1]
  /\ UNCHANGED <<manifest, tables, balance, runVars, passed, undated, missed>>

-----------------------------------------------------------------------------
(***************************************************************************)
(* A pipeline                                                              *)
(***************************************************************************)
Goto(p, from, to) ==
  /\ place[p] \in from
  /\ place' = [place EXCEPT ![p] = to]

Chose(p) == batch[p] # 0 \/ picks[p] # {}

\* What a run knows is gone when it ends.
Ends(p, from) ==
  /\ Goto(p, from, "ended")
  /\ found' = [found EXCEPT ![p] = NoFiles]
  /\ batch' = [batch EXCEPT ![p] = 0]
  /\ left' = [left EXCEPT ![p] = {}]
  /\ picks' = [picks EXCEPT ![p] = {}]
  /\ asked' = [asked EXCEPT ![p] = 0]
  /\ passed' = [passed EXCEPT ![p] = {}]

\* scan_and_archive: the files that changed are copied to the archive.
Scan(p) ==
  /\ order[p].kind = "pipeline"
  /\ Goto(p, {"idle"}, "scanned")
  /\ found' = [found EXCEPT ![p] = [f \in File |-> IF f \in Changed THEN source[f] ELSE 0]]
  /\ UNCHANGED <<source, manifest, tables, balance, order, batch, left, picks, asked, passed,
                 undated, missed>>

New(p) == {f \in File : found[p][f] # 0}

\* Mutant: the id of the new batch is not returned.
AppendForgetsBatch(p) ==
  /\ Goto(p, {"scanned"}, "ingested")
  /\ found' = [found EXCEPT ![p] = NoFiles]
  /\ manifest' = IF New(p) = {} THEN manifest ELSE Append(manifest, found[p])
  /\ passed' = [q \in Run |-> IF q = p \/ ~Chose(q) THEN {} ELSE passed[q] \cup New(p)]
  /\ UNCHANGED <<source, tables, balance, order, batch, left, picks, asked, undated, missed>>

\* They become a batch of the manifest; no batch is made when nothing changed.
AppendManifest(p) ==
  /\ Goto(p, {"scanned"}, "ingested")
  /\ found' = [found EXCEPT ![p] = NoFiles]
  /\ manifest' = IF New(p) = {} THEN manifest ELSE Append(manifest, found[p])
  /\ batch' = [batch EXCEPT ![p] = IF New(p) = {} THEN 0 ELSE Len(manifest) + 1]
  /\ passed' = [q \in Run |-> IF q = p \/ ~Chose(q) THEN {} ELSE passed[q] \cup New(p)]
  /\ UNCHANGED <<source, tables, balance, order, left, picks, asked, undated, missed>>

\* The dates of the batch, or of what is latest when nothing was ingested.
DatesOf(p) ==
  IF order[p].given THEN order[p].dates
  ELSE {DateOf[x[1]] : x \in IF batch[p] # 0 THEN OfBatch(batch[p], Date) ELSE OfFamilies}
         \cap order[p].dates

\* What a batch has of dates the run does not do is shown by no run.  Without
\* a date it raises.
ResolveDates(p) ==
  /\ IF DatesOf(p) = {} THEN Ends(p, {"ingested"})
     ELSE /\ Goto(p, {"ingested"}, "resolved")
          /\ left' = [left EXCEPT ![p] = DatesOf(p)]
          /\ UNCHANGED <<found, batch, picks, asked, passed>>
  /\ missed' = missed \cup {x[1] : x \in OfBatch(batch[p], Date \ DatesOf(p))}
  /\ UNCHANGED <<source, manifest, tables, balance, order, undated>>

-----------------------------------------------------------------------------
(***************************************************************************)
(* Snapshots                                                               *)
(***************************************************************************)
\* The report date a run is at.
IsNext(p, d) == d \in left[p] /\ \A e \in left[p] : d <= e

Dated(p) == order[p].given \/ order[p].kind = "pipeline"

\* _resolve_materialization_ingest_batch_id: the batch is asked for unless it
\* has nothing of the date and other batches have.
Asks(p, d) ==
  IF batch[p] # 0 /\ (OfBatch(batch[p], {d}) # {} \/ OfDate(d) = {}) THEN batch[p] ELSE 0

\* Rows whose archived file is gone are skipped, and what a batch had there is
\* shown by no run any more.
Select(p, a, rows) ==
  \E there \in IF "archive" \in Faults THEN SUBSET rows ELSE {rows} :
    /\ picks' = [picks EXCEPT ![p] = there]
    /\ asked' = [asked EXCEPT ![p] = a]
    /\ place' = [place EXCEPT ![p] = IF there = {} THEN "empty" ELSE "selected"]
    /\ passed' = [passed EXCEPT ![p] = IF a = 0 THEN {} ELSE @]
    /\ missed' = IF a = 0 THEN missed ELSE missed \cup {x[1] : x \in rows \ there}
    /\ UNCHANGED <<source, manifest, tables, balance, order, found, batch, left, undated>>

\* Both reads of the manifest, which only grows: the second finds of a batch
\* what the first has found.
SelectOfDate(p) ==
  \E d \in Date :
    /\ IsNext(p, d)
    /\ \/ place[p] = "resolved"
       \/ place[p] = "idle" /\ order[p].kind = "script"
    /\ Select(p, Asks(p, d),
              IF Asks(p, d) # 0 THEN OfBatch(batch[p], {d}) ELSE OfDate(d))

SelectLatest(p) ==
  /\ place[p] = "idle"
  /\ order[p].kind = "script" /\ ~order[p].given
  /\ Select(p, 0, OfFamilies)

PicksOf(p, c) == {x \in picks[p] : CellOf(x[1]) = c}
Picked(p, c) == PicksOf(p, c) # {}

\* The latest earlier date with interbank rows.
IsPrior(b, c) ==
  /\ b[1] = "tyw" /\ b[2] < c[2] /\ tables[b] # {}
  /\ \A e \in Cell : (e[1] = "tyw" /\ b[2] < e[2] /\ e[2] < c[2]) => tables[e] = {}

\* _locf_tyw_snapshot_rows.
CarriesTo(p, c) ==
  /\ Dated(p)
  /\ c[1] = "tyw" /\ Picked(p, <<"zqtz", c[2]>>)
  /\ \A e \in Cell : e[1] = "tyw" => ~Picked(p, e)
  /\ \E b \in Cell : IsPrior(b, c)

CarriedTo(c) ==
  {[g EXCEPT !.batch = 0] : g \in UNION {tables[b] : b \in {e \in Cell : IsPrior(e, c)}}}

NewRows(p, c) ==
  {[batch |-> x[2], file |-> x[1], version |-> manifest[x[2]][x[1]]] : x \in PicksOf(p, c)}

IsOfPickedBatch(p, c, n) == \E x \in PicksOf(p, c) : x[2] = n

\* Mutant: the rows of the batch are deleted even when a date is given.
KeptOfOthers(p, c) == {g \in tables[c] : ~IsOfPickedBatch(p, c, g.batch)}

\* replace_all_for_report_dates: all rows of a date that is given go, of
\* whichever file, and otherwise those of the batches.
Kept(p, c) ==
  IF Dated(p) THEN {} ELSE {g \in tables[c] : ~IsOfPickedBatch(p, c, g.batch)}

\* A commit replaces the rows of the last version of a file, which is in batch n.
Replaces(p, f, n) ==
  \/ CarriesTo(p, CellOf(f))
  \/ Picked(p, CellOf(f)) /\ (Dated(p) \/ IsOfPickedBatch(p, CellOf(f), n))

\* The files whose last version a commit leaves out, and those it writes.
Behind(p) ==
  {f \in File : \E n \in Batch : IsLast(n, f) /\ Replaces(p, f, n) /\ <<f, n>> \notin picks[p]}
Caught(p) == {f \in File : \E n \in Batch : IsLast(n, f) /\ <<f, n>> \in picks[p]}

Commit(p) ==
  /\ Goto(p, {"selected"}, "committed")
  /\ tables' = [c \in Cell |->
       IF Picked(p, c) THEN Kept(p, c) \cup NewRows(p, c)
       ELSE IF CarriesTo(p, c) THEN CarriedTo(c) ELSE tables[c]]
  /\ undated' = {c \in Cell :
       IF Picked(p, c) THEN ~Dated(p)
       ELSE IF CarriesTo(p, c) THEN \E b \in undated : IsPrior(b, c) ELSE c \in undated}
  /\ missed' = (missed \ Caught(p)) \cup Behind(p)
  /\ picks' = [picks EXCEPT ![p] = {}]
  /\ UNCHANGED <<source, manifest, balance, order, found, batch, left, asked, passed>>

\* The completed record and the manifests of the snapshots, or the record of a
\* run that had nothing to do.
RecordCompleted(p) ==
  /\ IF order[p].kind = "pipeline"
     THEN /\ Goto(p, {"committed", "empty"}, "recorded")
          /\ UNCHANGED <<found, batch, left, picks, asked, passed>>
     ELSE Ends(p, {"committed", "empty"})
  /\ UNCHANGED <<source, manifest, tables, balance, order, undated, missed>>

-----------------------------------------------------------------------------
(***************************************************************************)
(* Balance facts                                                           *)
(***************************************************************************)
AtBalance(p) == place[p] = "recorded" \/ (place[p] = "idle" /\ order[p].kind = "balance")

OwnRows(n, c) == {g \in tables[c] : g.batch = n}

\* _resolve_snapshot_ingest_batch_id does not raise: a batch with manifest rows
\* has snapshot rows, and rows no manifest row stands for are of one batch.
Resolves(a, c) ==
  IF a # 0 THEN OwnRows(a, c) # {} \/ ~Covers(a, c)
  ELSE /\ \A n \in Batch : IsLatest(n, c) => OwnRows(n, c) # {}
       /\ ~Entered(c) => \A g, h \in tables[c] : g.batch = h.batch

\* Mutant: without a batch all rows of the date are loaded.
LoadsUnfiltered(a, c) == IF a # 0 /\ OwnRows(a, c) # {} THEN OwnRows(a, c) ELSE tables[c]

\* The rows loaded: of the batch asked for, or of all batches if it has none
\* of the family; of the last batch in the manifest, or of the only one.
Loads(a, c) ==
  IF a # 0 THEN IF OwnRows(a, c) # {} THEN OwnRows(a, c) ELSE tables[c]
  ELSE IF Entered(c) THEN {g \in tables[c] : g.batch \in Batch /\ IsLatest(g.batch, c)}
  ELSE tables[c]

\* The facts of the date are replaced, and a pipeline goes on to its next date.
MaterializeBalance(p) ==
  \E d \in Date :
    /\ IsNext(p, d)
    /\ AtBalance(p)
    /\ \A c \in Cell : c[2] = d => Resolves(asked[p], c)
    /\ balance' = [c \in Cell |->
         IF c[2] = d THEN [rows |-> Loads(asked[p], c), asked |-> asked[p]] ELSE balance[c]]
    /\ \/ left[p] = {d} /\ Ends(p, Place)
       \/ /\ left[p] # {d} /\ Goto(p, Place, "resolved")
          /\ left' = [left EXCEPT ![p] = @ \ {d}]
          /\ UNCHANGED <<found, batch, picks, asked, passed>>
    /\ UNCHANGED <<source, manifest, tables, order, undated, missed>>

-----------------------------------------------------------------------------
(***************************************************************************)
(* Failures                                                                *)
(***************************************************************************)
\* The files of its batch a pipeline is still bound to show.
Bound(p) ==
  {f \in File : <<f, batch[p]>> \in picks[p]} \cup
  {x[1] : x \in OfBatch(batch[p],
     IF place[p] = "ingested" THEN Date
     ELSE IF place[p] = "resolved" THEN left[p]
     ELSE {d \in left[p] : ~IsNext(p, d)})}

\* A process that dies leaves the same behind as one that raises.
Stop(p, from) ==
  /\ Ends(p, from)
  /\ missed' = missed \cup Bound(p)
  /\ UNCHANGED <<source, manifest, tables, balance, order, undated>>

\* The directory or the manifest cannot be read or written.  (A run that fails
\* in its first step is one that never starts.)
ManifestFails(p) ==
  /\ "manifest" \in Faults
  /\ Stop(p, {"scanned", "ingested", "resolved"})

\* The writer lock is not free in time, an archived file cannot be parsed or
\* has no rows, the transaction fails: it rolls back and a failed run is
\* recorded.
SnapshotFails(p) ==
  /\ "storage" \in Faults
  /\ Stop(p, {"selected"})

\* append_many_atomic raises after the commit: a failed run whose rows stay.
RecordFails(p) ==
  /\ "governance" \in Faults
  /\ Stop(p, {"committed", "empty"})

\* Rows that do not resolve, a refresh of the FX rates that raises (as it does
\* when it waits for the lock its caller holds): the pipeline raises as well
\* and leaves the dates after this one.
BalanceRaises(p) ==
  /\ Stop(p, {"recorded"})

RunNext(p) ==
  \/ Scan(p) \/ AppendManifest(p) \/ ResolveDates(p) \/ SelectOfDate(p) \/ SelectLatest(p)
  \/ Commit(p) \/ RecordCompleted(p) \/ MaterializeBalance(p)
  \/ ManifestFails(p) \/ SnapshotFails(p) \/ RecordFails(p) \/ BalanceRaises(p)

Next ==
  \/ \E f \in File : FileArrives(f)
  \/ \E p \in Run : RunNext(p)

Spec == Init /\ [][Next]_vars

-----------------------------------------------------------------------------
(***************************************************************************)
(* Properties                                                              *)
(***************************************************************************)
\* Every variable keeps its type, and what a run has picked is in the manifest.
TypeOK ==
  /\ source \in Files
  /\ manifest \in Seq(Files)
  /\ tables \in [Cell -> SUBSET RowGroup]
  /\ balance \in [Cell -> [rows : SUBSET RowGroup, asked : Nat]]
  /\ order \in [Run -> Orders]
  /\ place \in [Run -> Place]
  /\ found \in [Run -> Files]
  /\ batch \in [Run -> 0 .. Len(manifest)]
  /\ left \in [Run -> SUBSET Date]
  /\ picks \in [Run -> SUBSET (File \X Batch)]
  /\ asked \in [Run -> 0 .. Len(manifest)]
  /\ passed \in [Run -> SUBSET File]
  /\ undated \subseteq Cell
  /\ missed \subseteq File

\* The rows of a family and a date in a snapshot table come from one batch, or
\* were carried from one date, and hold each file in one version: readers of
\* the date alone (bond analytics, the balance facts of a batch without the
\* family) count no position twice.  Except where they were written by a run
\* without a report date or carried forward from such rows.
OneBatchUnlessUndated ==
  \A c \in Cell \ undated : \A g, h \in tables[c] :
    /\ g.batch = h.batch /\ CellOf(g.file) = CellOf(h.file)
    /\ g.file = h.file => g = h

\* A commit writes each file in the last version that entered the manifest:
\* selecting before the lock is taken brings older rows back only when a later
\* ingest of that very file came in between.
WritesLastUnlessPassed ==
  [][\A p \in Run : (place[p] = "selected" /\ place'[p] = "committed") =>
       \A x \in picks[p] : x[1] \in passed[p] \/ IsLast(x[2], x[1])]_vars

\* The last version of every file that entered the manifest is in the snapshot
\* of its date as soon as no pipeline is bound to show it, unless a pipeline
\* that was bound failed, was given another date or found its archived copy
\* gone, or a commit left it out that replaced its rows: of a run that was
\* overtaken, one of another file of its family and date (all rows of the date
\* go), or one that carried interbank rows over it.
EnteredIsShownUnlessMissed ==
  \A f \in File : \A n \in Batch :
    (IsLast(n, f) /\ f \notin missed /\ \A p \in Run : f \notin Bound(p))
      => \E g \in OwnRows(n, CellOf(f)) : g.file = f

\* Balance facts that were not asked of a batch are made from the rows of one
\* batch even where the snapshot of the date holds several: the last one of the
\* manifest, or the rows carried forward.
UnaskedBalanceIsOfOneBatch ==
  \A c \in Cell : balance[c].asked = 0 =>
    \A g, h \in balance[c].rows : g.batch = h.batch

\* calc_rules: interbank rows are carried forward to a report date that has no
\* source manifest.
CarriedOnlyWithoutSource ==
  [][\A c \in Cell :
       (tables'[c] # tables[c] /\ \E g \in tables'[c] : g.batch = 0) => ~Entered(c)]_vars
=============================================================================
