-------------------------- MODULE FormalMaterialize --------------------------
(***************************************************************************)
(* The lifecycle every governed formal computation shares                  *)
(* (backend/app/tasks/formal_compute_runtime.py): a message for a build    *)
(* run is delivered to a worker, which records the run as queued and       *)
(* running, takes the writer lock of the DuckDB file, replaces the facts   *)
(* of the run's cell, releases the lock and only then publishes the cache  *)
(* manifest together with the completed record.  Any exception records     *)
(* "failed" and is raised again, so that the broker redelivers the message *)
(* with the same run_id.  A time limit, a shutdown or the death of the     *)
(* worker passes every `except Exception` and records nothing.             *)
(*                                                                         *)
(* A cell is a cache_key and a report_date: the rows one run replaces.  A  *)
(* version stands for the combined source_version of the rows read.        *)
(*                                                                         *)
(* A call of the governance repository is one step here, with the outcomes *)
(* GovernanceLog allows it: whole, nothing, a prefix if the worker dies in *)
(* it, and any part if its rollback fails or its commit goes unanswered.   *)
(***************************************************************************)
EXTENDS Naturals, Sequences, FiniteSets

CONSTANTS
  Run,            \* run_ids of the build runs that get requested
  Cell,           \* cache_key x report_date: the unit of facts replaced
  CellOf,         \* the cell of each run
  NestedLock,     \* runs whose materialization takes the writer lock again
  MaxDeliveries,  \* bound: deliveries of each run's message (first try and retries)
  MaxVersion,     \* bound: changes of the upstream rows
  MaxDoubtful,    \* bound: publications left in doubt
  Faults,         \* the failures that may happen, a subset of FaultKind
  NoRun           \* the writer lock is free

FaultKind == {"governance", "execute", "write", "publish", "doubt", "interrupt"}

ASSUME CellAssumption == CellOf \in [Run -> Cell]
ASSUME NestedAssumption == NestedLock \subseteq Run
ASSUME BoundAssumption ==
  MaxDeliveries \in [Run -> Nat] /\ MaxVersion \in Nat /\ MaxDoubtful \in Nat
ASSUME FaultAssumption == Faults \subseteq FaultKind
ASSUME NoRunAssumption == NoRun \notin Run

VARIABLES
  pc,         \* where the worker is in the handler, per run
  delivery,   \* number of times the run's message was delivered
  writer,     \* the run holding the DuckDB writer lock, or NoRun
  source,     \* version of the upstream rows the materialization reads
  read,       \* result.source_version of the delivery in progress
  facts,      \* the last replacement of each cell: build and version
  buildRun,   \* the cache_build_run records of each run, in append order
  completed,  \* the completed records of all runs, in append order
  manifest,   \* the cache_manifest records, in append order
  written,    \* history: every replacement of facts that was committed
  raced,      \* history: the cells two builds of which overlapped
  doubtful    \* history: builds whose publication raised without being undone

vars == <<pc, delivery, writer, source, read, facts, buildRun, completed,
          manifest, written, raced, doubtful>>

Status == {"queued", "running", "completed", "failed"}
Delivery == Nat
Version == 0 .. MaxVersion

\* A build is one delivery of a run's message: what a fact row, a manifest and
\* a completed record are attributed to.
Build == [run : Run, delivery : Delivery, version : Version]
NoFacts == [run |-> NoRun, delivery |-> 0, version |-> 0]
BuildOf(r) == [run |-> r, delivery |-> delivery[r], version |-> read[r]]

\* Inside `with acquire_lock(writer_lock, ...)`.
Critical == {"executing", "writing", "written"}
\* From the first read of the inputs to the publication of their lineage.
Building == Critical \cup {"publishing"}
\* A worker is running the handler, or has not acknowledged the message yet.
Active == {"start", "queued", "running", "failing", "done"} \cup Building
Place == {"waiting", "dead", "lost"} \cup Active

Entries(log) == {log[i] : i \in 1 .. Len(log)}

Init ==
  /\ pc = [r \in Run |-> "waiting"]
  /\ delivery = [r \in Run |-> 0]
  /\ writer = NoRun
  /\ source = 0
  /\ read = [r \in Run |-> 0]
  /\ facts = [c \in Cell |-> NoFacts]
  /\ buildRun = [r \in Run |-> <<>>]
  /\ completed = <<>>
  /\ manifest = <<>>
  /\ written = {}
  /\ raced = {}
  /\ doubtful = {}

-----------------------------------------------------------------------------
Goto(r, from, to) ==
  /\ pc[r] = from
  /\ pc' = [pc EXCEPT ![r] = to]

Record(r, status) ==
  buildRun' = [buildRun EXCEPT ![r] =
                 Append(@, [delivery |-> delivery[r], status |-> status])]

\* The exception reaches the broker: it redelivers the message later, or
\* gives it up after the last retry.
Raise(r) ==
  pc' = [pc EXCEPT ![r] = IF delivery[r] < MaxDeliveries[r] THEN "waiting" ELSE "dead"]

\* The delivery ends and nothing recorded how.
Lose(r) ==
  pc' = [pc EXCEPT ![r] = IF delivery[r] < MaxDeliveries[r] THEN "waiting" ELSE "lost"]

\* The upstream rows change (their task holds the same writer lock).
ChangeSource ==
  /\ writer = NoRun
  /\ source < MaxVersion
  /\ source' = source + 1
  /\ UNCHANGED <<pc, delivery, writer, read, facts, buildRun, completed,
                 manifest, written, raced, doubtful>>

\* The broker hands the message to a worker thread.
Deliver(r) ==
  /\ delivery[r] < MaxDeliveries[r]
  /\ Goto(r, "waiting", "start")
  /\ delivery' = [delivery EXCEPT ![r] = @ + 1]
  /\ UNCHANGED <<writer, source, read, facts, buildRun, completed, manifest,
                 written, raced, doubtful>>

AppendQueued(r) ==
  /\ Goto(r, "start", "queued")
  /\ Record(r, "queued")
  /\ UNCHANGED <<delivery, writer, source, read, facts, completed, manifest,
                 written, raced, doubtful>>

AppendRunning(r) ==
  /\ Goto(r, "queued", "running")
  /\ Record(r, "running")
  /\ UNCHANGED <<delivery, writer, source, read, facts, completed, manifest,
                 written, raced, doubtful>>

\* An append raises; its own record may stand if that could not be undone.
MayRecord(r, status) ==
  \/ UNCHANGED buildRun
  \/ "doubt" \in Faults /\ Record(r, status)

\* One of the two appends before the `try` raises: nothing else is recorded.
AppendRaises(r) ==
  /\ "governance" \in Faults
  /\ \/ pc[r] = "start" /\ MayRecord(r, "queued")
     \/ pc[r] = "queued" /\ MayRecord(r, "running")
  /\ Lose(r)
  /\ UNCHANGED <<delivery, writer, source, read, facts, completed, manifest,
                 written, raced, doubtful>>

AcquireWriterLock(r) ==
  /\ writer = NoRun
  /\ Goto(r, "running", "executing")
  /\ writer' = r
  /\ raced' = IF \E q \in Run \ {r} : pc[q] \in Building /\ CellOf[q] = CellOf[r]
              THEN raced \cup {CellOf[r]} ELSE raced
  /\ UNCHANGED <<delivery, source, read, facts, buildRun, completed, manifest,
                 written, doubtful>>

\* Mutant: acquire_lock stands before the `try`.
LockTimeoutUnrecorded(r) ==
  /\ writer # NoRun
  /\ pc[r] = "running"
  /\ Raise(r)
  /\ UNCHANGED <<delivery, writer, source, read, facts, buildRun, completed,
                 manifest, written, raced, doubtful>>

\* acquire_lock gave up after its deadline: system_exception.
LockTimeout(r) ==
  /\ writer # NoRun
  /\ Goto(r, "running", "failing")
  /\ UNCHANGED <<delivery, writer, source, read, facts, buildRun, completed,
                 manifest, written, raced, doubtful>>

\* execute_materialization reads its inputs and computes the rows.
Execute(r) ==
  /\ r \notin NestedLock
  /\ Goto(r, "executing", "writing")
  /\ read' = [read EXCEPT ![r] = source]
  /\ UNCHANGED <<delivery, writer, source, facts, buildRun, completed, manifest,
                 written, raced, doubtful>>

\* The inputs are missing or malformed.  And balance analysis refreshes the FX
\* rates first, which opens the lock file a second time: flock is held per open
\* file, so the inner acquire_lock waits for this very run and times out.
MayNotExecute(r) == "execute" \in Faults \/ r \in NestedLock

\* Nothing was written, and the `with` releases the lock.
ExecuteFails(r) ==
  /\ MayNotExecute(r)
  /\ Goto(r, "executing", "failing")
  /\ writer' = NoRun
  /\ UNCHANGED <<delivery, source, read, facts, buildRun, completed, manifest,
                 written, raced, doubtful>>

\* The delete and the inserts of the cell's rows commit as one transaction.
WriteFacts(r) ==
  /\ Goto(r, "writing", "written")
  /\ facts' = [facts EXCEPT ![CellOf[r]] = BuildOf(r)]
  /\ written' = written \cup {BuildOf(r)}
  /\ UNCHANGED <<delivery, writer, source, read, buildRun, completed, manifest,
                 raced, doubtful>>

\* The transaction rolls back: FormalComputeMaterializeFailure.
WriteFails(r) ==
  /\ "write" \in Faults
  /\ Goto(r, "writing", "failing")
  /\ writer' = NoRun
  /\ UNCHANGED <<delivery, source, read, facts, buildRun, completed, manifest,
                 written, raced, doubtful>>

ReleaseWriterLock(r) ==
  /\ Goto(r, "written", "publishing")
  /\ writer' = NoRun
  /\ UNCHANGED <<delivery, source, read, facts, buildRun, completed, manifest,
                 written, raced, doubtful>>

\* Mutant: the manifest is stamped with the rows current at publication.
PublishCurrentVersion(r) ==
  LET b == [BuildOf(r) EXCEPT !.version = source] IN
  /\ Goto(r, "publishing", "done")
  /\ manifest' = Append(manifest, b)
  /\ completed' = Append(completed, b)
  /\ Record(r, "completed")
  /\ UNCHANGED <<delivery, writer, source, read, facts, written, raced, doubtful>>

\* append_many_atomic of the manifest and the completed record.
Publish(r) ==
  /\ Goto(r, "publishing", "done")
  /\ manifest' = Append(manifest, BuildOf(r))
  /\ completed' = Append(completed, BuildOf(r))
  /\ Record(r, "completed")
  /\ UNCHANGED <<delivery, writer, source, read, facts, written, raced, doubtful>>

\* Mutant: the manifest line written before the error is not truncated away.
PublishFailsHalfway(r) ==
  /\ "publish" \in Faults
  /\ Goto(r, "publishing", "failing")
  /\ manifest' = Append(manifest, BuildOf(r))
  /\ UNCHANGED <<delivery, writer, source, read, facts, buildRun, completed,
                 written, raced, doubtful>>

\* append_many_atomic raises and has rolled back: the facts stay replaced.
PublishFails(r) ==
  /\ "publish" \in Faults
  /\ Goto(r, "publishing", "failing")
  /\ UNCHANGED <<delivery, writer, source, read, facts, buildRun, completed,
                 manifest, written, raced, doubtful>>

\* append_many_atomic raises and any part of the batch stands: a truncation of
\* its rollback failed, or the commit took effect and its answer was lost.
PublishInDoubt(r) ==
  /\ "doubt" \in Faults
  /\ Cardinality(doubtful) < MaxDoubtful
  /\ Goto(r, "publishing", "failing")
  /\ manifest' \in {manifest, Append(manifest, BuildOf(r))}
  /\ \/ UNCHANGED <<buildRun, completed>>
     \/ completed' = Append(completed, BuildOf(r)) /\ Record(r, "completed")
  /\ doubtful' = doubtful \cup {BuildOf(r)}
  /\ UNCHANGED <<delivery, writer, source, read, facts, written, raced>>

\* Every `except` records the failure and raises again.
AppendFailed(r) ==
  /\ pc[r] = "failing"
  /\ Raise(r)
  /\ Record(r, "failed")
  /\ UNCHANGED <<delivery, writer, source, read, facts, completed, manifest,
                 written, raced, doubtful>>

\* The append of the failure itself raises.
AppendFailedRaises(r) ==
  /\ "governance" \in Faults
  /\ pc[r] = "failing"
  /\ Lose(r)
  /\ MayRecord(r, "failed")
  /\ UNCHANGED <<delivery, writer, source, read, facts, completed, manifest,
                 written, raced, doubtful>>

\* The worker dies, or the broker interrupts the thread, at any point up to
\* the acknowledgement: the lock goes with it, an open transaction rolls back
\* and the unacknowledged message is delivered again.
Interrupt(r) ==
  /\ "interrupt" \in Faults
  /\ pc[r] \in Active
  /\ Lose(r)
  /\ writer' = IF writer = r THEN NoRun ELSE writer
  /\ UNCHANGED <<delivery, source, read, facts, buildRun, completed, manifest,
                 written, raced, doubtful>>

\* Mutant: append_many_atomic is given the completed record first.
InterruptPublishSwapped(r) ==
  /\ "interrupt" \in Faults
  /\ pc[r] = "publishing"
  /\ Lose(r)
  /\ completed' = Append(completed, BuildOf(r))
  /\ UNCHANGED <<delivery, writer, source, read, facts, buildRun, manifest,
                 written, raced, doubtful>>

\* The worker dies between the two lines of append_many_atomic (JSONL mode).
InterruptPublish(r) ==
  /\ "interrupt" \in Faults
  /\ pc[r] = "publishing"
  /\ Lose(r)
  /\ manifest' = Append(manifest, BuildOf(r))
  /\ UNCHANGED <<delivery, writer, source, read, facts, buildRun, completed,
                 written, raced, doubtful>>

\* The handler returned: the message is gone.
Acknowledge(r) ==
  /\ Goto(r, "done", "dead")
  /\ UNCHANGED <<delivery, writer, source, read, facts, buildRun, completed,
                 manifest, written, raced, doubtful>>

Handler(r) ==
  \/ AppendQueued(r) \/ AppendRunning(r) \/ AppendRaises(r)
  \/ AcquireWriterLock(r) \/ LockTimeout(r)
  \/ Execute(r) \/ ExecuteFails(r)
  \/ WriteFacts(r) \/ WriteFails(r) \/ ReleaseWriterLock(r)
  \/ Publish(r) \/ PublishFails(r) \/ PublishInDoubt(r)
  \/ AppendFailed(r) \/ AppendFailedRaises(r) \/ Acknowledge(r)

Next ==
  \/ ChangeSource
  \/ \E r \in Run : Deliver(r) \/ Handler(r) \/ Interrupt(r) \/ InterruptPublish(r)

Spec == Init /\ [][Next]_vars

\* Worker threads run and the broker delivers what is queued.
FairSpec == Spec /\ \A r \in Run : WF_vars(Deliver(r)) /\ WF_vars(Handler(r))
-----------------------------------------------------------------------------
\* Mutant: the records are scanned from the oldest.
FirstCompleted(c) ==
  completed[CHOOSE i \in 1 .. Len(completed) :
              /\ CellOf[completed[i].run] = c
              /\ \A j \in 1 .. i - 1 : CellOf[completed[j].run] # c]

\* GovernanceRepository.read_latest_completed_run, which certifies the facts of
\* a cell: the last completed record of the cell.
LatestCompleted(c) ==
  completed[CHOOSE i \in 1 .. Len(completed) :
              /\ CellOf[completed[i].run] = c
              /\ \A j \in i + 1 .. Len(completed) : CellOf[completed[j].run] # c]

LastStatus(r) ==
  IF buildRun[r] = <<>> THEN "none" ELSE buildRun[r][Len(buildRun[r])].status

(***************************************************************************)
(* Properties                                                              *)
(***************************************************************************)
\* Every variable keeps its type; deliveries and versions stay in their bounds.
TypeOK ==
  /\ pc \in [Run -> Place]
  /\ delivery \in [Run -> Delivery] /\ \A r \in Run : delivery[r] <= MaxDeliveries[r]
  /\ writer \in Run \cup {NoRun}
  /\ source \in Version
  /\ read \in [Run -> Version]
  /\ facts \in [Cell -> Build \cup {NoFacts}]
  /\ buildRun \in [Run -> Seq([delivery : Delivery, status : Status])]
  /\ completed \in Seq(Build)
  /\ manifest \in Seq(Build)
  /\ written \subseteq Build
  /\ raced \subseteq Cell
  /\ doubtful \subseteq Build

\* The materializations of different runs never overlap: whoever is between
\* acquire_lock and its release is the one writer of the DuckDB file.
WriterExclusion == \A r \in Run : pc[r] \in Critical => writer = r

\* A manifest never describes facts that were not committed, with the version
\* that was read for them (run_formal_materialize publishes after the write).
ManifestOfCommittedFacts == Entries(manifest) \subseteq written

\* A completed record, too, is only of committed facts.
CompletedOfCommittedFacts == Entries(completed) \subseteq written

\* A completed record has its manifest: a worker that dies in the middle of
\* append_many_atomic may leave a manifest alone, never a completed record.
\* Only a batch whose rollback failed may keep its second entry without its first.
CompletedHasManifest == Entries(completed) \ doubtful \subseteq Entries(manifest)

\* What readers find published was committed, with the version it was built
\* from, also where the publication raised without being undone; and unless it
\* did, a completed record never stands without its manifest.
PublishedIsCommitted ==
  ManifestOfCommittedFacts /\ CompletedOfCommittedFacts /\ CompletedHasManifest

Published == Entries(manifest) \cup Entries(completed)

\* No half-finished manifest: a delivery recorded as failed has published
\* neither manifest nor completed record (CACHE_SPEC, "single flight"), whatever
\* was redelivered afterwards, unless append_many_atomic itself was left in doubt.
FailedPublishesNothingUnlessDoubtful ==
  \A r \in Run : \A e \in Entries(buildRun[r]) :
    e.status = "failed" =>
      \A b \in Published \ doubtful : b.run = r => b.delivery # e.delivery

\* As long as no two builds of a cell overlapped, the lineage that readers
\* certify the cell's facts with is the one of the facts, once published.
LineageMatchesUnlessRaced ==
  \A c \in Cell \ raced :
    facts[c] \in Entries(completed) => LatestCompleted(c) = facts[c]

\* Every run the handler began to record reaches a terminal record, whatever
\* failed on the way, unless its last delivery was interrupted or could not be
\* recorded at all: no other path of run_formal_materialize returns without one.
RunsTerminateUnlessLost ==
  \A r \in Run :
    LastStatus(r) \in {"queued", "running"}
      ~> LastStatus(r) \in {"completed", "failed"} \/ pc[r] = "lost"

\* What the tests of the balance analysis task state of a run nothing fails:
\* it completes.
EveryRunCompletes == \A r \in Run : <>(LastStatus(r) = "completed")
=============================================================================
