----------------------- MODULE FormalMaterializeProofs -----------------------
(***************************************************************************)
(* Proofs about FormalMaterialize for every set of runs and cells, every   *)
(* bound and every set of faults.                                          *)
(***************************************************************************)
EXTENDS FormalMaterialize, TLAPS

Record0 == [delivery : Delivery, status : Status]

\* The entries of a log after an append: the old ones and the new one.
LEMMA EntriesAppend ==
  ASSUME NEW S, NEW s \in Seq(S), NEW e \in S
  PROVE  Entries(Append(s, e)) = Entries(s) \cup {e}
<1>1. Len(Append(s, e)) = Len(s) + 1 /\ Len(s) \in Nat
  OBVIOUS
<1>2. \A i \in 1 .. Len(s) : Append(s, e)[i] = s[i]
  OBVIOUS
<1>3. Append(s, e)[Len(s) + 1] = e
  OBVIOUS
<1>4. \A i \in 1 .. Len(s) + 1 : i \in 1 .. Len(s) \/ i = Len(s) + 1
  BY <1>1
<1>. QED
  BY <1>1, <1>2, <1>3, <1>4 DEF Entries

LEMMA EntriesType ==
  ASSUME NEW S, NEW s \in Seq(S)
  PROVE  Entries(s) \subseteq S
BY DEF Entries

\* What the step of a run leaves alone: the other runs, and the bounds of what
\* it records.
LEMMA BuildType ==
  ASSUME TypeOK, NEW r \in Run
  PROVE  BuildOf(r) \in Build /\ CellOf[r] \in Cell
BY CellAssumption DEF TypeOK, BuildOf, Build

LEMMA RecordType ==
  ASSUME TypeOK, NEW r \in Run, NEW st \in Status, Record(r, st)
  PROVE  buildRun' \in [Run -> Seq(Record0)]
<1>1. [delivery |-> delivery[r], status |-> st] \in Record0
  BY DEF TypeOK, Record0
<1>2. buildRun \in [Run -> Seq(Record0)]
  BY DEF TypeOK, Record0
<1>3. Append(buildRun[r], [delivery |-> delivery[r], status |-> st]) \in Seq(Record0)
  BY <1>1, <1>2
<1>. QED
  BY <1>2, <1>3 DEF Record

\* An append that raises may have left its record.
LEMMA MayRecordType ==
  ASSUME TypeOK, NEW r \in Run, NEW st \in Status, MayRecord(r, st)
  PROVE  buildRun' \in [Run -> Seq(Record0)]
BY RecordType DEF MayRecord, TypeOK, Record0

LEMMA RaiseType ==
  ASSUME TypeOK, NEW r \in Run, Raise(r) \/ Lose(r)
  PROVE  pc' \in [Run -> Place]
BY DEF TypeOK, Raise, Lose, Place, Active

-----------------------------------------------------------------------------
\* The initial state is well typed.
LEMMA InitType == Init => TypeOK
BY BoundAssumption DEF Init, TypeOK, Place, Active, Delivery, Version, Build

\* Every step keeps the types.
LEMMA StepType ==
  ASSUME TypeOK, [Next]_vars
  PROVE  TypeOK'
<1>. USE DEF Place, Active, Building, Critical
<1>1. CASE UNCHANGED vars
  BY <1>1 DEF TypeOK, vars
<1>2. CASE ChangeSource
  <2>1. source' \in Version
    BY <1>2, BoundAssumption DEF TypeOK, ChangeSource, Version
  <2>. QED
    BY <1>2, <2>1 DEF TypeOK, ChangeSource
<1>3. ASSUME NEW r \in Run, Deliver(r)
      PROVE  TypeOK'
  <2>1. delivery' \in [Run -> Delivery] /\ \A q \in Run : delivery'[q] <= MaxDeliveries[q]
    <3>1. delivery[r] \in Nat /\ MaxDeliveries[r] \in Nat /\ delivery[r] < MaxDeliveries[r]
      BY <1>3, BoundAssumption DEF TypeOK, Deliver, Delivery
    <3>2. delivery[r] + 1 \in Delivery /\ delivery[r] + 1 <= MaxDeliveries[r]
      BY <3>1 DEF Delivery
    <3>. QED
      BY <1>3, <3>2 DEF TypeOK, Deliver
  <2>. QED
    BY <1>3, <2>1 DEF TypeOK, Deliver, Goto
<1>4. ASSUME NEW r \in Run, AppendQueued(r)
      PROVE  TypeOK'
  <2>1. buildRun' \in [Run -> Seq(Record0)]
    BY <1>4, RecordType DEF AppendQueued, Status
  <2>. QED
    BY <1>4, <2>1 DEF TypeOK, AppendQueued, Goto, Record0
<1>5. ASSUME NEW r \in Run, AppendRunning(r)
      PROVE  TypeOK'
  <2>1. buildRun' \in [Run -> Seq(Record0)]
    BY <1>5, RecordType DEF AppendRunning, Status
  <2>. QED
    BY <1>5, <2>1 DEF TypeOK, AppendRunning, Goto, Record0
<1>6. ASSUME NEW r \in Run, AppendRaises(r) \/ AppendFailedRaises(r)
      PROVE  TypeOK'
  <2>1. PICK st \in Status : MayRecord(r, st)
    BY <1>6 DEF AppendRaises, AppendFailedRaises, Status
  <2>2. buildRun' \in [Run -> Seq(Record0)] /\ pc' \in [Run -> Place]
    BY <1>6, <2>1, MayRecordType, RaiseType DEF AppendRaises, AppendFailedRaises
  <2>3. UNCHANGED <<delivery, writer, source, read, facts, completed, manifest, written,
                    raced, doubtful>>
    BY <1>6 DEF AppendRaises, AppendFailedRaises
  <2>. QED
    BY <2>2, <2>3 DEF TypeOK, Record0
<1>7. ASSUME NEW r \in Run, AcquireWriterLock(r)
      PROVE  TypeOK'
  BY <1>7, CellAssumption DEF TypeOK, AcquireWriterLock, Goto
<1>8. ASSUME NEW r \in Run, LockTimeout(r) \/ PublishFails(r) \/ Acknowledge(r)
      PROVE  TypeOK'
  BY <1>8 DEF TypeOK, LockTimeout, PublishFails, Acknowledge, Goto
<1>9. ASSUME NEW r \in Run, Execute(r)
      PROVE  TypeOK'
  BY <1>9 DEF TypeOK, Execute, Goto
<1>10. ASSUME NEW r \in Run,
              ExecuteFails(r) \/ WriteFails(r) \/ ReleaseWriterLock(r)
       PROVE  TypeOK'
  BY <1>10 DEF TypeOK, ExecuteFails, WriteFails, ReleaseWriterLock, Goto
<1>11. ASSUME NEW r \in Run, WriteFacts(r)
       PROVE  TypeOK'
  BY <1>11, BuildType DEF TypeOK, WriteFacts, Goto
<1>12. ASSUME NEW r \in Run, Publish(r)
       PROVE  TypeOK'
  <2>1. buildRun' \in [Run -> Seq(Record0)]
    BY <1>12, RecordType DEF Publish, Status
  <2>2. completed' \in Seq(Build) /\ manifest' \in Seq(Build)
    <3>1. BuildOf(r) \in Build
      BY BuildType
    <3>2. completed \in Seq(Build) /\ manifest \in Seq(Build)
      BY DEF TypeOK
    <3>3. completed' = Append(completed, BuildOf(r)) /\ manifest' = Append(manifest, BuildOf(r))
      BY <1>12 DEF Publish
    <3>. QED
      BY <3>1, <3>2, <3>3
  <2>3. pc' \in [Run -> Place]
    BY <1>12 DEF TypeOK, Publish, Goto
  <2>4. UNCHANGED <<delivery, writer, source, read, facts, written, raced, doubtful>>
    BY <1>12 DEF Publish
  <2>. QED
    BY <2>1, <2>2, <2>3, <2>4 DEF TypeOK, Record0
<1>13. ASSUME NEW r \in Run, AppendFailed(r)
       PROVE  TypeOK'
  <2>1. buildRun' \in [Run -> Seq(Record0)]
    BY <1>13, RecordType DEF AppendFailed, Status
  <2>. QED
    BY <1>13, <2>1, RaiseType DEF TypeOK, AppendFailed, Record0
<1>14. ASSUME NEW r \in Run, Interrupt(r)
       PROVE  TypeOK'
  BY <1>14, RaiseType DEF TypeOK, Interrupt
<1>15. ASSUME NEW r \in Run, InterruptPublish(r)
       PROVE  TypeOK'
  <2>1. manifest' \in Seq(Build)
    <3>1. BuildOf(r) \in Build
      BY BuildType
    <3>2. manifest \in Seq(Build) /\ manifest' = Append(manifest, BuildOf(r))
      BY <1>15 DEF TypeOK, InterruptPublish
    <3>. QED
      BY <3>1, <3>2
  <2>2. pc' \in [Run -> Place]
    BY <1>15, RaiseType DEF InterruptPublish
  <2>3. UNCHANGED <<delivery, writer, source, read, facts, buildRun, completed,
                    written, raced, doubtful>>
    BY <1>15 DEF InterruptPublish
  <2>. QED
    BY <2>1, <2>2, <2>3 DEF TypeOK
<1>16. ASSUME NEW r \in Run, PublishInDoubt(r)
       PROVE  TypeOK'
  <2>1. BuildOf(r) \in Build /\ completed \in Seq(Build) /\ manifest \in Seq(Build)
    BY BuildType DEF TypeOK
  <2>2. /\ completed' \in {completed, Append(completed, BuildOf(r))}
        /\ manifest' \in {manifest, Append(manifest, BuildOf(r))}
        /\ doubtful' = doubtful \cup {BuildOf(r)}
    BY <1>16 DEF PublishInDoubt
  <2>3. buildRun' \in [Run -> Seq(Record0)]
    <3>1. CASE Record(r, "completed")
      BY <3>1, RecordType DEF Status
    <3>. QED
      BY <1>16, <3>1 DEF PublishInDoubt, TypeOK, Record0
  <2>4. completed' \in Seq(Build) /\ manifest' \in Seq(Build) /\ doubtful' \subseteq Build
    <3>1. Append(completed, BuildOf(r)) \in Seq(Build) /\ Append(manifest, BuildOf(r)) \in Seq(Build)
      BY <2>1
    <3>2. doubtful' \subseteq Build
      BY <2>1, <2>2 DEF TypeOK
    <3>. QED
      BY <2>1, <2>2, <3>1, <3>2
  <2>5. pc' \in [Run -> Place]
    BY <1>16 DEF TypeOK, PublishInDoubt, Goto
  <2>6. UNCHANGED <<delivery, writer, source, read, facts, written, raced>>
    BY <1>16 DEF PublishInDoubt
  <2>. QED
    BY <2>3, <2>4, <2>5, <2>6 DEF TypeOK, Record0
<1>. QED
  BY <1>1, <1>2, <1>3, <1>4, <1>5, <1>6, <1>7, <1>8, <1>9, <1>10, <1>11, <1>12,
     <1>13, <1>14, <1>15, <1>16 DEF Next, Handler

\* FormalMaterialize keeps its types.
THEOREM TypeCorrect == Spec => []TypeOK
<1>1. Init => TypeOK
  BY InitType
<1>2. TypeOK /\ [Next]_vars => TypeOK'
  BY StepType
<1>. QED
  BY <1>1, <1>2, PTL DEF Spec
-----------------------------------------------------------------------------
\* The steps that touch neither the writer lock nor, but for one run outside its
\* critical section, any place.
Outside(r) ==
  \/ Deliver(r) \/ AppendQueued(r) \/ AppendRunning(r) \/ AppendRaises(r)
  \/ LockTimeout(r) \/ Publish(r) \/ PublishFails(r) \/ AppendFailed(r)
  \/ AppendFailedRaises(r) \/ Acknowledge(r) \/ InterruptPublish(r)
  \/ PublishInDoubt(r)

\* The steps at which a run leaves its critical section by giving the lock back.
Leave(r) ==
  \/ ExecuteFails(r) \/ WriteFails(r) \/ ReleaseWriterLock(r)

LEMMA ExclusionStep ==
  ASSUME TypeOK, WriterExclusion, [Next]_vars
  PROVE  WriterExclusion'
<1>. USE DEF TypeOK, WriterExclusion, Critical
<1>1. CASE UNCHANGED vars \/ ChangeSource
  BY <1>1 DEF vars, ChangeSource
<1>2. ASSUME NEW r \in Run, Outside(r)
      PROVE  WriterExclusion'
  <2>1. writer' = writer /\ pc'[r] \notin Critical
        /\ (\A q \in Run \ {r} : pc'[q] = pc[q])
    BY <1>2 DEF Outside, Deliver, AppendQueued, AppendRunning, AppendRaises,
         LockTimeout, Publish, PublishFails, AppendFailed, AppendFailedRaises,
         Acknowledge, InterruptPublish, PublishInDoubt, Goto, Raise, Lose
  <2>. QED
    BY <2>1
<1>3. ASSUME NEW r \in Run, AcquireWriterLock(r)
      PROVE  WriterExclusion'
  BY <1>3, NoRunAssumption DEF AcquireWriterLock, Goto
<1>4. ASSUME NEW r \in Run, Execute(r) \/ WriteFacts(r)
      PROVE  WriterExclusion'
  BY <1>4 DEF Execute, WriteFacts, Goto
<1>5. ASSUME NEW r \in Run, Leave(r)
      PROVE  WriterExclusion'
  \* The run that leaves held the lock, so no other run is inside.
  <2>1. pc[r] \in Critical /\ pc'[r] \notin Critical
        /\ (\A q \in Run \ {r} : pc'[q] = pc[q])
    BY <1>5 DEF Leave, ExecuteFails, WriteFails, ReleaseWriterLock, Goto
  <2>. QED
    BY <2>1
<1>6. ASSUME NEW r \in Run, Interrupt(r)
      PROVE  WriterExclusion'
  <2>1. pc'[r] \notin Critical /\ \A q \in Run \ {r} : pc'[q] = pc[q]
    BY <1>6 DEF Interrupt, Raise, Lose
  <2>2. writer' = IF writer = r THEN NoRun ELSE writer
    BY <1>6 DEF Interrupt
  <2>. QED
    BY <2>1, <2>2
<1>. QED
  BY <1>1, <1>2, <1>3, <1>4, <1>5, <1>6 DEF Next, Handler, Outside, Leave

\* Whoever materializes holds the writer lock of the DuckDB file, in every
\* instance: the `with acquire_lock` of run_formal_materialize excludes every
\* other run, also when runs fail, time out or die inside it.
THEOREM WriterExclusionHolds == Spec => []WriterExclusion
<1>1. Init => WriterExclusion
  BY DEF Init, WriterExclusion, Critical
<1>2. TypeOK /\ WriterExclusion /\ [Next]_vars => WriterExclusion'
  BY ExclusionStep
<1>. QED
  BY <1>1, <1>2, TypeCorrect, PTL DEF Spec

-----------------------------------------------------------------------------
\* What publication rests on: a run that has written and not yet published
\* still carries the build it committed.
CommittedBeforePublished ==
  \A r \in Run : pc[r] \in {"written", "publishing"} => BuildOf(r) \in written

PublicationInv ==
  /\ CommittedBeforePublished
  /\ ManifestOfCommittedFacts
  /\ CompletedOfCommittedFacts
  /\ CompletedHasManifest

\* The steps that write no fact, publish nothing and do not reach the places
\* between the write and the publication.
Quiet(r) ==
  \/ Deliver(r) \/ AppendQueued(r) \/ AppendRunning(r) \/ AppendRaises(r)
  \/ AcquireWriterLock(r) \/ LockTimeout(r) \/ Execute(r)
  \/ ExecuteFails(r) \/ WriteFails(r) \/ PublishFails(r) \/ AppendFailed(r)
  \/ AppendFailedRaises(r) \/ Acknowledge(r) \/ Interrupt(r)

LEMMA PublicationStep ==
  ASSUME TypeOK, PublicationInv, [Next]_vars
  PROVE  PublicationInv'
<1>. USE DEF PublicationInv, CommittedBeforePublished, ManifestOfCommittedFacts,
         CompletedOfCommittedFacts, CompletedHasManifest
<1>0. \A r \in Run : BuildOf(r) \in Build
  BY BuildType
<1>1. CASE UNCHANGED vars \/ ChangeSource
  <2>1. UNCHANGED <<pc, delivery, read, completed, manifest, written, doubtful>>
    BY <1>1 DEF vars, ChangeSource
  <2>. QED
    BY <2>1 DEF BuildOf, Entries
<1>2. ASSUME NEW r \in Run, Quiet(r)
      PROVE  PublicationInv'
  <2>1. UNCHANGED <<completed, manifest, written, doubtful>>
    BY <1>2 DEF Quiet, Deliver, AppendQueued, AppendRunning, AppendRaises,
         AcquireWriterLock, LockTimeout, Execute, ExecuteFails,
         WriteFails, PublishFails, AppendFailed, AppendFailedRaises, Acknowledge, Interrupt
  <2>2. pc'[r] \notin {"written", "publishing"}
        /\ \A q \in Run \ {r} : pc'[q] = pc[q] /\ BuildOf(q)' = BuildOf(q)
    BY <1>2 DEF Quiet, Deliver, AppendQueued, AppendRunning, AppendRaises,
         AcquireWriterLock, LockTimeout, Execute, ExecuteFails,
         WriteFails, PublishFails, AppendFailed, AppendFailedRaises, Acknowledge,
         Interrupt, Goto, Raise, Lose, TypeOK, BuildOf
  <2>. QED
    BY <2>1, <2>2 DEF Entries
<1>3. ASSUME NEW r \in Run, WriteFacts(r)
      PROVE  PublicationInv'
  <2>1. UNCHANGED <<completed, manifest, doubtful>> /\ written' = written \cup {BuildOf(r)}
        /\ (\A q \in Run : BuildOf(q)' = BuildOf(q))
        /\ (\A q \in Run \ {r} : pc'[q] = pc[q])
    BY <1>3 DEF WriteFacts, Goto, TypeOK, BuildOf
  <2>. QED
    BY <2>1 DEF Entries
<1>4. ASSUME NEW r \in Run, ReleaseWriterLock(r)
      PROVE  PublicationInv'
  <2>1. UNCHANGED <<completed, manifest, written, doubtful>> /\ pc[r] = "written"
        /\ (\A q \in Run : BuildOf(q)' = BuildOf(q))
        /\ (\A q \in Run \ {r} : pc'[q] = pc[q])
    BY <1>4 DEF ReleaseWriterLock, Goto, TypeOK, BuildOf
  <2>. QED
    BY <2>1 DEF Entries
<1>5. ASSUME NEW r \in Run, Publish(r) \/ InterruptPublish(r) \/ PublishInDoubt(r)
      PROVE  PublicationInv'
  \* What is published is a build the run has committed.
  <2>1. written' = written /\ pc[r] = "publishing"
        /\ pc'[r] \notin {"written", "publishing"}
        /\ (\A q \in Run : BuildOf(q)' = BuildOf(q))
        /\ (\A q \in Run \ {r} : pc'[q] = pc[q])
    BY <1>5 DEF Publish, InterruptPublish, PublishInDoubt, Goto, Raise, Lose, TypeOK, BuildOf
  <2>2. BuildOf(r) \in Build /\ manifest \in Seq(Build) /\ completed \in Seq(Build)
    BY <1>0 DEF TypeOK
  <2>3. /\ Entries(manifest)' = Entries(manifest')
        /\ Entries(completed)' = Entries(completed')
        /\ Entries(Append(manifest, BuildOf(r))) = Entries(manifest) \cup {BuildOf(r)}
        /\ Entries(Append(completed, BuildOf(r))) = Entries(completed) \cup {BuildOf(r)}
    <3>1. Entries(manifest)' = Entries(manifest') /\ Entries(completed)' = Entries(completed')
      BY DEF Entries
    <3>. QED
      BY <2>2, <3>1, EntriesAppend
  \* Either the completed record comes with its manifest, or the build is in doubt.
  <2>4. \/ /\ manifest' = Append(manifest, BuildOf(r))
           /\ completed' \in {completed, Append(completed, BuildOf(r))}
           /\ doubtful' = doubtful
        \/ /\ manifest' \in {manifest, Append(manifest, BuildOf(r))}
           /\ completed' \in {completed, Append(completed, BuildOf(r))}
           /\ doubtful' = doubtful \cup {BuildOf(r)}
    BY <1>5 DEF Publish, InterruptPublish, PublishInDoubt
  <2>5. /\ Entries(manifest)' \in {Entries(manifest), Entries(manifest) \cup {BuildOf(r)}}
        /\ Entries(completed)' \in {Entries(completed), Entries(completed) \cup {BuildOf(r)}}
        /\ doubtful \subseteq doubtful'
        /\ BuildOf(r) \in Entries(manifest)' \/ BuildOf(r) \in doubtful'
    BY <2>3, <2>4
  <2>. QED
    BY <2>1, <2>5
<1>. QED
  BY <1>1, <1>2, <1>3, <1>4, <1>5 DEF Next, Handler, Quiet

\* The publication invariant holds from the empty logs on.
LEMMA PublicationHolds == Spec => []PublicationInv
<1>1. Init => PublicationInv
  BY DEF Init, PublicationInv, CommittedBeforePublished, ManifestOfCommittedFacts,
     CompletedOfCommittedFacts, CompletedHasManifest, Entries
<1>2. TypeOK /\ PublicationInv /\ [Next]_vars => PublicationInv'
  BY PublicationStep
<1>. QED
  BY <1>1, <1>2, TypeCorrect, PTL DEF Spec

\* Whatever is published was committed before, with the version it was built
\* from, and unless its publication was left in doubt a completed record never
\* stands without its manifest, for every number of runs, retries, faults and
\* interruptions.
THEOREM PublishedHolds == Spec => []PublishedIsCommitted
<1>1. PublicationInv => PublishedIsCommitted
  BY DEF PublicationInv, PublishedIsCommitted
<1>. QED
  BY <1>1, PublicationHolds, PTL

-----------------------------------------------------------------------------
\* What is published is of past deliveries, or of the one in progress once it is
\* past publication.
PublishedDeliveries ==
  \A b \in Published :
    /\ b.delivery <= delivery[b.run]
    /\ b.delivery = delivery[b.run] =>
         \/ pc[b.run] \in {"done", "waiting", "dead", "lost"}
         \/ pc[b.run] = "failing" /\ b \in doubtful

\* Failures are of past deliveries, or of the one that was just given up.
FailedDeliveries ==
  \A r \in Run : \A e \in Entries(buildRun[r]) :
    /\ e.delivery <= delivery[r]
    /\ (e.status = "failed" /\ e.delivery = delivery[r]) => pc[r] \in {"waiting", "dead", "lost"}

FailureInv == PublishedDeliveries /\ FailedDeliveries /\ FailedPublishesNothingUnlessDoubtful

\* The steps that append neither a manifest nor a record and start no delivery.
Unrecorded(r) ==
  \/ AcquireWriterLock(r) \/ LockTimeout(r) \/ Execute(r)
  \/ ExecuteFails(r) \/ WriteFacts(r) \/ WriteFails(r)
  \/ ReleaseWriterLock(r) \/ PublishFails(r)
  \/ Acknowledge(r) \/ Interrupt(r)

\* The steps that record a status of a delivery that publishes nothing.
Recording(r) ==
  \/ AppendQueued(r) \/ AppendRunning(r) \/ AppendRaises(r)
  \/ AppendFailed(r) \/ AppendFailedRaises(r)

Publishing(r) == Publish(r) \/ InterruptPublish(r) \/ PublishInDoubt(r)

\* What a record adds to the log of its run, and to no other.
LEMMA RecordEntries ==
  ASSUME TypeOK, NEW r \in Run, NEW st \in Status, Record(r, st)
  PROVE  /\ Entries(buildRun'[r])
              = Entries(buildRun[r]) \cup {[delivery |-> delivery[r], status |-> st]}
         /\ \A q \in Run \ {r} : buildRun'[q] = buildRun[q]
<1>1. buildRun \in [Run -> Seq(Record0)] /\ [delivery |-> delivery[r], status |-> st] \in Record0
  BY DEF TypeOK, Record0
<1>2. buildRun'[r] = Append(buildRun[r], [delivery |-> delivery[r], status |-> st])
      /\ \A q \in Run \ {r} : buildRun'[q] = buildRun[q]
  BY <1>1 DEF Record
<1>3. buildRun[r] \in Seq(Record0)
  BY <1>1
<1>4. Entries(Append(buildRun[r], [delivery |-> delivery[r], status |-> st]))
        = Entries(buildRun[r]) \cup {[delivery |-> delivery[r], status |-> st]}
  BY <1>1, <1>3, EntriesAppend
<1>. QED
  BY <1>2, <1>4

\* The three parts of FailureInv, each from what a step may add to the logs.
LEMMA FailureStep ==
  ASSUME TypeOK, FailureInv, [Next]_vars
  PROVE  FailureInv'
<1>1. /\ delivery \in [Run -> Nat] /\ pc \in [Run -> Place]
      /\ \A q \in Run : delivery[q] \in Nat /\ delivery[q] <= delivery[q]
  BY DEF TypeOK, Delivery
<1>2. \A b \in Published : b.run \in Run /\ b.delivery \in Nat
  <2>1. Entries(manifest) \subseteq Build /\ Entries(completed) \subseteq Build
    BY EntriesType DEF TypeOK
  <2>. QED
    BY <2>1 DEF Build, Delivery, Published
<1>3. \A r \in Run : \A e \in Entries(buildRun[r]) : e.delivery \in Nat
  <2>1. ASSUME NEW r \in Run
        PROVE  Entries(buildRun[r]) \subseteq Record0
    <3>1. buildRun[r] \in Seq(Record0)
      BY DEF TypeOK, Record0
    <3>. QED
      BY <3>1, EntriesType
  <2>. QED
    BY <2>1 DEF Record0, Delivery
<1>4. /\ Published' = Entries(manifest') \cup Entries(completed')
      /\ \A q \in Run : Entries(buildRun[q])' = Entries(buildRun'[q])
  BY DEF Entries, Published
<1>5. CASE UNCHANGED vars \/ ChangeSource
  <2>1. UNCHANGED <<pc, delivery, manifest, completed, buildRun, doubtful>>
    BY <1>5 DEF vars, ChangeSource
  <2>. QED
    BY <2>1 DEF FailureInv, PublishedDeliveries, FailedDeliveries,
         FailedPublishesNothingUnlessDoubtful, Published, Entries
<1>6. ASSUME NEW r \in Run, Unrecorded(r)
      PROVE  FailureInv'
  <2>1. UNCHANGED <<delivery, manifest, completed, buildRun, doubtful>>
    BY <1>6 DEF Unrecorded, AcquireWriterLock, LockTimeout, Execute,
         ExecuteFails, WriteFacts, WriteFails, ReleaseWriterLock,
         PublishFails, Acknowledge, Interrupt
  <2>2. /\ pc[r] \in {"failing", "done"} => pc'[r] \in {"waiting", "dead", "lost"}
        /\ pc[r] \notin {"waiting", "dead", "lost"}
        /\ (\A q \in Run \ {r} : pc'[q] = pc[q])
    BY <1>6 DEF Unrecorded, AcquireWriterLock, LockTimeout, Execute,
         ExecuteFails, WriteFacts, WriteFails, ReleaseWriterLock,
         PublishFails, Acknowledge, Interrupt, Goto, Raise, Lose, TypeOK,
         Active, Building, Critical
  <2>3. Published' = Published /\ \A q \in Run : Entries(buildRun[q])' = Entries(buildRun[q])
    BY <2>1 DEF Published, Entries
  <2>4. PublishedDeliveries'
    BY <1>2, <2>1, <2>2, <2>3 DEF FailureInv, PublishedDeliveries
  <2>5. FailedDeliveries'
    BY <2>1, <2>2, <2>3 DEF FailureInv, FailedDeliveries
  <2>6. FailedPublishesNothingUnlessDoubtful'
    BY <2>1, <2>3 DEF FailureInv, FailedPublishesNothingUnlessDoubtful
  <2>. QED
    BY <2>4, <2>5, <2>6 DEF FailureInv
<1>7. ASSUME NEW r \in Run, Deliver(r)
      PROVE  FailureInv'
  \* Everything recorded so far belongs to an earlier delivery of the run.
  <2>1. UNCHANGED <<manifest, completed, buildRun, doubtful>> /\ delivery'[r] = delivery[r] + 1
        /\ \A q \in Run \ {r} : pc'[q] = pc[q] /\ delivery'[q] = delivery[q]
    BY <1>1, <1>7 DEF Deliver, Goto
  <2>2. delivery[r] \in Nat /\ delivery'[r] \in Nat
    BY <1>1, <2>1
  <2>3. Published' = Published /\ \A q \in Run : Entries(buildRun[q])' = Entries(buildRun[q])
    BY <2>1 DEF Published, Entries
  <2>4. PublishedDeliveries'
    <3>1. ASSUME NEW b \in Published
          PROVE  /\ b.delivery <= delivery'[b.run]
                 /\ b.delivery = delivery'[b.run] =>
                      \/ pc'[b.run] \in {"done", "waiting", "dead", "lost"}
                      \/ pc'[b.run] = "failing" /\ b \in doubtful
      <4>1. CASE b.run = r
        BY <1>2, <2>1, <2>2, <4>1 DEF FailureInv, PublishedDeliveries
      <4>2. CASE b.run # r
        BY <1>2, <2>1, <4>2 DEF FailureInv, PublishedDeliveries
      <4>. QED
        BY <4>1, <4>2
    <3>. QED
      BY <2>1, <2>3, <3>1 DEF PublishedDeliveries
  <2>5. FailedDeliveries'
    <3>1. ASSUME NEW q \in Run, NEW e \in Entries(buildRun[q])
          PROVE  /\ e.delivery <= delivery'[q]
                 /\ (e.status = "failed" /\ e.delivery = delivery'[q]) => pc'[q] \in {"waiting", "dead", "lost"}
      <4>1. CASE q = r
        BY <1>3, <2>1, <2>2, <4>1 DEF FailureInv, FailedDeliveries
      <4>2. CASE q # r
        BY <2>1, <4>2 DEF FailureInv, FailedDeliveries
      <4>. QED
        BY <4>1, <4>2
    <3>. QED
      BY <2>3, <3>1 DEF FailedDeliveries
  <2>6. FailedPublishesNothingUnlessDoubtful'
    BY <2>1, <2>3 DEF FailureInv, FailedPublishesNothingUnlessDoubtful
  <2>. QED
    BY <2>4, <2>5, <2>6 DEF FailureInv
<1>8. ASSUME NEW r \in Run, Recording(r)
      PROVE  FailureInv'
  \* What a failing run has published in this delivery is in doubt, and a run
  \* that has not come that far has published nothing in it.
  <2>1. PICK st \in {"queued", "running", "failed"} :
          /\ MayRecord(r, st) \/ Record(r, st)
          /\ st = "failed" => pc[r] = "failing" /\ pc'[r] \in {"waiting", "dead", "lost"}
          /\ st # "failed" => pc[r] \in {"start", "queued"}
    BY <1>1, <1>8 DEF Recording, AppendQueued, AppendRunning, AppendRaises, AppendFailed,
         AppendFailedRaises, Goto, Raise, Lose
  <2>2. UNCHANGED <<manifest, completed, delivery, doubtful>> /\ \A q \in Run \ {r} : pc'[q] = pc[q]
    BY <1>1, <1>8 DEF Recording, AppendQueued, AppendRunning, AppendRaises, AppendFailed,
         AppendFailedRaises, Goto, Raise, Lose
  <2>3. \A q \in Run : Entries(buildRun'[q])
          \subseteq Entries(buildRun[q])
                     \cup (IF q = r THEN {[delivery |-> delivery[r], status |-> st]} ELSE {})
    <3>1. CASE Record(r, st)
      BY <3>1, RecordEntries DEF Status
    <3>2. CASE UNCHANGED buildRun
      BY <3>2
    <3>. QED
      BY <2>1, <3>1, <3>2 DEF MayRecord
  <2>4. Published' = Published
    BY <2>2 DEF Published, Entries
  <2>5. \A b \in Published \ doubtful : b.run = r => b.delivery # delivery[r]
    BY <2>1 DEF FailureInv, PublishedDeliveries
  <2>6. PublishedDeliveries'
    <3>1. ASSUME NEW b \in Published
          PROVE  /\ b.delivery <= delivery[b.run]
                 /\ b.delivery = delivery[b.run] =>
                      \/ pc'[b.run] \in {"done", "waiting", "dead", "lost"}
                      \/ pc'[b.run] = "failing" /\ b \in doubtful
      <4>1. CASE b.run = r
        BY <2>1, <4>1 DEF FailureInv, PublishedDeliveries
      <4>2. CASE b.run # r
        BY <1>2, <2>2, <4>2 DEF FailureInv, PublishedDeliveries
      <4>. QED
        BY <4>1, <4>2
    <3>. QED
      BY <2>2, <2>4, <3>1 DEF PublishedDeliveries
  <2>7. FailedDeliveries'
    <3>1. ASSUME NEW q \in Run, NEW e \in Entries(buildRun'[q])
          PROVE  /\ e.delivery <= delivery[q]
                 /\ (e.status = "failed" /\ e.delivery = delivery[q]) => pc'[q] \in {"waiting", "dead", "lost"}
      <4>1. CASE q # r
        BY <2>2, <2>3, <4>1 DEF FailureInv, FailedDeliveries
      <4>2. CASE q = r /\ e \in Entries(buildRun[r])
        BY <2>1, <4>2 DEF FailureInv, FailedDeliveries
      <4>3. CASE q = r /\ e = [delivery |-> delivery[r], status |-> st]
        BY <1>1, <2>1, <4>3
      <4>. QED
        BY <2>3, <4>1, <4>2, <4>3
    <3>. QED
      BY <1>4, <2>2, <3>1 DEF FailedDeliveries
  <2>8. FailedPublishesNothingUnlessDoubtful'
    <3>1. ASSUME NEW q \in Run, NEW e \in Entries(buildRun'[q]), e.status = "failed",
                 NEW b \in Published \ doubtful, b.run = q
          PROVE  b.delivery # e.delivery
      <4>1. CASE e \in Entries(buildRun[q])
        BY <3>1, <4>1 DEF FailureInv, FailedPublishesNothingUnlessDoubtful
      <4>2. CASE q = r /\ e = [delivery |-> delivery[r], status |-> st]
        BY <2>5, <3>1, <4>2
      <4>. QED
        BY <2>3, <4>1, <4>2
    <3>. QED
      BY <1>4, <2>2, <2>4, <3>1 DEF FailedPublishesNothingUnlessDoubtful
  <2>. QED
    BY <2>6, <2>7, <2>8 DEF FailureInv
<1>9. ASSUME NEW r \in Run, Publishing(r)
       PROVE  FailureInv'
  \* A publishing run has not failed in this delivery.
  <2>1. /\ delivery' = delivery /\ pc[r] = "publishing"
        /\ \/ pc'[r] \in {"done", "waiting", "dead", "lost"} /\ doubtful' = doubtful
           \/ pc'[r] = "failing" /\ doubtful' = doubtful \cup {BuildOf(r)}
        /\ (\A q \in Run \ {r} : pc'[q] = pc[q])
    BY <1>1, <1>9 DEF Publishing, Publish, InterruptPublish, PublishInDoubt, Goto, Raise, Lose
  <2>2. Published' \subseteq Published \cup {BuildOf(r)}
    <3>1. BuildOf(r) \in Build /\ manifest \in Seq(Build) /\ completed \in Seq(Build)
      BY BuildType DEF TypeOK
    <3>2. /\ manifest' \in {manifest, Append(manifest, BuildOf(r))}
          /\ completed' \in {completed, Append(completed, BuildOf(r))}
      BY <1>9 DEF Publishing, Publish, InterruptPublish, PublishInDoubt
    <3>3. /\ Entries(Append(manifest, BuildOf(r))) = Entries(manifest) \cup {BuildOf(r)}
          /\ Entries(Append(completed, BuildOf(r))) = Entries(completed) \cup {BuildOf(r)}
      BY <3>1, EntriesAppend
    <3>. QED
      BY <1>4, <3>2, <3>3 DEF Published
  <2>3. \A e \in Entries(buildRun[r]) : e.status = "failed" => e.delivery # delivery[r]
    BY <2>1 DEF FailureInv, FailedDeliveries
  <2>4. \A q \in Run : Entries(buildRun'[q])
          \subseteq Entries(buildRun[q])
                     \cup (IF q = r THEN {[delivery |-> delivery[r], status |-> "completed"]} ELSE {})
    <3>1. CASE Record(r, "completed")
      BY <3>1, RecordEntries DEF Status
    <3>2. CASE UNCHANGED buildRun
      BY <3>2
    <3>. QED
      BY <1>9, <3>1, <3>2 DEF Publishing, Publish, InterruptPublish, PublishInDoubt
  <2>5. BuildOf(r).run = r /\ BuildOf(r).delivery = delivery[r]
    BY DEF BuildOf
  <2>6. PublishedDeliveries'
    <3>1. ASSUME NEW b \in Published'
          PROVE  /\ b.delivery <= delivery[b.run]
                 /\ b.delivery = delivery[b.run] =>
                      \/ pc'[b.run] \in {"done", "waiting", "dead", "lost"}
                      \/ pc'[b.run] = "failing" /\ b \in doubtful'
      <4>1. CASE b = BuildOf(r)
        BY <1>1, <2>1, <2>5, <4>1
      <4>2. CASE b \in Published /\ b.run = r
        BY <2>1, <4>2 DEF FailureInv, PublishedDeliveries
      <4>3. CASE b \in Published /\ b.run # r
        BY <1>2, <2>1, <4>3 DEF FailureInv, PublishedDeliveries
      <4>. QED
        BY <2>2, <4>1, <4>2, <4>3
    <3>. QED
      BY <2>1, <3>1 DEF PublishedDeliveries
  <2>7. FailedDeliveries'
    <3>1. ASSUME NEW q \in Run, NEW e \in Entries(buildRun'[q])
          PROVE  /\ e.delivery <= delivery[q]
                 /\ (e.status = "failed" /\ e.delivery = delivery[q]) => pc'[q] \in {"waiting", "dead", "lost"}
      <4>1. CASE q = r /\ e = [delivery |-> delivery[r], status |-> "completed"]
        BY <1>1, <4>1
      <4>2. CASE e \in Entries(buildRun[q])
        BY <2>1, <2>3, <4>2 DEF FailureInv, FailedDeliveries
      <4>. QED
        BY <2>4, <4>1, <4>2
    <3>. QED
      BY <1>4, <2>1, <3>1 DEF FailedDeliveries
  <2>8. FailedPublishesNothingUnlessDoubtful'
    <3>1. ASSUME NEW q \in Run, NEW e \in Entries(buildRun'[q]), e.status = "failed",
                 NEW b \in Published' \ doubtful', b.run = q
          PROVE  b.delivery # e.delivery
      <4>1. e \in Entries(buildRun[q])
        BY <2>4, <3>1
      <4>2. CASE b = BuildOf(r)
        BY <2>3, <2>5, <3>1, <4>1, <4>2
      <4>3. CASE b \in Published
        BY <2>1, <3>1, <4>1, <4>3 DEF FailureInv, FailedPublishesNothingUnlessDoubtful
      <4>. QED
        BY <2>2, <4>2, <4>3
    <3>. QED
      BY <1>4, <3>1 DEF FailedPublishesNothingUnlessDoubtful
  <2>. QED
    BY <2>6, <2>7, <2>8 DEF FailureInv
<1>. QED
  BY <1>5, <1>6, <1>7, <1>8, <1>9 DEF Next, Handler, Unrecorded, Recording, Publishing

\* No half-finished manifest, in every instance: a delivery recorded as failed
\* published nothing, whatever is retried, interrupted or lost, unless a failing
\* rollback or an unanswered commit left its publication in doubt.
THEOREM FailedPublishesNothingHolds == Spec => []FailedPublishesNothingUnlessDoubtful
<1>1. Init => FailureInv
  BY DEF Init, FailureInv, PublishedDeliveries, FailedDeliveries,
     FailedPublishesNothingUnlessDoubtful, Published, Entries
<1>2. TypeOK /\ FailureInv /\ [Next]_vars => FailureInv'
  BY FailureStep
<1>3. FailureInv => FailedPublishesNothingUnlessDoubtful
  BY DEF FailureInv
<1>. QED
  BY <1>1, <1>2, <1>3, TypeCorrect, PTL DEF Spec

-----------------------------------------------------------------------------
\* As long as no two builds of a cell overlap at most one run is building it,
\* the facts stay those that run has written until it publishes them, and no
\* record of the cell follows the one that published the facts.
OneBuilder ==
  \A q, r \in Run :
    ( /\ pc[q] \in Building /\ pc[r] \in Building
      /\ CellOf[q] = CellOf[r] /\ CellOf[r] \notin raced ) => q = r

FactsOfBuilder ==
  \A r \in Run :
    (pc[r] \in {"written", "publishing"} /\ CellOf[r] \notin raced)
      => facts[CellOf[r]] = BuildOf(r)

FactsOfCell == \A c \in Cell : facts[c] \in Build => CellOf[facts[c].run] = c

NoneAfter(c, i) ==
  \A j \in 1 .. Len(completed) : j > i => CellOf[completed[j].run] # c

LastPublished ==
  \A c \in Cell \ raced : facts[c] \in Entries(completed) =>
    \E i \in 1 .. Len(completed) : completed[i] = facts[c] /\ NoneAfter(c, i)

LineageInv == OneBuilder /\ FactsOfBuilder /\ FactsOfCell /\ LastPublished

\* The steps that leave facts and records alone, and after which the run is
\* building only if it was before, and has nothing of its own to publish.
Idle(r) ==
  \/ Deliver(r) \/ AppendQueued(r) \/ AppendRunning(r) \/ AppendRaises(r)
  \/ LockTimeout(r) \/ Execute(r) \/ ExecuteFails(r) \/ WriteFails(r)
  \/ PublishFails(r) \/ AppendFailed(r) \/ AppendFailedRaises(r) \/ Acknowledge(r)
  \/ Interrupt(r) \/ InterruptPublish(r)
  \/ PublishInDoubt(r) /\ UNCHANGED completed

\* The steps that append the completed record of a build.
Completing(r) ==
  \/ Publish(r)
  \/ PublishInDoubt(r) /\ completed' = Append(completed, BuildOf(r))

\* What a run builds now is not yet among the completed records.
LEMMA BuildIsNew ==
  ASSUME TypeOK, FailureInv, NEW r \in Run, pc[r] \in Building
  PROVE  BuildOf(r) \notin Entries(completed)
<1>1. pc[r] \notin {"failing", "done", "waiting", "dead", "lost"}
  BY DEF Building, Critical
<1>2. BuildOf(r).run = r /\ BuildOf(r).delivery = delivery[r]
  BY DEF BuildOf
<1>. QED
  BY <1>1, <1>2 DEF FailureInv, PublishedDeliveries, Published

LEMMA LineageStep ==
  ASSUME TypeOK, FailureInv, LineageInv, [Next]_vars
  PROVE  LineageInv'
<1>0. \A r \in Run : BuildOf(r) \in Build /\ BuildOf(r).run = r /\ CellOf[r] \in Cell
  BY BuildType DEF BuildOf
<1>1. CASE UNCHANGED vars \/ ChangeSource
  <2>1. UNCHANGED <<pc, delivery, read, facts, completed, raced>>
    BY <1>1 DEF vars, ChangeSource
  <2>. QED
    BY <2>1 DEF LineageInv, OneBuilder, FactsOfBuilder, FactsOfCell, LastPublished, NoneAfter,
         BuildOf, Entries
<1>2. ASSUME NEW r \in Run, Idle(r)
      PROVE  LineageInv'
  <2>1. UNCHANGED <<facts, completed, raced>>
    BY <1>2 DEF Idle, Deliver, AppendQueued, AppendRunning, AppendRaises, LockTimeout,
         Execute, ExecuteFails, WriteFails, PublishFails, AppendFailed,
         AppendFailedRaises, Acknowledge, Interrupt, InterruptPublish, PublishInDoubt
  <2>2. /\ pc'[r] \notin {"written", "publishing"}
        /\ pc'[r] \in Building => pc[r] \in Building
        /\ \A q \in Run \ {r} : pc'[q] = pc[q] /\ BuildOf(q)' = BuildOf(q)
    BY <1>2 DEF Idle, Deliver, AppendQueued, AppendRunning, AppendRaises, LockTimeout,
         Execute, ExecuteFails, WriteFails, PublishFails, AppendFailed,
         AppendFailedRaises, Acknowledge, Interrupt, InterruptPublish, PublishInDoubt, Goto, Raise, Lose,
         TypeOK, BuildOf, Building, Critical
  <2>3. OneBuilder' /\ FactsOfBuilder'
    BY <2>1, <2>2 DEF LineageInv, OneBuilder, FactsOfBuilder
  <2>4. FactsOfCell' /\ LastPublished'
    BY <2>1 DEF LineageInv, FactsOfCell, LastPublished, NoneAfter, Entries
  <2>. QED
    BY <2>3, <2>4 DEF LineageInv
<1>3. ASSUME NEW r \in Run, AcquireWriterLock(r)
      PROVE  LineageInv'
  <2>1. /\ UNCHANGED <<facts, completed>> /\ raced \subseteq raced'
        /\ pc'[r] = "executing" /\ (\A q \in Run \ {r} : pc'[q] = pc[q])
        /\ \A q \in Run : BuildOf(q)' = BuildOf(q)
    BY <1>3 DEF AcquireWriterLock, Goto, TypeOK, BuildOf
  \* A cell that another run is building is raced from now on.
  <2>2. \A q \in Run \ {r} : (pc[q] \in Building /\ CellOf[q] = CellOf[r]) => CellOf[r] \in raced'
    BY <1>3 DEF AcquireWriterLock
  <2>3. OneBuilder'
    BY <2>1, <2>2 DEF LineageInv, OneBuilder
  <2>4. FactsOfBuilder'
    BY <2>1 DEF LineageInv, FactsOfBuilder
  <2>5. FactsOfCell' /\ LastPublished'
    BY <2>1 DEF LineageInv, FactsOfCell, LastPublished, NoneAfter, Entries
  <2>. QED
    BY <2>3, <2>4, <2>5 DEF LineageInv
<1>4. ASSUME NEW r \in Run, WriteFacts(r)
      PROVE  LineageInv'
  <2>1. /\ UNCHANGED <<completed, raced>> /\ pc[r] \in Building /\ pc'[r] \in Building
        /\ (\A q \in Run \ {r} : pc'[q] = pc[q])
        /\ \A q \in Run : BuildOf(q)' = BuildOf(q)
    BY <1>4 DEF WriteFacts, Goto, TypeOK, BuildOf, Building, Critical
  <2>2. /\ facts'[CellOf[r]] = BuildOf(r)
        /\ \A c \in Cell \ {CellOf[r]} : facts'[c] = facts[c]
    BY <1>0, <1>4 DEF WriteFacts, TypeOK
  <2>3. OneBuilder'
    BY <2>1 DEF LineageInv, OneBuilder
  <2>4. FactsOfBuilder'
    <3>1. \A q \in Run \ {r} :
            (pc[q] \in {"written", "publishing"} /\ CellOf[q] \notin raced) => CellOf[q] # CellOf[r]
      BY <2>1 DEF LineageInv, OneBuilder, Building, Critical
    <3>. QED
      BY <1>0, <2>1, <2>2, <3>1 DEF LineageInv, FactsOfBuilder
  <2>5. FactsOfCell'
    BY <1>0, <2>2 DEF LineageInv, FactsOfCell
  <2>6. LastPublished'
    <3>1. facts'[CellOf[r]] \notin Entries(completed)
      BY <2>1, <2>2, BuildIsNew
    <3>. QED
      BY <2>1, <2>2, <3>1 DEF LineageInv, LastPublished, NoneAfter, Entries
  <2>. QED
    BY <2>3, <2>4, <2>5, <2>6 DEF LineageInv
<1>5. ASSUME NEW r \in Run, ReleaseWriterLock(r)
      PROVE  LineageInv'
  <2>1. /\ UNCHANGED <<facts, completed, raced>> /\ pc[r] = "written" /\ pc'[r] = "publishing"
        /\ (\A q \in Run \ {r} : pc'[q] = pc[q])
        /\ \A q \in Run : BuildOf(q)' = BuildOf(q)
    BY <1>5 DEF ReleaseWriterLock, Goto, TypeOK, BuildOf
  <2>2. OneBuilder' /\ FactsOfBuilder'
    BY <2>1 DEF LineageInv, OneBuilder, FactsOfBuilder, Building, Critical
  <2>3. FactsOfCell' /\ LastPublished'
    BY <2>1 DEF LineageInv, FactsOfCell, LastPublished, NoneAfter, Entries
  <2>. QED
    BY <2>2, <2>3 DEF LineageInv
<1>6. ASSUME NEW r \in Run, Completing(r)
      PROVE  LineageInv'
  <2>1. /\ UNCHANGED <<facts, raced>> /\ pc[r] = "publishing" /\ pc'[r] \in {"done", "failing"}
        /\ (\A q \in Run \ {r} : pc'[q] = pc[q])
        /\ \A q \in Run : BuildOf(q)' = BuildOf(q)
    BY <1>6 DEF Completing, Publish, PublishInDoubt, Goto, TypeOK, BuildOf
  <2>2. OneBuilder' /\ FactsOfBuilder' /\ FactsOfCell'
    BY <2>1 DEF LineageInv, OneBuilder, FactsOfBuilder, FactsOfCell, Building, Critical
  <2>3. /\ completed \in Seq(Build) /\ completed' = Append(completed, BuildOf(r))
        /\ Len(completed) \in Nat /\ Len(completed') = Len(completed) + 1
        /\ completed'[Len(completed) + 1] = BuildOf(r)
        /\ \A i \in 1 .. Len(completed) : completed'[i] = completed[i]
    <3>1. completed \in Seq(Build) /\ BuildOf(r) \in Build
      BY <1>0 DEF TypeOK
    <3>2. completed' = Append(completed, BuildOf(r))
      BY <1>6 DEF Completing, Publish
    <3>. QED
      BY <3>1, <3>2
  <2>4. Entries(completed)' = Entries(completed) \cup {BuildOf(r)}
    <3>1. Entries(completed)' = Entries(completed')
      BY DEF Entries
    <3>. QED
      BY <1>0, <2>3, <3>1, EntriesAppend
  <2>5. ASSUME NEW c \in Cell \ raced, facts[c] \in Entries(completed) \cup {BuildOf(r)}
        PROVE  \E i \in 1 .. Len(completed') :
                 completed'[i] = facts[c] /\ \A j \in 1 .. Len(completed') :
                   j > i => CellOf[completed'[j].run] # c
    \* The run publishes the facts of its cell,
    <3>1. CASE c = CellOf[r]
      <4>1. facts[c] = BuildOf(r)
        BY <2>1, <2>5, <3>1 DEF LineageInv, FactsOfBuilder
      <4>2. /\ Len(completed) + 1 \in 1 .. Len(completed')
            /\ \A j \in 1 .. Len(completed') : ~(j > Len(completed) + 1)
        BY <2>3
      <4>. QED
        BY <2>3, <4>1, <4>2
    \* and its record is of no other cell.
    <3>2. CASE c # CellOf[r]
      <4>1. facts[c] # BuildOf(r)
        BY <1>0, <2>5, <3>2 DEF LineageInv, FactsOfCell
      <4>2. PICK i \in 1 .. Len(completed) : completed[i] = facts[c] /\ NoneAfter(c, i)
        BY <2>5, <4>1 DEF LineageInv, LastPublished
      <4>3. i \in 1 .. Len(completed') /\ completed'[i] = facts[c]
        BY <2>3, <4>2
      <4>4. ASSUME NEW j \in 1 .. Len(completed'), j > i
            PROVE  CellOf[completed'[j].run] # c
        <5>1. CASE j \in 1 .. Len(completed)
          BY <2>3, <4>2, <4>4, <5>1 DEF NoneAfter
        <5>2. CASE j = Len(completed) + 1
          BY <1>0, <2>3, <3>2, <5>2
        <5>. QED
          BY <2>3, <5>1, <5>2
      <4>. QED
        BY <4>3, <4>4
    <3>. QED
      BY <3>1, <3>2
  <2>6. LastPublished'
    BY <2>1, <2>4, <2>5 DEF LastPublished, NoneAfter
  <2>. QED
    BY <2>2, <2>6 DEF LineageInv
<1>. QED
  BY <1>1, <1>2, <1>3, <1>4, <1>5, <1>6 DEF Next, Handler, Idle, Completing, PublishInDoubt

\* Facts that are published are what the reader of their cell is told of.
LEMMA LineageOfLast ==
  ASSUME TypeOK, LineageInv
  PROVE  LineageMatchesUnlessRaced
<1>. SUFFICES ASSUME NEW c \in Cell \ raced, facts[c] \in Entries(completed)
              PROVE  LatestCompleted(c) = facts[c]
  BY DEF LineageMatchesUnlessRaced
<1>. DEFINE Last(i) ==
       /\ CellOf[completed[i].run] = c
       /\ \A j \in i + 1 .. Len(completed) : CellOf[completed[j].run] # c
<1>1. Len(completed) \in Nat /\ facts[c] \in Build
  BY EntriesType DEF TypeOK
<1>2. CellOf[facts[c].run] = c
  BY <1>1 DEF LineageInv, FactsOfCell
<1>3. PICK i \in 1 .. Len(completed) : completed[i] = facts[c] /\ NoneAfter(c, i)
  BY DEF LineageInv, LastPublished
<1>4. Last(i)
  BY <1>1, <1>2, <1>3 DEF NoneAfter
<1>5. ASSUME NEW k \in 1 .. Len(completed), Last(k)
      PROVE  k = i
  <2>1. ~(k > i)
    BY <1>3, <1>5 DEF NoneAfter
  <2>2. ~(k < i)
    BY <1>1, <1>4, <1>5
  <2>. QED
    BY <1>1, <2>1, <2>2
<1>. HIDE DEF Last
<1>6. (CHOOSE k \in 1 .. Len(completed) : Last(k)) = i
  BY <1>4, <1>5
<1>. QED
  BY <1>3, <1>6 DEF LatestCompleted, Last

\* The lineage that readers certify a cell with is the one of its facts as long
\* as no two builds of the cell overlapped, for every number of runs, cells and
\* deliveries, whatever fails, dies and is delivered again in between.
THEOREM LineageMatchesUnlessRacedHolds == Spec => []LineageMatchesUnlessRaced
<1>1. Init => LineageInv
  <2>1. Init => Entries(completed) = {} /\ NoFacts \notin Build
    BY NoRunAssumption DEF Init, Entries, NoFacts, Build
  <2>2. Init => \A r \in Run : pc[r] \notin Building
    BY DEF Init, Building, Critical
  <2>. QED
    BY <2>1, <2>2 DEF Init, LineageInv, OneBuilder, FactsOfBuilder, FactsOfCell,
         LastPublished, Building
<1>2. Init => FailureInv
  BY DEF Init, FailureInv, PublishedDeliveries, FailedDeliveries,
     FailedPublishesNothingUnlessDoubtful, Published, Entries
<1>3. TypeOK /\ FailureInv /\ LineageInv /\ [Next]_vars => LineageInv'
  BY LineageStep
<1>4. TypeOK /\ FailureInv /\ [Next]_vars => FailureInv'
  BY FailureStep
<1>5. TypeOK /\ LineageInv => LineageMatchesUnlessRaced
  BY LineageOfLast
<1>. QED
  BY <1>1, <1>2, <1>3, <1>4, <1>5, TypeCorrect, PTL DEF Spec
=============================================================================
