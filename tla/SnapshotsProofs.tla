--------------------------- MODULE SnapshotsProofs ---------------------------
(***************************************************************************)
(* Proofs about Snapshots: what the snapshot tables hold beside the source *)
(* manifest, and what the balance facts are made of.                       *)
(***************************************************************************)
EXTENDS Snapshots, SequenceTheorems, TLAPS

-----------------------------------------------------------------------------
(***************************************************************************)
(* Types                                                                   *)
(***************************************************************************)
LEMMA Numbers ==
  /\ Date \subseteq Nat
  /\ Version \subseteq Nat
  /\ \A c \in Cell : c[1] \in Family /\ c[2] \in Date /\ c = <<c[1], c[2]>>
  /\ \A f \in File : DateOf[f] \in Date /\ CellOf(f) \in Cell /\ CellOf(f)[2] = DateOf[f]
BY DatesAssumption, FilesAssumption DEF Date, Version, Cell, CellOf

LEMMA Initial == Init => TypeOK
<1> SUFFICES ASSUME Init PROVE TypeOK
  OBVIOUS
<1>1. NoFiles \in Files
  BY DatesAssumption DEF NoFiles, Files, Version
<1>2. order \in [Run -> Orders] /\ source \in Files
  BY StartsAssumption DEF Init
<1>3. left \in [Run -> SUBSET Date]
  BY <1>2 DEF Init, Orders
<1>4. manifest = <<>> /\ manifest \in Seq(Files) /\ Len(manifest) = 0
  BY EmptySeq DEF Init
<1> QED BY <1>1, <1>2, <1>3, <1>4 DEF Init, TypeOK, NoBalance, Place

\* A batch of the manifest, and the manifest with one more.
LEMMA Batches ==
  ASSUME TypeOK
  PROVE  /\ Len(manifest) \in Nat
         /\ Batch \subseteq Nat
         /\ \A n \in Batch : manifest[n] \in Files
         /\ \A n \in Batch, f \in File : manifest[n][f] \in Version
<1>1. Len(manifest) \in Nat /\ \A n \in Batch : manifest[n] \in Files
  BY LenProperties DEF TypeOK, Batch
<1>2. Batch \subseteq Nat
  BY <1>1 DEF Batch
<1>3. ASSUME NEW n \in Batch, NEW f \in File PROVE manifest[n][f] \in Version
  BY <1>1, <1>3 DEF Files
<1> QED BY <1>1, <1>2, <1>3

LEMMA Grown ==
  ASSUME TypeOK, NEW f \in Files, manifest' = Append(manifest, f)
  PROVE  /\ manifest' \in Seq(Files)
         /\ Len(manifest') = Len(manifest) + 1
         /\ manifest'[Len(manifest) + 1] = f
         /\ \A n \in Batch : manifest'[n] = manifest[n]
         /\ Batch \subseteq Batch'
         /\ Batch' = Batch \cup {Len(manifest) + 1}
<1>1. manifest \in Seq(Files) /\ Len(manifest) \in Nat
  BY LenProperties DEF TypeOK
<1>2. /\ manifest' \in Seq(Files)
      /\ Len(manifest') = Len(manifest) + 1
      /\ manifest'[Len(manifest) + 1] = f
      /\ \A n \in Batch : manifest'[n] = manifest[n]
  BY <1>1, AppendProperties DEF Batch
<1> QED BY <1>1, <1>2 DEF Batch

\* What Ends leaves of a run.
LEMMA EndsKeepsType ==
  ASSUME TypeOK, NEW p \in Run, NEW from, Ends(p, from), UNCHANGED <<order, manifest>>
  PROVE  /\ order' \in [Run -> Orders]
         /\ place' \in [Run -> Place]
         /\ found' \in [Run -> Files]
         /\ batch' \in [Run -> 0 .. Len(manifest')]
         /\ left' \in [Run -> SUBSET Date]
         /\ picks' \in [Run -> SUBSET (File \X Batch')]
         /\ asked' \in [Run -> 0 .. Len(manifest')]
         /\ passed' \in [Run -> SUBSET File]
<1>1. NoFiles \in Files /\ 0 \in 0 .. Len(manifest) /\ "ended" \in Place
  BY Batches, DatesAssumption DEF NoFiles, Files, Version, Place
<1>2. Batch' = Batch
  BY DEF Batch
<1> QED BY <1>1, <1>2 DEF Ends, Goto, TypeOK

LEMMA StopKeepsType ==
  ASSUME TypeOK, NEW p \in Run, NEW from, Stop(p, from)
  PROVE  TypeOK'
<1>1. Bound(p) \subseteq File
  BY DEF Bound, OfBatch
<1>2. Batch' = Batch
  BY DEF Batch, Stop
<1> QED BY <1>1, <1>2, EndsKeepsType DEF Stop, TypeOK

LEMMA Types == TypeOK /\ [Next]_vars => TypeOK'
<1> SUFFICES ASSUME TypeOK, [Next]_vars PROVE TypeOK'
  OBVIOUS
<1>1. CASE UNCHANGED vars
  BY <1>1 DEF vars, runVars, TypeOK, Batch
<1>2. ASSUME NEW f \in File, FileArrives(f) PROVE TypeOK'
  <2>1. source' \in Files
    <3>1. source[f] + 1 \in Version
      BY <1>2, DatesAssumption DEF FileArrives, TypeOK, Files, Version
    <3> QED BY <1>2, <3>1 DEF FileArrives, TypeOK, Files
  <2> QED BY <1>2, <2>1 DEF FileArrives, runVars, TypeOK, Batch
<1>3. ASSUME NEW p \in Run, Scan(p) PROVE TypeOK'
  <2>1. [f \in File |-> IF f \in Changed THEN source[f] ELSE 0] \in Files
    BY DatesAssumption DEF TypeOK, Files, Version
  <2> QED BY <1>3, <2>1 DEF Scan, Goto, TypeOK, Batch, Place
<1>4. ASSUME NEW p \in Run, AppendManifest(p) PROVE TypeOK'
  <2>1. NoFiles \in Files /\ New(p) \subseteq File /\ found[p] \in Files
    BY DatesAssumption DEF NoFiles, Files, Version, New, TypeOK
  <2>2. /\ manifest' \in Seq(Files)
        /\ Batch \subseteq Batch'
        /\ 0 .. Len(manifest) \subseteq 0 .. Len(manifest')
        /\ (IF New(p) = {} THEN 0 ELSE Len(manifest) + 1) \in 0 .. Len(manifest')
    <3>1. CASE New(p) = {}
      BY <1>4, <3>1, Batches DEF AppendManifest, TypeOK, Batch
    <3>2. CASE New(p) # {}
      BY <1>4, <3>2, <2>1, Grown, Batches DEF AppendManifest
    <3> QED BY <3>1, <3>2
  <2>3. File \X Batch \subseteq File \X Batch'
    BY <2>2
  <2>4. picks' \in [Run -> SUBSET (File \X Batch')]
    BY <1>4, <2>3 DEF AppendManifest, TypeOK
  <2>5. /\ batch' \in [Run -> 0 .. Len(manifest')]
        /\ asked' \in [Run -> 0 .. Len(manifest')]
    BY <1>4, <2>2 DEF AppendManifest, TypeOK
  <2> QED BY <1>4, <2>1, <2>2, <2>4, <2>5 DEF AppendManifest, Goto, TypeOK, Place
<1>5. ASSUME NEW p \in Run, ResolveDates(p) PROVE TypeOK'
  <2>1. DatesOf(p) \subseteq Date
    BY DEF DatesOf, TypeOK, Orders
  <2>2. {x[1] : x \in OfBatch(batch[p], Date \ DatesOf(p))} \subseteq File
    BY DEF OfBatch
  <2>3. Batch' = Batch
    BY <1>5 DEF ResolveDates, Batch
  <2>4. CASE Ends(p, {"ingested"})
    BY <1>5, <2>2, <2>3, <2>4, EndsKeepsType DEF ResolveDates, TypeOK
  <2>5. CASE ~Ends(p, {"ingested"})
    <3>1. /\ place' = [place EXCEPT ![p] = "resolved"]
          /\ left' = [left EXCEPT ![p] = DatesOf(p)]
          /\ UNCHANGED <<found, batch, picks, asked, passed>>
      BY <1>5, <2>5 DEF ResolveDates, Goto
    <3>2. place' \in [Run -> Place] /\ left' \in [Run -> SUBSET Date]
      BY <3>1, <2>1 DEF TypeOK, Place
    <3> QED BY <1>5, <2>2, <2>3, <3>1, <3>2 DEF ResolveDates, TypeOK
  <2> QED BY <2>4, <2>5
<1>6. ASSUME NEW p \in Run, NEW a \in 0 .. Len(manifest), NEW rows \in SUBSET (File \X Batch),
             Select(p, a, rows)
      PROVE  TypeOK'
  <2>1. Batch' = Batch
    BY <1>6 DEF Select, Batch
  <2>2. PICK there \in SUBSET rows :
          /\ picks' = [picks EXCEPT ![p] = there]
          /\ place' = [place EXCEPT ![p] = IF there = {} THEN "empty" ELSE "selected"]
          /\ missed' = IF a = 0 THEN missed ELSE missed \cup {x[1] : x \in rows \ there}
    BY <1>6 DEF Select
  <2>3. place' \in [Run -> Place]
    BY <2>2 DEF TypeOK, Place
  <2>4. passed' \in [Run -> SUBSET File]
    BY <1>6 DEF Select, TypeOK
  <2>5. picks' \in [Run -> SUBSET (File \X Batch')]
    BY <1>6, <2>1, <2>2 DEF TypeOK
  <2>6. missed' \subseteq File
    BY <2>2 DEF TypeOK
  <2> QED BY <1>6, <2>1, <2>3, <2>4, <2>5, <2>6 DEF Select, TypeOK
<1>7. ASSUME NEW p \in Run, SelectOfDate(p) PROVE TypeOK'
  <2>1. \A d \in Date : Asks(p, d) \in 0 .. Len(manifest)
    BY Batches DEF Asks, TypeOK
  <2>2. \A d \in Date : OfDate(d) \subseteq File \X Batch
    BY DEF OfDate
  <2>3. \A d \in Date : Asks(p, d) # 0 => OfBatch(batch[p], {d}) \subseteq File \X Batch
    BY DEF OfBatch
  <2> QED BY <1>6, <1>7, <2>1, <2>2, <2>3 DEF SelectOfDate
<1>8. ASSUME NEW p \in Run, SelectLatest(p) PROVE TypeOK'
  <2>1. OfFamilies \subseteq File \X Batch /\ 0 \in 0 .. Len(manifest)
    BY Batches DEF OfFamilies
  <2> QED BY <1>6, <1>8, <2>1 DEF SelectLatest
<1>9. ASSUME NEW p \in Run, Commit(p) PROVE TypeOK'
  <2>1. \A c \in Cell : NewRows(p, c) \subseteq RowGroup
    <3>1. ASSUME NEW x \in picks[p]
          PROVE  [batch |-> x[2], file |-> x[1], version |-> manifest[x[2]][x[1]]] \in RowGroup
      <4>1. x[1] \in File /\ x[2] \in Batch
        BY DEF TypeOK
      <4>2. x[2] \in Nat /\ manifest[x[2]][x[1]] \in Version
        BY <4>1, Batches
      <4> QED BY <4>1, <4>2 DEF RowGroup
    <3> QED BY <3>1 DEF NewRows, PicksOf
  <2>2. \A c \in Cell : CarriedTo(c) \subseteq RowGroup
    <3>1. \A g \in RowGroup : [g EXCEPT !.batch = 0] \in RowGroup
      BY DEF RowGroup
    <3>2. \A c \in Cell : tables[c] \subseteq RowGroup
      BY DEF TypeOK
    <3> QED BY <3>1, <3>2 DEF CarriedTo
  <2>3. \A c \in Cell : Kept(p, c) \subseteq RowGroup
    BY DEF Kept, TypeOK
  <2>4. tables' \in [Cell -> SUBSET RowGroup]
    BY <1>9, <2>1, <2>2, <2>3 DEF Commit, TypeOK
  <2>5. Behind(p) \subseteq File /\ undated' \subseteq Cell
    BY <1>9 DEF Commit, Behind
  <2> QED BY <1>9, <2>4, <2>5 DEF Commit, Goto, TypeOK, Batch, Place
<1>10. ASSUME NEW p \in Run, RecordCompleted(p) PROVE TypeOK'
  <2>1. Batch' = Batch
    BY <1>10 DEF RecordCompleted, Batch
  <2>2. CASE order[p].kind = "pipeline"
    BY <1>10, <2>1, <2>2 DEF RecordCompleted, Goto, TypeOK, Place
  <2>3. CASE order[p].kind # "pipeline"
    BY <1>10, <2>1, <2>3, EndsKeepsType DEF RecordCompleted, TypeOK
  <2> QED BY <2>2, <2>3
<1>11. ASSUME NEW p \in Run, MaterializeBalance(p) PROVE TypeOK'
  <2>1. Batch' = Batch
    BY <1>11 DEF MaterializeBalance, Batch
  <2>2. \A c \in Cell : Loads(asked[p], c) \subseteq RowGroup
    BY DEF Loads, OwnRows, TypeOK
  <2>3. asked[p] \in Nat
    BY Batches DEF TypeOK
  <2>4. PICK d \in Date :
          /\ balance' = [c \in Cell |-> IF c[2] = d
               THEN [rows |-> Loads(asked[p], c), asked |-> asked[p]] ELSE balance[c]]
          /\ \/ Ends(p, Place)
             \/ /\ Goto(p, Place, "resolved")
                /\ left' = [left EXCEPT ![p] = @ \ {d}]
                /\ UNCHANGED <<found, batch, picks, asked, passed>>
          /\ UNCHANGED <<source, manifest, tables, order, undated, missed>>
    BY <1>11 DEF MaterializeBalance
  <2>5. balance' \in [Cell -> [rows : SUBSET RowGroup, asked : Nat]]
    BY <2>2, <2>3, <2>4 DEF TypeOK
  <2>6. CASE Ends(p, Place)
    BY <2>1, <2>4, <2>5, <2>6, EndsKeepsType DEF TypeOK
  <2>7. CASE ~Ends(p, Place)
    <3>1. place' \in [Run -> Place]
      BY <2>4, <2>7 DEF Goto, TypeOK, Place
    <3>2. left' \in [Run -> SUBSET Date]
      BY <2>4, <2>7 DEF TypeOK
    <3> QED BY <2>1, <2>4, <2>5, <2>7, <3>1, <3>2 DEF TypeOK
  <2> QED BY <2>6, <2>7
<1>12. ASSUME NEW p \in Run, RunNext(p) PROVE TypeOK'
  BY <1>3, <1>4, <1>5, <1>7, <1>8, <1>9, <1>10, <1>11, <1>12, StopKeepsType
  DEF RunNext, ManifestFails, SnapshotFails, RecordFails, BalanceRaises
<1> QED BY <1>1, <1>2, <1>12 DEF Next

-----------------------------------------------------------------------------
(***************************************************************************)
(* What a run knows of the manifest                                        *)
(***************************************************************************)
\* Only a pipeline has a batch, and only between its ingest and its end; only
\* what has selected and not committed has rows.
Phases(p) ==
  /\ place[p] \in {"idle", "scanned", "ended"} => batch[p] = 0
  /\ place[p] = "scanned" => order[p].kind = "pipeline"
  /\ order[p].kind # "pipeline" => batch[p] = 0
  /\ place[p] # "selected" => picks[p] = {}
  /\ order[p].given => left[p] \subseteq order[p].dates

\* A run without a given date only has dates its batch has files of: it never
\* falls back on other batches.
LeftHeld(p) ==
  (~order[p].given /\ batch[p] # 0 /\ place[p] # "ingested") =>
    \A d \in left[p] : OfBatch(batch[p], {d}) # {}

LastOrPassed(p, n, f) == f \in passed[p] \/ IsLast(n, f)

\* The rows selected: of a family and date those of one batch, and each the
\* last version of its file unless a later ingest passed it.
PicksGood(p) ==
  /\ \A x, y \in picks[p] : CellOf(x[1]) = CellOf(y[1]) => x[2] = y[2]
  /\ \A x \in picks[p] : LastOrPassed(p, x[2], x[1])

\* The files of the batch it will select from are last unless passed.
BatchLast(p) ==
  (batch[p] # 0 /\ (~order[p].given \/ place[p] \in {"ingested", "resolved"})) =>
    \A f \in File : Holds(batch[p], f) => LastOrPassed(p, batch[p], f)

RunInv(p) == Phases(p) /\ LeftHeld(p) /\ PicksGood(p) /\ BatchLast(p)
IInv == TypeOK /\ \A p \in Run : RunInv(p)

LEMMA RunsInitially == Init => \A p \in Run : RunInv(p)
<1> SUFFICES ASSUME Init, NEW p \in Run PROVE RunInv(p)
  OBVIOUS
<1>1. place[p] = "idle" /\ batch[p] = 0 /\ picks[p] = {}
  BY DEF Init
<1>2. order[p].given => left[p] \subseteq order[p].dates
  BY DEF Init
<1> QED BY <1>1, <1>2 DEF RunInv, Phases, LeftHeld, PicksGood, BatchLast

SameRun(q) ==
  /\ order'[q] = order[q] /\ place'[q] = place[q] /\ batch'[q] = batch[q]
  /\ left'[q] = left[q] /\ picks'[q] = picks[q]

\* A run that is not touched, while the manifest is not either.
LEMMA Untouched ==
  ASSUME NEW q \in Run, RunInv(q), SameRun(q), passed'[q] = passed[q], manifest' = manifest
  PROVE  RunInv(q)'
<1> USE DEF SameRun
<1>1. \A n, f : LastOrPassed(q, n, f)' <=> LastOrPassed(q, n, f)
  BY DEF LastOrPassed, IsLast, Holds, Batch
<1>2. \A ds : OfBatch(batch[q], ds)' = OfBatch(batch[q], ds)
  BY DEF OfBatch, Holds, Batch
<1>3. Phases(q)' /\ LeftHeld(q)'
  BY <1>2 DEF RunInv, Phases, LeftHeld
<1>4. PicksGood(q)'
  BY <1>1 DEF RunInv, PicksGood
<1>5. BatchLast(q)'
  BY <1>1 DEF RunInv, BatchLast, Holds
<1> QED BY <1>3, <1>4, <1>5 DEF RunInv

\* A run that has ended.
LEMMA Ended ==
  ASSUME TypeOK, NEW p \in Run, NEW from, Ends(p, from)
  PROVE  RunInv(p)'
<1>1. /\ place'[p] = "ended" /\ batch'[p] = 0 /\ left'[p] = {} /\ picks'[p] = {}
  BY DEF Ends, Goto, TypeOK
<1> QED BY <1>1 DEF RunInv, Phases, LeftHeld, PicksGood, BatchLast

\* The batch of a run stays what it was, and its files are last unless they
\* have entered again.
LEMMA GrownBatch ==
  ASSUME TypeOK, NEW new \in Files, manifest' = Append(manifest, new), NEW n \in Batch
  PROVE  /\ \A f : Holds(n, f)' <=> Holds(n, f)
         /\ \A ds : OfBatch(n, ds)' = OfBatch(n, ds)
         /\ \A f \in File : IsLast(n, f)' <=> (IsLast(n, f) /\ new[f] = 0)
<1>1. manifest'[n] = manifest[n] /\ n \in Batch'
  BY Grown
<1>2. \A f : Holds(n, f)' <=> Holds(n, f)
  BY <1>1 DEF Holds
<1>3. \A ds : OfBatch(n, ds)' = OfBatch(n, ds)
  BY <1>1, <1>2 DEF OfBatch
<1>4. ASSUME NEW f \in File PROVE IsLast(n, f)' <=> (IsLast(n, f) /\ new[f] = 0)
  <2> DEFINE k == Len(manifest) + 1
  <2>1. Batch' = Batch \cup {k} /\ k > n /\ manifest'[k] = new
    BY Grown, Batches DEF Batch
  <2>2. \A m \in Batch : manifest'[m] = manifest[m]
    BY Grown
  <2> HIDE DEF k
  <2> QED BY <1>1, <2>1, <2>2 DEF IsLast, Holds
<1> QED BY <1>2, <1>3, <1>4

\* A run that another one's ingest may have passed.
LEMMA Passed ==
  ASSUME TypeOK, NEW q \in Run, RunInv(q), SameRun(q),
         NEW new \in Files, manifest' = Append(manifest, new),
         passed'[q] = IF Chose(q) THEN passed[q] \cup {f \in File : new[f] # 0} ELSE {}
  PROVE  RunInv(q)'
<1> USE DEF SameRun
<1>1. batch[q] # 0 => batch[q] \in Batch
  BY Batches DEF TypeOK, Batch
<1>2. \A n \in Batch, f \in File :
        (Chose(q) /\ LastOrPassed(q, n, f)) => LastOrPassed(q, n, f)'
  <2> SUFFICES ASSUME NEW n \in Batch, NEW f \in File, Chose(q), LastOrPassed(q, n, f)
               PROVE  LastOrPassed(q, n, f)'
    OBVIOUS
  <2>1. IsLast(n, f)' <=> (IsLast(n, f) /\ new[f] = 0)
    BY GrownBatch
  <2>2. passed'[q] = passed[q] \cup {g \in File : new[g] # 0}
    OBVIOUS
  <2> QED BY <2>1, <2>2 DEF LastOrPassed
<1>3. \A ds : OfBatch(batch[q], ds)' = OfBatch(batch[q], ds)
  <2>1. CASE batch[q] = 0
    <3>1. 0 \notin Batch /\ 0 \notin Batch'
      BY Grown, Batches DEF Batch
    <3> QED BY <2>1, <3>1 DEF OfBatch
  <2>2. CASE batch[q] # 0
    <3>1. PICK n \in Batch : n = batch[q] /\ n = batch'[q]
      BY <1>1, <2>2
    <3>2. manifest'[n] = manifest[n] /\ n \in Batch'
      BY Grown
    <3> QED BY <3>1, <3>2 DEF OfBatch, Holds
  <2> QED BY <2>1, <2>2
<1>4. Phases(q)'
  BY DEF RunInv, Phases
<1>5. LeftHeld(q)'
  BY <1>3 DEF RunInv, LeftHeld
<1>6. PicksGood(q)'
  <2>1. picks[q] \subseteq File \X Batch
    BY DEF TypeOK
  <2>2. \A x \in picks[q] : LastOrPassed(q, x[2], x[1])'
    BY <1>2, <2>1 DEF RunInv, PicksGood, Chose
  <2> QED BY <2>2 DEF RunInv, PicksGood
<1>7. BatchLast(q)'
  <2> SUFFICES ASSUME batch[q] # 0, ~order[q].given \/ place[q] \in {"ingested", "resolved"},
                      NEW f \in File, Holds(batch[q], f)'
               PROVE  LastOrPassed(q, batch[q], f)'
    BY DEF BatchLast
  <2>1. PICK n \in Batch : n = batch[q] /\ n = batch'[q]
    BY <1>1
  <2>2. Holds(n, f)
    <3>1. manifest'[n] = manifest[n]
      BY Grown
    <3> QED BY <2>1, <3>1 DEF Holds
  <2>3. LastOrPassed(q, n, f)
    BY <2>1, <2>2 DEF RunInv, BatchLast
  <2>4. LastOrPassed(q, n, f)'
    BY <1>2, <2>1, <2>3 DEF Chose
  <2>5. IsLast(n, f)' <=> IsLast(batch[q], f)'
    BY <2>1 DEF IsLast, Holds
  <2> QED BY <2>4, <2>5 DEF LastOrPassed
<1> QED BY <1>4, <1>5, <1>6, <1>7 DEF RunInv

-----------------------------------------------------------------------------
(***************************************************************************)
(* What the steps of a run keep of it                                      *)
(***************************************************************************)
\* What it has ingested is the last of the manifest.
LEMMA Appended ==
  ASSUME TypeOK, NEW p \in Run, RunInv(p), AppendManifest(p)
  PROVE  RunInv(p)'
<1>1. /\ place[p] = "scanned" /\ place'[p] = "ingested" /\ picks[p] = {} /\ picks' = picks
      /\ order[p].kind = "pipeline" /\ order' = order /\ left' = left
      /\ batch'[p] = IF New(p) = {} THEN 0 ELSE Len(manifest) + 1
  BY DEF AppendManifest, Goto, TypeOK, RunInv, Phases
<1>2. Phases(p)' /\ LeftHeld(p)' /\ PicksGood(p)'
  BY <1>1 DEF RunInv, Phases, LeftHeld, PicksGood
<1>3. BatchLast(p)'
  <2> SUFFICES ASSUME batch'[p] # 0, NEW f \in File, Holds(batch[p], f)'
               PROVE  LastOrPassed(p, batch[p], f)'
    BY DEF BatchLast
  <2> DEFINE k == Len(manifest) + 1
  <2>1. manifest' = Append(manifest, found[p]) /\ found[p] \in Files /\ batch'[p] = k
    BY <1>1 DEF AppendManifest, TypeOK
  <2>2. Batch' = Batch \cup {k} /\ k \in Nat /\ Batch \subseteq Nat /\ \A m \in Batch : m < k
    BY <2>1, Grown, Batches DEF Batch
  <2> HIDE DEF k
  <2>3. \A m \in Batch' : ~(m > k)
    BY <2>2
  <2>4. IsLast(batch[p], f)'
    <3>1. \A m \in Batch' : ~(m > batch'[p])
      BY <2>1, <2>3
    <3> QED BY <3>1 DEF IsLast
  <2> QED BY <2>4 DEF LastOrPassed
<1> QED BY <1>2, <1>3 DEF RunInv

\* The dates of a batch are dates it has files of.
LEMMA Resolved ==
  ASSUME TypeOK, NEW p \in Run, RunInv(p), ResolveDates(p)
  PROVE  RunInv(p)'
<1>1. CASE Ends(p, {"ingested"})
  BY <1>1, Ended
<1>2. CASE ~Ends(p, {"ingested"})
  <2>1. /\ place[p] = "ingested" /\ place'[p] = "resolved" /\ left'[p] = DatesOf(p)
        /\ UNCHANGED <<order, manifest, batch, picks, passed>>
    BY <1>2 DEF ResolveDates, Goto, TypeOK
  <2>2. Phases(p)'
    BY <2>1 DEF RunInv, Phases, DatesOf
  <2>3. LeftHeld(p)'
    <3> SUFFICES ASSUME ~order[p].given, batch[p] # 0, NEW d \in DatesOf(p)
                 PROVE  OfBatch(batch[p], {d}) # {}
      BY <2>1 DEF LeftHeld, OfBatch, Holds, Batch
    <3>1. PICK x \in OfBatch(batch[p], Date) : DateOf[x[1]] = d
      BY DEF DatesOf
    <3>2. x \in OfBatch(batch[p], {d})
      BY <3>1 DEF OfBatch
    <3> QED BY <3>2
  <2>4. PicksGood(p)'
    BY <2>1 DEF RunInv, Phases, PicksGood
  <2>5. BatchLast(p)'
    BY <2>1 DEF RunInv, BatchLast, LastOrPassed, IsLast, Holds, Batch
  <2> QED BY <2>2, <2>3, <2>4, <2>5 DEF RunInv
<1> QED BY <1>1, <1>2

\* A selection from the last batches of the manifest, or from a batch whose
\* files are last unless passed.
LEMMA Selected ==
  ASSUME TypeOK, NEW p \in Run, RunInv(p), NEW a, NEW rows, Select(p, a, rows),
         place[p] \in {"idle", "resolved"},
         batch[p] # 0 /\ ~order[p].given => a # 0,
         \A x, y \in rows : CellOf(x[1]) = CellOf(y[1]) => x[2] = y[2],
         \A x \in rows : IF a = 0 THEN IsLast(x[2], x[1]) ELSE LastOrPassed(p, x[2], x[1])
  PROVE  RunInv(p)'
<1>1. /\ picks'[p] \subseteq rows
      /\ place'[p] = IF picks'[p] = {} THEN "empty" ELSE "selected"
      /\ passed'[p] = IF a = 0 THEN {} ELSE passed[p]
      /\ UNCHANGED <<order, manifest, batch, left>>
  <2>1. PICK there \in SUBSET rows :
          /\ picks' = [picks EXCEPT ![p] = there]
          /\ place' = [place EXCEPT ![p] = IF there = {} THEN "empty" ELSE "selected"]
    BY DEF Select
  <2>2. picks'[p] = there /\ place'[p] = IF there = {} THEN "empty" ELSE "selected"
    BY <2>1 DEF TypeOK
  <2> QED BY <2>2 DEF Select, TypeOK
<1>2. Phases(p)'
  BY <1>1 DEF RunInv, Phases
<1>3. LeftHeld(p)'
  BY <1>1 DEF RunInv, LeftHeld, OfBatch, Holds, Batch
<1>4. \A n, f : IsLast(n, f)' <=> IsLast(n, f)
  BY <1>1 DEF IsLast, Holds, Batch
<1>5. PicksGood(p)'
  <2>1. \A x \in rows : LastOrPassed(p, x[2], x[1])'
    BY <1>1, <1>4 DEF LastOrPassed
  <2>2. \A x, y \in picks'[p] : CellOf(x[1]) = CellOf(y[1]) => x[2] = y[2]
    BY <1>1
  <2>3. \A x \in picks'[p] : LastOrPassed(p, x[2], x[1])'
    BY <1>1, <2>1
  <2> QED BY <2>2, <2>3 DEF PicksGood, CellOf
<1>6. BatchLast(p)'
  <2> SUFFICES ASSUME ~order[p].given, batch[p] # 0, NEW f \in File, Holds(batch[p], f)
               PROVE  LastOrPassed(p, batch[p], f)'
    BY <1>1 DEF BatchLast, Holds
  <2>1. LastOrPassed(p, batch[p], f)
    BY DEF RunInv, BatchLast
  <2>2. passed'[p] = passed[p] /\ batch' = batch
    BY <1>1
  <2> QED BY <1>4, <2>1, <2>2 DEF LastOrPassed
<1> QED BY <1>2, <1>3, <1>5, <1>6 DEF RunInv

\* The last batch of a file, or of a family and date, is one.
LEMMA OneLast ==
  ASSUME TypeOK, NEW f, NEW n \in Batch, NEW m \in Batch, IsLast(n, f), IsLast(m, f)
  PROVE  n = m
<1>1. n \in Nat /\ m \in Nat /\ ~(m > n) /\ ~(n > m)
  BY Batches DEF IsLast
<1> QED BY <1>1

LEMMA OneLatest ==
  ASSUME TypeOK, NEW c, NEW n \in Batch, NEW m \in Batch, IsLatest(n, c), IsLatest(m, c)
  PROVE  n = m
<1>1. n \in Nat /\ m \in Nat /\ ~(m > n) /\ ~(n > m)
  BY Batches DEF IsLatest
<1> QED BY <1>1

\* The last batch of a family and date has of each file it has the last version.
LEMMA LatestIsLast ==
  ASSUME NEW f \in File, NEW n \in Batch, Holds(n, f), IsLatest(n, CellOf(f))
  PROVE  IsLast(n, f)
<1>1. \A m \in Batch : Holds(m, f) => Covers(m, CellOf(f))
  BY DEF Covers
<1> QED BY <1>1 DEF IsLast, IsLatest

LEMMA SelectedOfDate ==
  ASSUME TypeOK, NEW p \in Run, RunInv(p), SelectOfDate(p)
  PROVE  RunInv(p)'
<1>1. PICK d \in Date :
        /\ IsNext(p, d)
        /\ place[p] = "resolved" \/ (place[p] = "idle" /\ order[p].kind = "script")
        /\ Select(p, Asks(p, d), IF Asks(p, d) # 0 THEN OfBatch(batch[p], {d}) ELSE OfDate(d))
  BY DEF SelectOfDate
<1> DEFINE a == Asks(p, d)
           rows == IF a # 0 THEN OfBatch(batch[p], {d}) ELSE OfDate(d)
<1>2. a # 0 => a = batch[p] /\ batch[p] # 0
  BY DEF Asks
<1>3. batch[p] # 0 /\ ~order[p].given => place[p] = "resolved" /\ a # 0
  <2> SUFFICES ASSUME batch[p] # 0, ~order[p].given
               PROVE  place[p] = "resolved" /\ OfBatch(batch[p], {d}) # {}
    BY DEF Asks
  <2>1. place[p] = "resolved"
    BY <1>1 DEF RunInv, Phases
  <2> QED BY <1>1, <2>1 DEF RunInv, LeftHeld, IsNext
<1>4. \A x, y \in rows : CellOf(x[1]) = CellOf(y[1]) => x[2] = y[2]
  <2>1. CASE a # 0
    BY <2>1 DEF OfBatch
  <2>2. CASE a = 0
    <3>1. \A x \in rows : x[2] \in Batch /\ IsLatest(x[2], CellOf(x[1]))
      BY <2>2 DEF OfDate
    <3> HIDE DEF rows
    <3> QED BY <3>1, OneLatest
  <2> QED BY <2>1, <2>2
<1>5. \A x \in rows : IF a = 0 THEN IsLast(x[2], x[1]) ELSE LastOrPassed(p, x[2], x[1])
  <2>1. CASE a # 0
    <3>1. \A x \in rows : x[1] \in File /\ x[2] = batch[p] /\ Holds(x[2], x[1])
      BY <2>1 DEF OfBatch
    <3>2. place[p] = "resolved"
      BY <1>1, <1>2, <2>1 DEF RunInv, Phases
    <3>3. \A f \in File : Holds(batch[p], f) => LastOrPassed(p, batch[p], f)
      BY <1>2, <2>1, <3>2 DEF RunInv, BatchLast
    <3> HIDE DEF rows, a
    <3> QED BY <2>1, <3>1, <3>3
  <2>2. CASE a = 0
    <3>1. \A x \in rows : /\ x[1] \in File /\ x[2] \in Batch
                          /\ Holds(x[2], x[1]) /\ IsLatest(x[2], CellOf(x[1]))
      BY <2>2 DEF OfDate
    <3> HIDE DEF rows, a
    <3> QED BY <2>2, <3>1, LatestIsLast
  <2> QED BY <2>1, <2>2
<1>6. Select(p, a, rows) /\ place[p] \in {"idle", "resolved"}
  BY <1>1
<1> HIDE DEF a, rows
<1> QED BY <1>3, <1>4, <1>5, <1>6, Selected

LEMMA SelectedLatest ==
  ASSUME TypeOK, NEW p \in Run, RunInv(p), SelectLatest(p)
  PROVE  RunInv(p)'
<1>1. place[p] = "idle" /\ batch[p] = 0 /\ Select(p, 0, OfFamilies)
  BY DEF SelectLatest, RunInv, Phases
<1>2. \A x \in OfFamilies : /\ x[1] \in File /\ x[2] \in Batch
                           /\ Holds(x[2], x[1]) /\ IsLatest(x[2], CellOf(x[1]))
  BY DEF OfFamilies
<1>3. \A x, y \in OfFamilies : CellOf(x[1]) = CellOf(y[1]) => x[2] = y[2]
  BY <1>2, OneLatest
<1>4. \A x \in OfFamilies : IsLast(x[2], x[1])
  BY <1>2, LatestIsLast
<1> QED BY <1>1, <1>3, <1>4, Selected

\* A run that has committed goes on.
LEMMA GoneOn ==
  ASSUME TypeOK, NEW p \in Run, RunInv(p),
         UNCHANGED <<order, manifest, batch, passed>>,
         place'[p] \in {"committed", "recorded", "resolved"},
         place'[p] = "resolved" => ~order[p].given,
         place[p] # "ingested" \/ batch[p] = 0,
         picks'[p] = {}, left'[p] \subseteq left[p]
  PROVE  RunInv(p)'
<1>1. Phases(p)'
  BY DEF RunInv, Phases
<1>2. LeftHeld(p)'
  BY DEF RunInv, LeftHeld, OfBatch, Holds, Batch
<1>3. PicksGood(p)'
  BY DEF PicksGood
<1>4. BatchLast(p)'
  BY DEF RunInv, BatchLast, LastOrPassed, IsLast, Holds, Batch
<1> QED BY <1>1, <1>2, <1>3, <1>4 DEF RunInv

\* A step of one run touches no other, but for the files its ingest passes.
LEMMA Others ==
  ASSUME TypeOK, NEW p \in Run, NEW q \in Run, p # q, RunNext(p)
  PROVE  /\ SameRun(q)
         /\ ~AppendManifest(p) => manifest' = manifest /\ passed'[q] = passed[q]
<1> DEFINE Same == SameRun(q) /\ manifest' = manifest /\ passed'[q] = passed[q]
<1>1. \A from : Ends(p, from) /\ UNCHANGED <<order, manifest>> => Same
  BY DEF Ends, Goto, TypeOK, SameRun
<1>2. \A a, rows : Select(p, a, rows) => Same
  <2> SUFFICES ASSUME NEW a, NEW rows, Select(p, a, rows) PROVE Same
    OBVIOUS
  <2>1. PICK there :
          /\ picks' = [picks EXCEPT ![p] = there]
          /\ place' = [place EXCEPT ![p] = IF there = {} THEN "empty" ELSE "selected"]
    BY DEF Select
  <2> QED BY <2>1 DEF Select, TypeOK, SameRun
<1>3. CASE Scan(p) \/ Commit(p)
  BY <1>3 DEF Scan, Commit, Goto, TypeOK, SameRun
<1>4. CASE AppendManifest(p)
  BY <1>4 DEF AppendManifest, Goto, TypeOK, SameRun
<1>5. CASE ResolveDates(p)
  BY <1>1, <1>5 DEF ResolveDates, Goto, TypeOK, SameRun
<1>6. CASE SelectOfDate(p) \/ SelectLatest(p)
  BY <1>2, <1>6 DEF SelectOfDate, SelectLatest
<1>7. CASE RecordCompleted(p)
  BY <1>1, <1>7 DEF RecordCompleted, Goto, TypeOK, SameRun
<1>8. CASE MaterializeBalance(p)
  BY <1>1, <1>8 DEF MaterializeBalance, Goto, TypeOK, SameRun
<1>9. CASE ManifestFails(p) \/ SnapshotFails(p) \/ RecordFails(p) \/ BalanceRaises(p)
  BY <1>1, <1>9 DEF ManifestFails, SnapshotFails, RecordFails, BalanceRaises, Stop
<1> QED BY <1>3, <1>4, <1>5, <1>6, <1>7, <1>8, <1>9 DEF RunNext

LEMMA Runs == IInv /\ [Next]_vars => \A q \in Run : RunInv(q)'
<1> SUFFICES ASSUME IInv, [Next]_vars, NEW q \in Run PROVE RunInv(q)'
  OBVIOUS
<1>1. TypeOK /\ RunInv(q)
  BY DEF IInv
<1>2. CASE UNCHANGED <<runVars, manifest, passed>>
  BY <1>1, <1>2, Untouched DEF runVars, SameRun
<1>3. ASSUME NEW f \in File, FileArrives(f) PROVE RunInv(q)'
  BY <1>2, <1>3 DEF FileArrives
<1>4. ASSUME NEW p \in Run, RunNext(p), p # q, ~AppendManifest(p) PROVE RunInv(q)'
  BY <1>1, <1>4, Others, Untouched
<1>5. ASSUME NEW p \in Run, AppendManifest(p), p # q PROVE RunInv(q)'
  <2>1. SameRun(q) /\ found[p] \in Files
    BY <1>1, <1>5 DEF AppendManifest, Goto, TypeOK, SameRun
  <2>2. passed'[q] = IF Chose(q) THEN passed[q] \cup New(p) ELSE {}
    BY <1>5 DEF AppendManifest
  <2>3. CASE New(p) # {}
    <3>1. manifest' = Append(manifest, found[p])
      BY <1>5, <2>3 DEF AppendManifest
    <3>2. passed'[q] = IF Chose(q) THEN passed[q] \cup {f \in File : found[p][f] # 0} ELSE {}
      BY <2>2 DEF New
    <3> QED BY <1>1, <2>1, <3>1, <3>2, Passed
  <2>4. CASE New(p) = {} /\ Chose(q)
    BY <1>1, <1>5, <2>1, <2>2, <2>4, Untouched DEF AppendManifest
  <2>5. CASE New(p) = {} /\ ~Chose(q)
    <3>1. manifest' = manifest /\ batch[q] = 0 /\ picks[q] = {}
      BY <1>5, <2>5 DEF AppendManifest, Chose
    <3> QED BY <1>1, <2>1, <3>1
        DEF SameRun, RunInv, Phases, LeftHeld, PicksGood, BatchLast, OfBatch, Holds, Batch
  <2> QED BY <2>3, <2>4, <2>5
<1>6. ASSUME RunNext(q) PROVE RunInv(q)'
  <2>1. CASE Scan(q)
    <3>1. /\ order[q].kind = "pipeline" /\ batch[q] = 0 /\ picks[q] = {}
          /\ place'[q] = "scanned" /\ UNCHANGED <<order, batch, left, picks>>
      BY <1>1, <2>1 DEF Scan, Goto, TypeOK, RunInv, Phases
    <3> QED BY <1>1, <3>1 DEF RunInv, Phases, LeftHeld, PicksGood, BatchLast
  <2>2. CASE AppendManifest(q) \/ ResolveDates(q) \/ SelectOfDate(q) \/ SelectLatest(q)
    BY <1>1, <2>2, Appended, Resolved, SelectedOfDate, SelectedLatest
  <2>3. CASE Commit(q)
    <3>1. /\ place[q] = "selected" /\ place'[q] = "committed" /\ picks'[q] = {}
          /\ UNCHANGED <<order, manifest, batch, left, passed>>
      BY <1>1, <2>3 DEF Commit, Goto, TypeOK
    <3> QED BY <1>1, <3>1, GoneOn
  <2>4. CASE RecordCompleted(q)
    <3>1. CASE order[q].kind = "pipeline"
      <4>1. /\ place[q] \in {"committed", "empty"} /\ place'[q] = "recorded"
            /\ UNCHANGED <<order, manifest, batch, left, picks, passed>>
        BY <1>1, <2>4, <3>1 DEF RecordCompleted, Goto, TypeOK
      <4>2. picks'[q] = {}
        BY <1>1, <4>1 DEF RunInv, Phases
      <4> QED BY <1>1, <4>1, <4>2, GoneOn
    <3>2. CASE order[q].kind # "pipeline"
      BY <1>1, <2>4, <3>2, Ended DEF RecordCompleted
    <3> QED BY <3>1, <3>2
  <2>5. CASE MaterializeBalance(q)
    <3>1. PICK d \in Date :
            /\ IsNext(q, d) /\ AtBalance(q) /\ UNCHANGED <<order, manifest>>
            /\ \/ Ends(q, Place)
               \/ /\ left[q] # {d} /\ Goto(q, Place, "resolved")
                  /\ left' = [left EXCEPT ![q] = @ \ {d}]
                  /\ UNCHANGED <<found, batch, picks, asked, passed>>
      BY <2>5 DEF MaterializeBalance
    <3>2. CASE Ends(q, Place)
      BY <1>1, <3>2, Ended
    <3>3. CASE ~Ends(q, Place)
      <4>1. /\ place'[q] = "resolved" /\ left'[q] = left[q] \ {d} /\ left[q] # {d} /\ d \in left[q]
            /\ place[q] \in {"recorded", "idle"}
            /\ UNCHANGED <<order, manifest, batch, picks, passed>>
        BY <1>1, <3>1, <3>3 DEF Goto, TypeOK, IsNext, AtBalance
      <4>2. picks'[q] = {}
        BY <1>1, <4>1 DEF RunInv, Phases
      <4>3. ~order[q].given
        <5>1. order[q] \in Orders
          BY <1>1 DEF TypeOK
        <5>2. order[q].given => \A e \in left[q] : e = d
          BY <1>1, <4>1, <5>1 DEF Orders, RunInv, Phases
        <5> QED BY <4>1, <5>2
      <4> QED BY <1>1, <4>1, <4>2, <4>3, GoneOn
    <3> QED BY <3>2, <3>3
  <2>6. CASE \E from : Stop(q, from)
    BY <1>1, <2>6, Ended DEF Stop
  <2>7. ManifestFails(q) \/ SnapshotFails(q) \/ RecordFails(q) \/ BalanceRaises(q)
          => \E from : Stop(q, from)
    BY DEF ManifestFails, SnapshotFails, RecordFails, BalanceRaises
  <2> QED BY <1>6, <2>1, <2>2, <2>3, <2>4, <2>5, <2>6, <2>7 DEF RunNext
<1> QED BY <1>2, <1>3, <1>4, <1>5, <1>6 DEF Next, vars

THEOREM Invariance == Spec => []IInv
<1>1. Init => IInv
  BY Initial, RunsInitially DEF IInv
<1>2. IInv /\ [Next]_vars => IInv'
  BY Types, Runs DEF IInv
<1> QED BY <1>1, <1>2, PTL DEF Spec

\* Every variable keeps its type: what runs pick is in the manifest, also when
\* other runs ingest.
THEOREM TypeCorrect == Spec => []TypeOK
<1>1. IInv => TypeOK
  BY DEF IInv
<1> QED BY <1>1, Invariance, PTL

-----------------------------------------------------------------------------
(***************************************************************************)
(* The snapshot tables                                                     *)
(***************************************************************************)
\* What is selected before the writer lock is taken is what was ingested last,
\* unless a later ingest of the same file came in between.
THEOREM WritesLastUnlessPassedHolds == Spec => WritesLastUnlessPassed
<1> DEFINE Writes == \A p \in Run : (place[p] = "selected" /\ place'[p] = "committed") =>
              \A x \in picks[p] : x[1] \in passed[p] \/ IsLast(x[2], x[1])
<1>1. IInv => Writes
  BY DEF IInv, RunInv, PicksGood, LastOrPassed
<1>2. Spec => [][Writes]_vars
  BY <1>1, Invariance, PTL DEF Spec
<1> QED BY <1>2 DEF WritesLastUnlessPassed

\* There is one latest earlier date to carry rows forward from.
LEMMA OnePrior ==
  ASSUME NEW c \in Cell, NEW b \in Cell, NEW e \in Cell, IsPrior(b, c), IsPrior(e, c)
  PROVE  b = e
<1>1. b[2] \in Nat /\ e[2] \in Nat /\ b = <<"tyw", b[2]>> /\ e = <<"tyw", e[2]>>
  BY Numbers DEF IsPrior
<1>2. ~(b[2] < e[2]) /\ ~(e[2] < b[2])
  BY DEF IsPrior
<1> QED BY <1>1, <1>2

LEMMA OneBatchInitially == Init => OneBatchUnlessUndated
BY DEF Init, OneBatchUnlessUndated

\* Two rows of a snapshot that a reader of the date may add up.
Agree(g, h) ==
  g.batch = h.batch /\ CellOf(g.file) = CellOf(h.file) /\ (g.file = h.file => g = h)

LEMMA OneBatchKept ==
  ASSUME TypeOK, OneBatchUnlessUndated, NEW p \in Run, RunInv(p), Commit(p)
  PROVE  OneBatchUnlessUndated'
<1> SUFFICES ASSUME NEW c \in Cell, c \notin undated', NEW g \in tables'[c], NEW h \in tables'[c]
             PROVE  Agree(g, h)
  BY DEF OneBatchUnlessUndated, Agree, CellOf
<1>1. CASE Picked(p, c)
  <2>1. Dated(p)
    BY <1>1 DEF Commit
  <2>2. tables'[c] = NewRows(p, c)
    BY <1>1, <2>1 DEF Commit, Kept
  <2>3. PICK x \in PicksOf(p, c) :
          g = [batch |-> x[2], file |-> x[1], version |-> manifest[x[2]][x[1]]]
    BY <2>2 DEF NewRows
  <2>4. PICK y \in PicksOf(p, c) :
          h = [batch |-> y[2], file |-> y[1], version |-> manifest[y[2]][y[1]]]
    BY <2>2 DEF NewRows
  <2>5. CellOf(x[1]) = CellOf(y[1]) /\ x[2] = y[2]
    BY DEF PicksOf, RunInv, PicksGood
  <2> QED BY <2>3, <2>4, <2>5 DEF Agree
<1>2. CASE ~Picked(p, c) /\ CarriesTo(p, c)
  <2>1. PICK b \in Cell : IsPrior(b, c)
    BY <1>2 DEF CarriesTo
  <2>2. b \notin undated
    BY <1>2, <2>1 DEF Commit
  <2>3. \A k, l \in tables[b] : Agree(k, l)
    BY <2>2 DEF OneBatchUnlessUndated, Agree
  <2>4. {e \in Cell : IsPrior(e, c)} = {b}
    BY <2>1, OnePrior
  <2>5. CarriedTo(c) = {[k EXCEPT !.batch = 0] : k \in tables[b]}
    BY <2>4 DEF CarriedTo
  <2>6. tables'[c] = CarriedTo(c)
    BY <1>2 DEF Commit
  <2>7. \A k \in tables[b] : k = [batch |-> k.batch, file |-> k.file, version |-> k.version]
    BY DEF TypeOK, RowGroup
  <2>8. PICK k \in tables[b] : g = [batch |-> 0, file |-> k.file, version |-> k.version]
    BY <2>5, <2>6, <2>7
  <2>9. PICK l \in tables[b] : h = [batch |-> 0, file |-> l.file, version |-> l.version]
    BY <2>5, <2>6, <2>7
  <2>10. CellOf(k.file) = CellOf(l.file) /\ (k.file = l.file => k.version = l.version)
    BY <2>3 DEF Agree
  <2> QED BY <2>8, <2>9, <2>10 DEF Agree
<1>3. CASE ~Picked(p, c) /\ ~CarriesTo(p, c)
  BY <1>3 DEF Commit, OneBatchUnlessUndated, Agree
<1> QED BY <1>1, <1>2, <1>3

\* Only a commit changes the tables.
LEMMA TablesStay ==
  ASSUME [Next]_vars, \A p \in Run : ~Commit(p)
  PROVE  UNCHANGED <<tables, undated>>
<1>1. ASSUME NEW p \in Run, RunNext(p) PROVE UNCHANGED <<tables, undated>>
  BY <1>1 DEF RunNext, Scan, AppendManifest, ResolveDates, SelectOfDate, SelectLatest, Select,
     RecordCompleted, MaterializeBalance, ManifestFails, SnapshotFails, RecordFails,
     BalanceRaises, Stop
<1> QED BY <1>1 DEF Next, vars, FileArrives

\* The rows of a family and a date come from one batch and hold each file in one
\* version, unless they were written without a report date or carried from such
\* rows.
THEOREM OneBatchUnlessUndatedHolds == Spec => []OneBatchUnlessUndated
<1>1. IInv /\ OneBatchUnlessUndated /\ [Next]_vars => OneBatchUnlessUndated'
  <2> SUFFICES ASSUME IInv, OneBatchUnlessUndated, [Next]_vars PROVE OneBatchUnlessUndated'
    OBVIOUS
  <2>1. CASE \E p \in Run : Commit(p)
    BY <2>1, OneBatchKept DEF IInv
  <2>2. CASE \A p \in Run : ~Commit(p)
    BY <2>2, TablesStay DEF OneBatchUnlessUndated
  <2> QED BY <2>1, <2>2
<1> QED BY <1>1, OneBatchInitially, Invariance, PTL DEF Spec

-----------------------------------------------------------------------------
(***************************************************************************)
(* The balance facts                                                       *)
(***************************************************************************)
\* The rows a materialization loads that was not asked for a batch.
LEMMA LoadsOneBatch ==
  ASSUME TypeOK, NEW c \in Cell, Resolves(0, c),
         NEW g \in Loads(0, c), NEW h \in Loads(0, c)
  PROVE  g.batch = h.batch
<1>1. CASE Entered(c)
  <2>1. /\ g.batch \in Batch /\ IsLatest(g.batch, c)
        /\ h.batch \in Batch /\ IsLatest(h.batch, c)
    BY <1>1 DEF Loads
  <2> QED BY <2>1, OneLatest
<1>2. CASE ~Entered(c)
  BY <1>2 DEF Loads, Resolves
<1> QED BY <1>1, <1>2

\* Balance facts that were not asked of a batch count no position of two
\* batches, whatever the snapshot of the date holds.
THEOREM UnaskedBalanceIsOfOneBatchHolds == Spec => []UnaskedBalanceIsOfOneBatch
<1>1. Init => UnaskedBalanceIsOfOneBatch
  BY DEF Init, NoBalance, UnaskedBalanceIsOfOneBatch
<1>2. IInv /\ UnaskedBalanceIsOfOneBatch /\ [Next]_vars => UnaskedBalanceIsOfOneBatch'
  <2> SUFFICES ASSUME IInv, UnaskedBalanceIsOfOneBatch, [Next]_vars,
                      NEW c \in Cell, balance'[c].asked = 0,
                      NEW g \in balance'[c].rows, NEW h \in balance'[c].rows
               PROVE  g.batch = h.batch
    BY DEF UnaskedBalanceIsOfOneBatch
  <2>1. CASE UNCHANGED balance
    BY <2>1 DEF UnaskedBalanceIsOfOneBatch
  <2>2. ASSUME NEW p \in Run, MaterializeBalance(p) PROVE g.batch = h.batch
    <3>1. PICK d \in Date :
            /\ \A e \in Cell : e[2] = d => Resolves(asked[p], e)
            /\ balance' = [e \in Cell |-> IF e[2] = d
                 THEN [rows |-> Loads(asked[p], e), asked |-> asked[p]] ELSE balance[e]]
      BY <2>2 DEF MaterializeBalance
    <3>2. CASE c[2] = d
      <4>1. asked[p] = 0 /\ balance'[c].rows = Loads(asked[p], c)
        BY <3>1, <3>2
      <4>2. Resolves(0, c) /\ g \in Loads(0, c) /\ h \in Loads(0, c)
        BY <3>1, <3>2, <4>1
      <4> QED BY <4>2, LoadsOneBatch DEF IInv
    <3>3. CASE c[2] # d
      BY <3>1, <3>3 DEF UnaskedBalanceIsOfOneBatch
    <3> QED BY <3>2, <3>3
  <2>3. ASSUME NEW p \in Run, RunNext(p), ~MaterializeBalance(p) PROVE UNCHANGED balance
    BY <2>3 DEF RunNext, Scan, AppendManifest, ResolveDates, SelectOfDate, SelectLatest, Select,
       Commit, RecordCompleted, ManifestFails, SnapshotFails, RecordFails, BalanceRaises, Stop
  <2> QED BY <2>1, <2>2, <2>3 DEF Next, vars, FileArrives
<1> QED BY <1>1, <1>2, Invariance, PTL DEF Spec

-----------------------------------------------------------------------------
(***************************************************************************)
(* Files that are not shown                                                *)
(***************************************************************************)
\* The dates a run is still bound to do.
Due(p) ==
  IF place[p] = "ingested" THEN Date
  ELSE IF place[p] = "resolved" THEN left[p]
  ELSE {d \in left[p] : ~IsNext(p, d)}

LEMMA Firsts ==
  ASSUME NEW S, NEW n
  PROVE  {x[1] : x \in S \X {n}} = S
<1>1. \A x \in S \X {n} : x[1] \in S
  OBVIOUS
<1>2. \A s \in S : <<s, n>> \in S \X {n} /\ <<s, n>>[1] = s
  OBVIOUS
<1> QED BY <1>1, <1>2

BoundFiles(p) ==
  {f \in File : \/ <<f, batch[p]>> \in picks[p]
                \/ DateOf[f] \in Due(p) /\ batch[p] \in Batch /\ Holds(batch[p], f)}

LEMMA BoundIs == \A p : Bound(p) = BoundFiles(p) /\ Bound(p)' = BoundFiles(p)'
<1>1. \A p : Bound(p) = BoundFiles(p)
  BY Firsts DEF Bound, OfBatch, Due, BoundFiles
<1>2. \A p : Bound(p)' = BoundFiles(p)'
  BY Firsts DEF Bound, OfBatch, Due, BoundFiles
<1> QED BY <1>1, <1>2

LEMMA NotBound ==
  ASSUME TypeOK, NEW p \in Run, batch[p] = 0
  PROVE  Bound(p) = {}
<1>1. 0 \notin Batch
  BY Batches DEF Batch
<1>2. \A f : <<f, 0>> \notin picks[p]
  BY <1>1 DEF TypeOK
<1> QED BY <1>1, <1>2, BoundIs DEF BoundFiles

LEMMA BoundStays ==
  ASSUME NEW q \in Run, SameRun(q), manifest' = manifest
  PROVE  Bound(q)' = Bound(q)
BY DEF SameRun, Bound, OfBatch, Holds, Batch, IsNext

\* A file is in the snapshot of its date as batch n has it.
Shown(f, n) == \E g \in OwnRows(n, CellOf(f)) : g.file = f

\* A step that leaves the manifest and the tables, and of every file a run is
\* bound to show leaves it bound or says that it was missed.
LEMMA HandedOn ==
  ASSUME EnteredIsShownUnlessMissed, UNCHANGED <<manifest, tables>>, missed \subseteq missed',
         \A p \in Run : Bound(p) \subseteq Bound(p)' \cup missed'
  PROVE  EnteredIsShownUnlessMissed'
<1> SUFFICES ASSUME NEW f \in File, NEW n \in Batch', IsLast(n, f)', f \notin missed',
                    \A p \in Run : f \notin Bound(p)'
             PROVE  Shown(f, n)'
  BY DEF EnteredIsShownUnlessMissed, Shown
<1>1. n \in Batch /\ IsLast(n, f)
  BY DEF IsLast, Holds, Batch
<1>2. Shown(f, n)
  BY <1>1 DEF EnteredIsShownUnlessMissed, Shown
<1> QED BY <1>2 DEF Shown, OwnRows, CellOf

LEMMA ShownAfterStop ==
  ASSUME IInv, EnteredIsShownUnlessMissed, NEW p \in Run, NEW from, Stop(p, from)
  PROVE  EnteredIsShownUnlessMissed'
<1>1. \A q \in Run : q # p => SameRun(q)
  BY DEF IInv, Stop, Ends, Goto, TypeOK, SameRun
<1>2. \A q \in Run : q # p => Bound(q)' = Bound(q)
  BY <1>1, BoundStays DEF Stop
<1>3. Bound(p) \subseteq missed' /\ missed \subseteq missed'
  BY DEF Stop
<1> QED BY <1>2, <1>3, HandedOn DEF Stop

LEMMA ShownAfterAppend ==
  ASSUME IInv, EnteredIsShownUnlessMissed, NEW p \in Run, AppendManifest(p)
  PROVE  EnteredIsShownUnlessMissed'
<1>1. TypeOK /\ batch[p] = 0 /\ \A q \in Run : q # p => SameRun(q)
  BY DEF IInv, AppendManifest, Goto, TypeOK, SameRun, RunInv, Phases
<1>2. CASE New(p) = {}
  <2>1. \A q \in Run : Bound(q) \subseteq Bound(q)'
    BY <1>1, <1>2, NotBound, BoundStays DEF AppendManifest
  <2> QED BY <1>2, <2>1, HandedOn DEF AppendManifest
<1>3. CASE New(p) # {}
  <2> DEFINE k == Len(manifest) + 1
  <2>1. manifest' = Append(manifest, found[p]) /\ found[p] \in Files
    BY <1>1, <1>3 DEF AppendManifest, TypeOK
  <2>2. /\ Batch' = Batch \cup {k}
        /\ \A m \in Batch : manifest'[m] = manifest[m]
    BY <1>1, <2>1, Grown
  <2>3. batch'[p] = k /\ place'[p] = "ingested" /\ tables' = tables /\ missed' = missed
    BY <1>1, <1>3 DEF AppendManifest, Goto, TypeOK
  <2> HIDE DEF k
  <2> SUFFICES ASSUME NEW f \in File, NEW n \in Batch', IsLast(n, f)', f \notin missed',
                      \A q \in Run : f \notin Bound(q)'
               PROVE  Shown(f, n)'
    BY DEF EnteredIsShownUnlessMissed, Shown
  <2>4. n # k
    <3>1. DateOf[f] \in Due(p)'
      BY <2>3, Numbers DEF Due
    <3>2. n = k => Holds(batch[p], f)'
      BY <2>3 DEF IsLast, Holds
    <3> QED BY <2>2, <2>3, <3>1, <3>2, BoundIs DEF BoundFiles
  <2>5. n \in Batch /\ IsLast(n, f)
    <3>1. n \in Batch
      BY <2>2, <2>4
    <3> QED BY <1>1, <2>1, <3>1, GrownBatch
  <2>6. \A q \in Run : f \notin Bound(q)
    <3> SUFFICES ASSUME NEW q \in Run, f \in Bound(q) PROVE FALSE
      OBVIOUS
    <3>1. q # p
      BY <1>1, NotBound
    <3>2. SameRun(q)
      BY <1>1, <3>1
    <3>3. CASE <<f, batch[q]>> \in picks[q]
      <4>1. <<f, batch'[q]>> \in picks'[q]
        BY <3>2, <3>3 DEF SameRun
      <4> QED BY <4>1, BoundIs DEF BoundFiles
    <3>4. CASE batch[q] \in Batch /\ Holds(batch[q], f) /\ DateOf[f] \in Due(q)
      <4>1. Holds(batch[q], f)' /\ batch'[q] \in Batch'
        BY <2>2, <3>2, <3>4 DEF SameRun, Holds
      <4>2. DateOf[f] \in Due(q)'
        BY <3>2, <3>4 DEF SameRun, Due, IsNext
      <4> QED BY <4>1, <4>2, BoundIs DEF BoundFiles
    <3> QED BY <3>3, <3>4, BoundIs DEF BoundFiles
  <2>7. Shown(f, n)
    BY <2>3, <2>5, <2>6 DEF EnteredIsShownUnlessMissed, Shown
  <2> QED BY <2>3, <2>7 DEF Shown, OwnRows, CellOf
<1> QED BY <1>2, <1>3

\* What a pipeline resolves it does, and what it does not was missed.
LEMMA ShownAfterResolve ==
  ASSUME IInv, EnteredIsShownUnlessMissed, NEW p \in Run, ResolveDates(p)
  PROVE  EnteredIsShownUnlessMissed'
<1>1. TypeOK /\ place[p] = "ingested" /\ UNCHANGED <<manifest, tables, order>>
  BY DEF IInv, ResolveDates, Ends, Goto
<1>2. \A q \in Run : q # p => Bound(q)' = Bound(q)
  <2>1. RunNext(p) /\ ~AppendManifest(p)
    BY <1>1 DEF RunNext, AppendManifest, Goto
  <2> QED BY <1>1, <2>1, Others, BoundStays
<1>3. Bound(p) \subseteq Bound(p)' \cup missed'
  <2>1. picks[p] = {}
    BY <1>1 DEF IInv, RunInv, Phases
  <2> SUFFICES ASSUME NEW f \in File, DateOf[f] \in Date, batch[p] \in Batch,
                      Holds(batch[p], f), f \notin missed'
               PROVE  f \in Bound(p)'
    BY <2>1, Numbers, BoundIs DEF BoundFiles
  <2>2. <<f, batch[p]>> \in OfBatch(batch[p], Date \ DatesOf(p)) \/ DateOf[f] \in DatesOf(p)
    BY DEF OfBatch
  <2>3. <<f, batch[p]>>[1] = f
    OBVIOUS
  <2>4. DateOf[f] \in DatesOf(p)
    BY <2>2, <2>3 DEF ResolveDates
  <2>5. place'[p] = "resolved" /\ left'[p] = DatesOf(p) /\ batch' = batch
    BY <1>1, <2>4 DEF ResolveDates, Goto, TypeOK
  <2> QED BY <1>1, <2>4, <2>5, BoundIs DEF BoundFiles, Due, Holds, Batch
<1> QED BY <1>1, <1>2, <1>3, HandedOn DEF ResolveDates

\* A selection finds what the batch has of the date, or says that it was missed.
LEMMA ShownAfterSelect ==
  ASSUME IInv, EnteredIsShownUnlessMissed, NEW p \in Run, SelectOfDate(p) \/ SelectLatest(p)
  PROVE  EnteredIsShownUnlessMissed'
<1>1. TypeOK /\ RunInv(p)
  BY DEF IInv
<1>2. \A q \in Run : q # p => Bound(q)' = Bound(q)
  <2>1. RunNext(p) /\ ~AppendManifest(p)
    BY DEF RunNext, AppendManifest, SelectOfDate, SelectLatest, Goto
  <2> QED BY <1>1, <2>1, Others, BoundStays
<1>3. PICK a, rows : Select(p, a, rows)
  BY DEF SelectOfDate, SelectLatest
<1>4. UNCHANGED <<manifest, tables, batch, left>> /\ missed \subseteq missed'
  BY <1>3 DEF Select
<1>5. Bound(p) \subseteq Bound(p)' \cup missed'
  <2>1. CASE batch[p] = 0
    BY <1>1, <2>1, NotBound
  <2>2. CASE batch[p] # 0
    <3>1. place[p] = "resolved" /\ SelectOfDate(p) /\ picks[p] = {}
      BY <1>1, <2>2 DEF SelectOfDate, SelectLatest, RunInv, Phases
    <3>2. PICK d \in Date :
            /\ IsNext(p, d)
            /\ Select(p, Asks(p, d),
                 IF Asks(p, d) # 0 THEN OfBatch(batch[p], {d}) ELSE OfDate(d))
      BY <3>1 DEF SelectOfDate
    <3> SUFFICES ASSUME NEW f \in File, DateOf[f] \in left[p], batch[p] \in Batch,
                        Holds(batch[p], f)
                 PROVE  f \in Bound(p)' \/ f \in missed'
      BY <3>1, BoundIs DEF BoundFiles, Due
    <3>3. CASE DateOf[f] = d
      <4>1. <<f, batch[p]>> \in OfBatch(batch[p], {d})
        BY <3>3 DEF OfBatch
      <4>2. Asks(p, d) = batch[p]
        BY <2>2, <4>1 DEF Asks
      <4>3. PICK there \in SUBSET OfBatch(batch[p], {d}) :
              /\ picks' = [picks EXCEPT ![p] = there]
              /\ missed' = missed \cup {x[1] : x \in OfBatch(batch[p], {d}) \ there}
        BY <2>2, <3>2, <4>2 DEF Select
      <4>4. <<f, batch[p]>>[1] = f
        OBVIOUS
      <4>5. CASE <<f, batch[p]>> \in there
        <5>1. <<f, batch'[p]>> \in picks'[p]
          BY <1>1, <1>4, <4>3, <4>5 DEF TypeOK
        <5> QED BY <5>1, BoundIs DEF BoundFiles
      <4>6. CASE <<f, batch[p]>> \notin there
        BY <4>1, <4>3, <4>4, <4>6
      <4> QED BY <4>5, <4>6
    <3>4. CASE DateOf[f] # d
      <4>1. ~IsNext(p, DateOf[f])
        <5>1. IsNext(p, DateOf[f]) =>
                DateOf[f] \in Nat /\ d \in Nat /\ DateOf[f] <= d /\ d <= DateOf[f]
          BY <1>1, <3>2, Numbers DEF IsNext, TypeOK
        <5> QED BY <3>4, <5>1
      <4>2. ~IsNext(p, DateOf[f])'
        BY <1>4, <4>1 DEF IsNext
      <4>3. place'[p] \in {"empty", "selected"}
        <5>1. \A there : place' = [place EXCEPT ![p] = IF there = {} THEN "empty" ELSE "selected"]
                => place'[p] \in {"empty", "selected"}
          BY <1>1 DEF TypeOK
        <5> QED BY <1>3, <5>1 DEF Select
      <4>4. DateOf[f] \in Due(p)'
        BY <1>4, <4>2, <4>3 DEF Due
      <4> QED BY <1>4, <4>4, BoundIs DEF BoundFiles, Holds, Batch
    <3> QED BY <3>3, <3>4
  <2> QED BY <2>1, <2>2
<1> QED BY <1>2, <1>4, <1>5, HandedOn

\* A commit shows what it selected last, and says what it leaves behind.
LEMMA ShownAfterCommit ==
  ASSUME IInv, EnteredIsShownUnlessMissed, NEW p \in Run, Commit(p)
  PROVE  EnteredIsShownUnlessMissed'
<1>1. TypeOK /\ RunInv(p)
  BY DEF IInv
<1>2. \A q \in Run : q # p => Bound(q)' = Bound(q)
  <2>1. RunNext(p) /\ ~AppendManifest(p)
    BY DEF RunNext, AppendManifest, Commit, Goto
  <2> QED BY <1>1, <2>1, Others, BoundStays
<1>3. /\ place[p] = "selected" /\ place'[p] = "committed"
      /\ UNCHANGED <<manifest, order, batch, left>>
      /\ missed' = (missed \ Caught(p)) \cup Behind(p)
  BY <1>1 DEF Commit, Goto, TypeOK
<1> SUFFICES ASSUME NEW f \in File, NEW n \in Batch, IsLast(n, f), f \notin missed',
                    \A q \in Run : f \notin Bound(q)'
             PROVE  Shown(f, n)'
  BY <1>3 DEF EnteredIsShownUnlessMissed, Shown, IsLast, Holds, Batch
<1> DEFINE c == CellOf(f)
<1>4. c \in Cell /\ c' = c
  BY Numbers DEF CellOf
<1>5. CASE <<f, n>> \in picks[p]
  <2> DEFINE row == [batch |-> n, file |-> f, version |-> manifest[n][f]]
  <2>1. <<f, n>> \in PicksOf(p, c)
    BY <1>5 DEF PicksOf
  <2>2. row \in NewRows(p, c)
    BY <2>1 DEF NewRows
  <2>3. row \in tables'[c]
    BY <1>4, <2>1, <2>2 DEF Commit, Picked
  <2>4. row.batch = n /\ row.file = f
    OBVIOUS
  <2> HIDE DEF row
  <2> QED BY <2>3, <2>4 DEF Shown, OwnRows, CellOf
<1>6. CASE <<f, n>> \notin picks[p]
  <2>1. ~Replaces(p, f, n)
    BY <1>3, <1>6 DEF Behind
  <2>2. f \notin missed
    <3>1. f \notin Caught(p)
      BY <1>1, <1>6, OneLast DEF Caught
    <3> QED BY <1>3, <3>1
  <2>3. f \notin Bound(p)
    <3>1. <<f, batch[p]>> \notin picks[p]
      <4> SUFFICES ASSUME <<f, batch[p]>> \in picks[p] PROVE FALSE
        OBVIOUS
      <4>1. batch[p] \in Batch
        BY <1>1 DEF TypeOK
      <4>2. order[p].kind = "pipeline"
        BY <1>1, <4>1, Batches DEF RunInv, Phases, Batch
      <4>3. <<f, batch[p]>> \in PicksOf(p, c)
        BY DEF PicksOf
      <4> QED BY <2>1, <4>2, <4>3 DEF Replaces, Picked, Dated
    <3>2. DateOf[f] \in Due(p) => DateOf[f] \in Due(p)'
      BY <1>3 DEF Due, IsNext
    <3>3. batch[p] \in Batch /\ Holds(batch[p], f) => batch'[p] \in Batch' /\ Holds(batch[p], f)'
      BY <1>3 DEF Holds, Batch
    <3> QED BY <3>1, <3>2, <3>3, BoundIs DEF BoundFiles
  <2>4. \A q \in Run : f \notin Bound(q)
    BY <1>2, <2>3
  <2>5. PICK g \in OwnRows(n, c) : g.file = f
    BY <2>2, <2>4 DEF EnteredIsShownUnlessMissed
  <2>6. g \in tables[c] /\ g.batch = n
    BY <2>5 DEF OwnRows
  <2>7. g \in tables'[c]
    <3>1. ~CarriesTo(p, c) /\ (Picked(p, c) => ~Dated(p) /\ ~IsOfPickedBatch(p, c, n))
      BY <2>1 DEF Replaces
    <3>2. Picked(p, c) => g \in Kept(p, c)
      BY <2>6, <3>1 DEF Kept
    <3> HIDE DEF c
    <3> QED BY <1>4, <2>6, <3>1, <3>2 DEF Commit
  <2> QED BY <2>5, <2>6, <2>7 DEF Shown, OwnRows, CellOf
<1> QED BY <1>5, <1>6

\* The facts of a date are made after its snapshot: what is left is bound.
LEMMA ShownAfterBalance ==
  ASSUME IInv, EnteredIsShownUnlessMissed, NEW p \in Run, MaterializeBalance(p)
  PROVE  EnteredIsShownUnlessMissed'
<1>1. TypeOK /\ RunInv(p)
  BY DEF IInv
<1>2. PICK d \in Date :
        /\ IsNext(p, d) /\ AtBalance(p) /\ UNCHANGED <<manifest, tables, order, missed>>
        /\ \/ left[p] = {d} /\ Ends(p, Place)
           \/ /\ Goto(p, Place, "resolved")
              /\ left' = [left EXCEPT ![p] = @ \ {d}]
              /\ UNCHANGED <<found, batch, picks, asked, passed>>
  BY DEF MaterializeBalance
<1>3. place[p] \in {"recorded", "idle"}
  BY <1>2 DEF AtBalance
<1>4. \A q \in Run : q # p => Bound(q)' = Bound(q)
  <2>1. RunNext(p) /\ ~AppendManifest(p)
    BY <1>3 DEF RunNext, AppendManifest, Goto
  <2> QED BY <1>1, <2>1, Others, BoundStays
<1>5. Bound(p) \subseteq Bound(p)'
  <2>1. picks[p] = {}
    BY <1>1, <1>3 DEF RunInv, Phases
  <2> SUFFICES ASSUME NEW f \in File, DateOf[f] \in left[p], ~IsNext(p, DateOf[f]),
                      batch[p] \in Batch, Holds(batch[p], f)
               PROVE  f \in Bound(p)'
    BY <1>3, <2>1, BoundIs DEF BoundFiles, Due
  <2>2. DateOf[f] # d
    BY <1>2
  <2>3. place'[p] = "resolved" /\ left'[p] = left[p] \ {d} /\ batch' = batch
    BY <1>1, <1>2, <2>2 DEF Goto, TypeOK
  <2> QED BY <1>2, <2>2, <2>3, BoundIs DEF BoundFiles, Due, Holds, Batch
<1> QED BY <1>2, <1>4, <1>5, HandedOn

\* Scanning the directory, and recording a snapshot.
LEMMA ShownAfterRest ==
  ASSUME IInv, EnteredIsShownUnlessMissed, NEW p \in Run, Scan(p) \/ RecordCompleted(p)
  PROVE  EnteredIsShownUnlessMissed'
<1>1. TypeOK /\ RunInv(p)
  BY DEF IInv
<1>2. /\ place[p] \in {"idle", "committed", "empty"}
      /\ UNCHANGED <<manifest, tables, order, missed>>
  BY DEF Scan, RecordCompleted, Ends, Goto
<1>3. \A q \in Run : q # p => Bound(q)' = Bound(q)
  <2>1. RunNext(p) /\ ~AppendManifest(p)
    BY <1>2 DEF RunNext, AppendManifest, Goto
  <2> QED BY <1>1, <1>2, <2>1, Others, BoundStays
<1>4. Bound(p) \subseteq Bound(p)'
  <2>1. CASE batch[p] = 0
    BY <1>1, <2>1, NotBound
  <2>2. CASE batch[p] # 0
    <3>1. order[p].kind = "pipeline" /\ RecordCompleted(p)
      BY <1>1, <2>2 DEF Scan, Goto, RunInv, Phases
    <3>2. place'[p] = "recorded" /\ UNCHANGED <<batch, left>>
      BY <1>1, <3>1 DEF RecordCompleted, Goto, TypeOK
    <3>3. place[p] \in {"committed", "empty"}
      BY <3>1 DEF RecordCompleted, Goto
    <3>4. picks[p] = {}
      BY <1>1, <3>3 DEF RunInv, Phases
    <3> QED BY <1>2, <3>2, <3>3, <3>4, BoundIs DEF BoundFiles, Due, IsNext, Holds, Batch
  <2> QED BY <2>1, <2>2
<1> QED BY <1>2, <1>3, <1>4, HandedOn

\* The last version of every file of the manifest is shown once no pipeline is
\* bound to, unless a pipeline failed, was given another date or found its copy
\* gone, or a commit that left it out replaced its rows: however many pipelines
\* there are, dates, and files of a date.
THEOREM EnteredIsShownUnlessMissedHolds == Spec => []EnteredIsShownUnlessMissed
<1>1. Init => EnteredIsShownUnlessMissed
  BY EmptySeq DEF Init, EnteredIsShownUnlessMissed, Batch
<1>2. IInv /\ EnteredIsShownUnlessMissed /\ [Next]_vars => EnteredIsShownUnlessMissed'
  <2> SUFFICES ASSUME IInv, EnteredIsShownUnlessMissed, [Next]_vars
               PROVE  EnteredIsShownUnlessMissed'
    OBVIOUS
  <2>1. CASE UNCHANGED vars \/ \E f \in File : FileArrives(f)
    <3>1. UNCHANGED <<manifest, tables, missed, runVars>>
      BY <2>1 DEF vars, FileArrives
    <3>2. \A q \in Run : Bound(q)' = Bound(q)
      BY <3>1, BoundStays DEF runVars, SameRun
    <3> QED BY <3>1, <3>2, HandedOn
  <2>2. ASSUME NEW p \in Run, RunNext(p) PROVE EnteredIsShownUnlessMissed'
    BY <2>2, ShownAfterAppend, ShownAfterResolve, ShownAfterSelect, ShownAfterCommit,
       ShownAfterBalance, ShownAfterRest, ShownAfterStop
    DEF RunNext, ManifestFails, SnapshotFails, RecordFails, BalanceRaises
  <2> QED BY <2>1, <2>2 DEF Next
<1> QED BY <1>1, <1>2, Invariance, PTL DEF Spec

=============================================================================
