--------------------------- MODULE GovernanceStore ---------------------------
(***************************************************************************)
(* GovernanceRepository (backend/app/repositories/governance_repo.py): the *)
(* append-only streams in JSONL files, two of which are also tables of a   *)
(* SQL database in the shadow and authority modes.  A call takes the batch *)
(* lock, inserts into an open SQL transaction, writes the lines one by one *)
(* and commits; when something raises it truncates the files to the sizes  *)
(* they had.  Callers are threads and processes; any of them may die.      *)
(*                                                                         *)
(* An entry is a caller and its position in the caller's batch.  The rows  *)
(* of a table are read in the order of created_at, which is stamped under  *)
(* the batch lock: here, the order of the commits.                         *)
(***************************************************************************)
EXTENDS Naturals, Sequences, SequencesExt

CONSTANTS
  Writer,     \* the calls of append and append_many_atomic
  Single,     \* those that call append
  Batch,      \* the streams of the entries of each call, in order
  Stream,     \* the streams
  SqlStream,  \* SUPPORTED_SQL_STREAMS
  Modes,      \* the backend modes to start in
  Faults,     \* the failures that may happen, a subset of FaultKind
  NoWriter    \* the batch lock is free

FaultKind == {"sql", "line", "commit", "ack", "truncate", "crash", "crash_undo"}

ASSUME BatchTypeAssumption == Batch \in [Writer -> Seq(Stream) \ {<<>>}]
ASSUME SingleAssumption ==
  Single \subseteq Writer /\ \A w \in Single : Len(Batch[w]) = 1
ASSUME StreamAssumption == SqlStream \subseteq Stream
\* No caller mixes streams with and without a table in one batch.
ASSUME UnmixedAssumption ==
  \A w \in Writer : \/ \A i \in DOMAIN Batch[w] : Batch[w][i] \in SqlStream
                    \/ \A i \in DOMAIN Batch[w] : Batch[w][i] \notin SqlStream
ASSUME ModeAssumption == Modes \subseteq {"jsonl", "sql-shadow", "sql-authority"}
ASSUME FaultAssumption == Faults \subseteq FaultKind
ASSUME NoWriterAssumption == NoWriter \notin Writer

VARIABLES
  mode,   \* backend_mode, fixed at start
  lock,   \* the caller holding the batch lock, or NoWriter
  stage,  \* where each call is
  next,   \* position of the next row or line the holder writes
  sizes,  \* original_sizes of the holder, in insertion order
  tx,     \* the rows of the holder's open transaction
  jsonl,  \* the lines of each file
  sql,    \* the committed rows of each table
  shown,  \* the result of the last read_all of each stream
  doubt,  \* history: calls that failed without being undone, or not knowing
  before  \* history: what each stream showed when the lock was taken

\* What ends with the `with` of the batch lock.
heldVars == <<lock, next, sizes, tx, before>>
storeVars == <<mode, heldVars, stage, jsonl, sql, shown, doubt>>

Stage == {"idle", "insert", "write", "commit", "undo", "returned", "raised", "crashed"}
Entry == {e \in Writer \X Nat : e[2] \in DOMAIN Batch[e[1]]}

Entries(seq) == {seq[i] : i \in DOMAIN seq}

StoreInit ==
  /\ mode \in Modes
  /\ lock = NoWriter
  /\ stage = [w \in Writer |-> "idle"]
  /\ next = 1
  /\ sizes = <<>>
  /\ tx = [s \in SqlStream |-> <<>>]
  /\ jsonl = [s \in Stream |-> <<>>]
  /\ sql = [s \in SqlStream |-> <<>>]
  /\ shown = [s \in Stream |-> <<>>]
  /\ doubt = {}
  /\ before = [s \in Stream |-> <<>>]

-----------------------------------------------------------------------------
\* _writes_sql for an entry of the batch, and _reads_sql.
WritesSql(w) == mode # "jsonl" /\ Batch[w][1] \in SqlStream
ReadsSql(s) == mode = "sql-authority" /\ s \in SqlStream

Visible(s) == IF ReadsSql(s) THEN sql[s] ELSE jsonl[s]

Move(w, from, to) ==
  /\ stage[w] = from
  /\ stage' = [stage EXCEPT ![w] = to]

\* The call ends: the `with` of the batch lock is left.
Release ==
  /\ lock' = NoWriter
  /\ next' = 1
  /\ sizes' = <<>>
  /\ tx' = [s \in SqlStream |-> <<>>]
  /\ before' = [s \in Stream |-> <<>>]

SizeOf(s) == [stream |-> s, size |-> Len(jsonl[s])]

Acquire(w) ==
  /\ lock = NoWriter
  /\ Move(w, "idle", IF WritesSql(w) THEN "insert" ELSE "write")
  /\ lock' = w
  /\ next' = 1
  /\ sizes' = IF w \in Single THEN <<SizeOf(Batch[w][1])>> ELSE <<>>
  /\ before' = [s \in Stream |-> Visible(s)]
  /\ UNCHANGED <<mode, tx, jsonl, sql, shown, doubt>>

\* acquire_lock gave up: nothing was touched.
LockTimeout(w) ==
  /\ lock # NoWriter
  /\ Move(w, "idle", "raised")
  /\ UNCHANGED <<mode, heldVars, jsonl, sql, shown, doubt>>

\* The next entry, or the next stage with the first.
NextEntry(w, from, to) ==
  IF next = Len(Batch[w])
  THEN Move(w, from, to) /\ next' = 1
  ELSE stage[w] = from /\ next' = next + 1 /\ UNCHANGED stage

\* Mutant: a row is inserted outside the transaction of the lines.
InsertSqlAutocommit(w) ==
  /\ NextEntry(w, "insert", "write")
  /\ sql' = [sql EXCEPT ![Batch[w][next]] = Append(@, <<w, next>>)]
  /\ UNCHANGED <<mode, lock, sizes, tx, before, jsonl, shown, doubt>>

\* A row of the open transaction: nobody sees it before the commit.
InsertSql(w) ==
  /\ NextEntry(w, "insert", "write")
  /\ tx' = [tx EXCEPT ![Batch[w][next]] = Append(@, <<w, next>>)]
  /\ UNCHANGED <<mode, lock, sizes, before, jsonl, sql, shown, doubt>>

InsertFails(w) ==
  /\ "sql" \in Faults
  /\ Move(w, "insert", "raised")
  /\ Release
  /\ UNCHANGED <<mode, jsonl, sql, shown, doubt>>

\* original_sizes keeps the size a file had before the batch's first line.
Remember(s) ==
  sizes' = IF \E k \in DOMAIN sizes : sizes[k].stream = s
           THEN sizes ELSE Append(sizes, SizeOf(s))

WriteLine(w) ==
  LET s == Batch[w][next] IN
  /\ NextEntry(w, "write", "commit")
  /\ Remember(s)
  /\ jsonl' = [jsonl EXCEPT ![s] = Append(@, <<w, next>>)]
  /\ UNCHANGED <<mode, lock, tx, before, sql, shown, doubt>>

\* The write or the close of the file raises, with the line on disk or not.
WriteLineFails(w) ==
  LET s == Batch[w][next] IN
  /\ "line" \in Faults
  /\ Move(w, "write", "undo")
  /\ Remember(s)
  /\ jsonl' \in {jsonl, [jsonl EXCEPT ![s] = Append(@, <<w, next>>)]}
  /\ UNCHANGED <<mode, lock, next, tx, before, sql, shown, doubt>>

CommitRows == sql' = [s \in SqlStream |-> sql[s] \o tx[s]]

\* The transaction, if there is one, commits at the end of its `with`.
Commit(w) ==
  /\ Move(w, "commit", "returned")
  /\ CommitRows
  /\ Release
  /\ UNCHANGED <<mode, jsonl, shown, doubt>>

\* Mutant: no rollback either when the commit of a batch raises.
AfterFailedCommitKeepLines(w) == Move(w, "commit", "raised") /\ Release

\* A commit that raises does so outside the inner `try` of append, but inside
\* the `try` of append_many_atomic.
AfterFailedCommit(w) ==
  IF w \in Single
  THEN Move(w, "commit", "raised") /\ Release
  ELSE Move(w, "commit", "undo") /\ UNCHANGED heldVars

CommitFails(w) ==
  /\ "commit" \in Faults
  /\ WritesSql(w)
  /\ AfterFailedCommit(w)
  /\ doubt' = IF w \in Single THEN doubt \cup {w} ELSE doubt
  /\ UNCHANGED <<mode, jsonl, sql, shown>>

\* The rows are committed but the connection breaks before the answer.
CommitUnacknowledged(w) ==
  /\ "ack" \in Faults
  /\ WritesSql(w)
  /\ CommitRows
  /\ AfterFailedCommit(w)
  /\ doubt' = doubt \cup {w}
  /\ UNCHANGED <<mode, jsonl, shown>>

\* _rollback_jsonl_files goes on to the next file, and raises after the last.
NextUndo(w) ==
  IF Len(sizes) = 1
  THEN Move(w, "undo", "raised") /\ Release
  ELSE /\ stage[w] = "undo"
       /\ sizes' = Tail(sizes)
       /\ UNCHANGED <<stage, lock, next, tx, before>>

\* Mutant: only the first file is truncated.
UndoFirstOnly(w) ==
  LET z == Head(sizes) IN
  /\ Move(w, "undo", "raised")
  /\ Release
  /\ jsonl' = [jsonl EXCEPT ![z.stream] = SubSeq(@, 1, z.size)]
  /\ UNCHANGED <<mode, sql, shown, doubt>>

Undo(w) ==
  LET z == Head(sizes) IN
  /\ NextUndo(w)
  /\ jsonl' = [jsonl EXCEPT ![z.stream] = SubSeq(@, 1, z.size)]
  /\ UNCHANGED <<mode, sql, shown, doubt>>

\* The truncation raises OSError: the lines stay.
UndoFails(w) ==
  /\ "truncate" \in Faults
  /\ NextUndo(w)
  /\ doubt' = doubt \cup {w}
  /\ UNCHANGED <<mode, jsonl, sql, shown>>

\* The caller dies: its lock is freed and its transaction is rolled back.
Crash(w) ==
  /\ lock = w
  /\ IF stage[w] = "undo" THEN "crash_undo" \in Faults ELSE "crash" \in Faults
  /\ stage' = [stage EXCEPT ![w] = "crashed"]
  /\ Release
  /\ doubt' = IF stage[w] = "undo" THEN doubt \cup {w} ELSE doubt
  /\ UNCHANGED <<mode, jsonl, sql, shown>>

\* Mutant: read_all does not take the batch lock.
ReadUnlocked(s) ==
  /\ shown' = [shown EXCEPT ![s] = Visible(s)]
  /\ UNCHANGED <<mode, heldVars, stage, jsonl, sql, doubt>>

ReadAll(s) ==
  /\ lock = NoWriter
  /\ shown' = [shown EXCEPT ![s] = Visible(s)]
  /\ UNCHANGED <<mode, heldVars, stage, jsonl, sql, doubt>>

StoreNext ==
  \/ \E s \in Stream : ReadAll(s)
  \/ \E w \in Writer :
       \/ Acquire(w) \/ LockTimeout(w) \/ InsertSql(w) \/ InsertFails(w)
       \/ WriteLine(w) \/ WriteLineFails(w)
       \/ Commit(w) \/ CommitFails(w) \/ CommitUnacknowledged(w)
       \/ Undo(w) \/ UndoFails(w) \/ Crash(w)

StoreSpec == StoreInit /\ [][StoreNext]_storeVars
-----------------------------------------------------------------------------
(***************************************************************************)
(* Properties                                                              *)
(***************************************************************************)
\* Every variable keeps its type.
StoreTypeOK ==
  /\ mode \in Modes
  /\ lock \in Writer \cup {NoWriter}
  /\ stage \in [Writer -> Stage]
  /\ next \in Nat \ {0}
  /\ lock # NoWriter => next <= Len(Batch[lock])
  /\ sizes \in Seq([stream : Stream, size : Nat])
  /\ \A j, k \in DOMAIN sizes : sizes[j].stream = sizes[k].stream => j = k
  /\ tx \in [SqlStream -> Seq(Entry)]
  /\ jsonl \in [Stream -> Seq(Entry)]
  /\ sql \in [SqlStream -> Seq(Entry)]
  /\ shown \in [Stream -> Seq(Entry)]
  /\ doubt \subseteq Writer
  /\ before \in [Stream -> Seq(Entry)]

\* append_many_atomic lives up to its name: a call that returned shows all of its
\* entries and a call that raised shows none, unless the rollback itself failed
\* or the answer to the commit was lost.
BatchAllOrNothing ==
  \A w \in Writer \ (Single \cup doubt) : \A i \in DOMAIN Batch[w] :
    /\ stage[w] = "returned" => <<w, i>> \in Entries(Visible(Batch[w][i]))
    /\ stage[w] = "raised" => <<w, i>> \notin Entries(Visible(Batch[w][i]))

\* What a reader was shown is never taken back: no rollback or crash removes,
\* and no commit inserts before, a record somebody has already acted upon.
ShownStays ==
  lock = NoWriter => \A s \in Stream : IsPrefix(shown[s], Visible(s))

\* Who reads the completed record of a batch and then goes for its manifest,
\* as resolve_formal_facts_lineage does, finds it: the entries listed before
\* one that was shown are there, even if the writer died on the way.
PredecessorsShown ==
  lock = NoWriter =>
    \A w \in Writer \ doubt : \A i \in DOMAIN Batch[w] :
      <<w, i>> \in Entries(shown[Batch[w][i]]) =>
        \A j \in 1 .. i - 1 : <<w, j>> \in Entries(Visible(Batch[w][j]))

\* The tables hold nothing that the files do not hold, once and in the same
\* order, so that either can be the authority: a shadow never runs ahead.
TablesWithinFiles ==
  \A s \in SqlStream :
    LET kept == {j \in DOMAIN sql[s] : sql[s][j][1] \notin doubt} IN
    /\ \A j \in kept : sql[s][j] \in Entries(jsonl[s])
    /\ \A j, k \in kept : \A m, n \in DOMAIN jsonl[s] :
         (jsonl[s][m] = sql[s][j] /\ jsonl[s][n] = sql[s][k]) => (j < k <=> m < n)

\* Between the lock and its release readers are kept out: the log stays what
\* it was when the lock was taken.
Logged(s) == IF lock = NoWriter THEN Visible(s) ELSE before[s]

ResultOf(w) ==
  IF stage[w] \notin {"returned", "raised", "crashed"} THEN "pending"
  ELSE IF w \in doubt THEN "doubtful" ELSE stage[w]

Log == INSTANCE GovernanceLog WITH
         log <- [s \in Stream |-> Logged(s)],
         result <- [w \in Writer |-> ResultOf(w)]

\* The repository implements the abstract log.
LogSpec == Log!Spec
=============================================================================
