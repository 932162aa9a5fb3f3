------------------------- MODULE StoreAndCacheProofs -------------------------
(***************************************************************************)
(* Proofs about GovernanceStore and, in the second part, ResponseCache.    *)
(* The two components share nothing; neither do their proofs.              *)
(*                                                                         *)
(* GovernanceStore, for any calls, batches, streams, modes and faults.     *)
(* What is left of a call in the files and tables is fixed by its stage    *)
(* (ContentInv), if its rollback knows where its lines begin (SizesInv)    *)
(* and its transaction what it inserted (TxInv).  While the lock is held,  *)
(* readers would be shown what they could see before and then entries of   *)
(* the holder (BeforeInv): the last step of a call is then one step of the *)
(* abstract log, and every other step is none.  The log only grows, so     *)
(* that nothing shown is taken back.                                       *)
(*                                                                         *)
(* ResponseCache, for any calls, keys and bound.  A build ends only once   *)
(* and keeps its value afterwards, so a waiter may read it late; and a     *)
(* build whose value is older than its key's floor was at work when the    *)
(* floor rose (BuiltInv), which gives every stale answer its culprit.      *)
(***************************************************************************)
EXTENDS GovernanceStore, ResponseCache, TLAPS

\* The places of w's batch whose line is in its file, whose row is in its table,
\* and whose entry readers would be shown.
Lines(w) == {i \in DOMAIN Batch[w] : <<w, i>> \in Entries(jsonl[Batch[w][i]])}
Rows(w) ==
  {i \in DOMAIN Batch[w] :
     Batch[w][i] \in SqlStream /\ <<w, i>> \in Entries(sql[Batch[w][i]])}
Seen(w) == {i \in DOMAIN Batch[w] : <<w, i>> \in Entries(Visible(Batch[w][i]))}

\* A file or table holds entries of its own stream, and those of a call in the
\* order of its batch.
Sorted(f, s) ==
  /\ \A j \in DOMAIN f : Batch[f[j][1]][f[j][2]] = s
  /\ \A j, k \in DOMAIN f : (j < k /\ f[j][1] = f[k][1]) => f[j][2] < f[k][2]

SortedInv ==
  /\ \A s \in Stream : Sorted(jsonl[s], s)
  /\ \A s \in SqlStream : Sorted(sql[s], s)

\* The lock is held by the call inside the batch.
Holding == {"insert", "write", "commit", "undo"}

HolderInv ==
  \A w \in Writer : stage[w] \in Holding <=> lock = w

\* The open transaction has the rows of the holder's batch, as far as it came.
Inserted(w, i) ==
  stage[w] # "undo" =>
    (<<w, i>> \in Entries(tx[Batch[w][i]]) <=>
       WritesSql(w) /\ (stage[w] = "insert" => i < next))

TxInv ==
  /\ \A w \in Writer : stage[w] = "insert" => WritesSql(w)
  /\ \A s \in SqlStream :
       /\ Sorted(tx[s], s)
       /\ \A j \in DOMAIN tx[s] : tx[s][j][1] = lock
  /\ \A w \in Writer : lock = w =>
       \A i \in DOMAIN Batch[w] : Batch[w][i] \in SqlStream => Inserted(w, i)

\* A size the holder remembers is where its own lines begin.
SizesInv ==
  /\ \A k \in DOMAIN sizes :
       /\ sizes[k].size <= Len(jsonl[sizes[k].stream])
       /\ \A j \in DOMAIN jsonl[sizes[k].stream] :
            jsonl[sizes[k].stream][j][1] = lock <=> j > sizes[k].size
  /\ \A w \in Writer : stage[w] \in {"commit", "undo"} => sizes # <<>>

Remembered(s) == \E k \in DOMAIN sizes : sizes[k].stream = s

\* What is left of a call, in the files and in the tables, by its stage.
Kept(w) ==
  /\ stage[w] \in {"idle", "insert"} => Lines(w) = {} /\ Rows(w) = {}
  /\ stage[w] = "write" => Lines(w) = 1 .. next - 1 /\ Rows(w) = {}
  /\ stage[w] = "commit" => Lines(w) = DOMAIN Batch[w] /\ Rows(w) = {}
  /\ stage[w] = "undo" => w \in doubt \/ Rows(w) = {}
  /\ stage[w] = "returned" =>
       /\ Lines(w) = DOMAIN Batch[w]
       /\ Rows(w) = IF WritesSql(w) THEN DOMAIN Batch[w] ELSE {}
  /\ stage[w] = "raised" => w \in doubt \/ (Lines(w) = {} /\ Rows(w) = {})
  /\ stage[w] = "crashed" =>
       \/ w \in doubt
       \/ Rows(w) = {} /\ \E k \in 0 .. Len(Batch[w]) : Lines(w) = 1 .. k

ContentInv ==
  \A w \in Writer :
    /\ Kept(w)
    /\ w \in doubt => stage[w] \in {"undo", "raised", "crashed"}
    /\ (lock = w /\ w \notin doubt) => \A i \in Lines(w) : Remembered(Batch[w][i])

\* While the lock is held, readers would be shown what they could see before
\* and then the entries of the holder.
Adds(w, old, new) ==
  /\ IsPrefix(old, new)
  /\ \A j \in DOMAIN new : new[j][1] = w <=> j > Len(old)

BeforeInv ==
  lock # NoWriter => \A s \in Stream : Adds(lock, before[s], Visible(s))

StepsInv == HolderInv /\ SortedInv /\ TxInv /\ SizesInv /\ ContentInv /\ BeforeInv
StoreIInv == StoreTypeOK /\ StepsInv
ShownInv == \A s \in Stream : IsPrefix(shown[s], Logged(s))
-----------------------------------------------------------------------------
\* An entry is a caller and a place of the caller's batch.
LEMMA EntryShape ==
  ASSUME NEW e \in Entry
  PROVE  e[1] \in Writer /\ e[2] \in DOMAIN Batch[e[1]] /\ e[2] \in Nat \ {0} /\ e = <<e[1], e[2]>>
  BY BatchTypeAssumption DEF Entry

\* Any place of a batch makes an entry.
LEMMA EntryMade ==
  ASSUME NEW w \in Writer, NEW i \in DOMAIN Batch[w]
  PROVE  <<w, i>> \in Entry
  BY BatchTypeAssumption DEF Entry

\* A remembered size is of a stream.
LEMMA SizeShape ==
  ASSUME NEW q \in Seq([stream : Stream, size : Nat]), NEW k \in DOMAIN q
  PROVE  q[k].stream \in Stream /\ q[k].size \in Nat
<1>1. \A S : \A f \in Seq(S) : \A j \in DOMAIN f : f[j] \in S
  OBVIOUS
<1>2. q[k] \in [stream : Stream, size : Nat]
  BY <1>1
<1> QED BY <1>2

\* IsPrefix, place by place.
LEMMA PrefixPointwise ==
  ASSUME NEW S, NEW f \in Seq(S), NEW g \in Seq(S)
  PROVE  IsPrefix(f, g) <=> Len(f) <= Len(g) /\ \A j \in DOMAIN f : f[j] = g[j]
<1>1. ASSUME Len(f) <= Len(g)
      PROVE  /\ SubSeq(f, 1, Len(f)) = f
             /\ SubSeq(g, 1, Len(f)) = [j \in 1 .. Len(f) |-> g[j]]
  BY <1>1
<1> QED BY <1>1 DEF IsPrefix

\* A later entry of the stream may be appended.
LEMMA AppendSorted ==
  ASSUME NEW f \in Seq(Entry), NEW s, Sorted(f, s), NEW e \in Entry, Batch[e[1]][e[2]] = s,
         \A j \in DOMAIN f : f[j][1] = e[1] => f[j][2] < e[2]
  PROVE  /\ Append(f, e) \in Seq(Entry)
         /\ Sorted(Append(f, e), s)
         /\ Entries(Append(f, e)) = Entries(f) \cup {e}
<1> DEFINE g == Append(f, e)
<1>1. /\ g \in Seq(Entry) /\ Len(g) = Len(f) + 1 /\ g[Len(f) + 1] = e
      /\ \A j \in DOMAIN f : g[j] = f[j]
  OBVIOUS
<1>2. DOMAIN g = DOMAIN f \cup {Len(f) + 1}
  BY <1>1
<1>3. Sorted(g, s)
  BY <1>1, <1>2, EntryShape DEF Sorted
<1>4. Entries(g) = Entries(f) \cup {e}
  BY <1>1, <1>2 DEF Entries
<1> QED BY <1>1, <1>3, <1>4

\* What a truncation leaves is as it was.
LEMMA CutSorted ==
  ASSUME NEW f \in Seq(Entry), NEW s, Sorted(f, s), NEW z \in 0 .. Len(f)
  PROVE  /\ SubSeq(f, 1, z) \in Seq(Entry) /\ Len(SubSeq(f, 1, z)) = z
         /\ Sorted(SubSeq(f, 1, z), s)
         /\ \A j \in 1 .. z : SubSeq(f, 1, z)[j] = f[j]
<1>1. /\ SubSeq(f, 1, z) \in Seq(Entry) /\ Len(SubSeq(f, 1, z)) = z
      /\ \A j \in 1 .. z : SubSeq(f, 1, z)[j] = f[j]
  OBVIOUS
<1>2. 1 .. z \subseteq DOMAIN f
  OBVIOUS
<1> QED BY <1>1, <1>2 DEF Sorted

\* The rows of other calls may be put behind.
LEMMA JoinSorted ==
  ASSUME NEW f \in Seq(Entry), NEW g \in Seq(Entry), NEW s,
         Sorted(f, s), Sorted(g, s),
         \A j \in DOMAIN f : \A k \in DOMAIN g : f[j][1] # g[k][1]
  PROVE  /\ f \o g \in Seq(Entry) /\ Len(f \o g) = Len(f) + Len(g)
         /\ Sorted(f \o g, s)
         /\ Entries(f \o g) = Entries(f) \cup Entries(g)
         /\ \A j \in DOMAIN f : (f \o g)[j] = f[j]
         /\ \A k \in DOMAIN g : (f \o g)[Len(f) + k] = g[k]
<1> DEFINE h == f \o g
<1>1. /\ h \in Seq(Entry) /\ Len(h) = Len(f) + Len(g)
      /\ \A j \in DOMAIN f : h[j] = f[j]
      /\ \A k \in DOMAIN g : h[Len(f) + k] = g[k]
  OBVIOUS
<1>2. \A j \in DOMAIN h : j \in DOMAIN f \/ (j - Len(f) \in DOMAIN g /\ h[j] = g[j - Len(f)])
  BY <1>1
<1>3. \A j \in DOMAIN f, k \in DOMAIN g : j \in DOMAIN h /\ Len(f) + k \in DOMAIN h
  BY <1>1
<1>4. Entries(h) = Entries(f) \cup Entries(g)
  <2> HIDE DEF h
  <2>1. \A e \in Entries(h) : e \in Entries(f) \cup Entries(g)
    BY <1>1, <1>2 DEF Entries
  <2>2. \A e \in Entries(f) : e \in Entries(h)
    BY <1>1, <1>3 DEF Entries
  <2>3. \A e \in Entries(g) : e \in Entries(h)
    BY <1>1, <1>3 DEF Entries
  <2> QED BY <2>1, <2>2, <2>3
<1>5. Sorted(h, s)
  <2> HIDE DEF h
  <2>1. \A j \in DOMAIN h : Batch[h[j][1]][h[j][2]] = s
    BY <1>1, <1>2 DEF Sorted
  <2>2. ASSUME NEW j \in DOMAIN h, NEW k \in DOMAIN h, j < k, h[j][1] = h[k][1]
        PROVE  h[j][2] < h[k][2]
    <3>1. CASE k \in DOMAIN f
      <4>1. j \in DOMAIN f
        BY <3>1, <2>2, <1>1
      <4> QED BY <4>1, <3>1, <2>2, <1>1 DEF Sorted
    <3>2. CASE k \notin DOMAIN f /\ j \in DOMAIN f
      BY <3>2, <2>2, <1>1, <1>2
    <3>3. CASE k \notin DOMAIN f /\ j \notin DOMAIN f
      <4>1. j - Len(f) < k - Len(f) /\ j - Len(f) \in DOMAIN g /\ k - Len(f) \in DOMAIN g
        BY <3>3, <2>2, <1>1, <1>2
      <4> QED BY <4>1, <3>3, <2>2, <1>1, <1>2 DEF Sorted
    <3> QED BY <3>1, <3>2, <3>3
  <2> QED BY <2>1, <2>2 DEF Sorted
<1> QED BY <1>1, <1>4, <1>5

\* Every line is accounted for in Lines.
LEMMA LinesOf ==
  ASSUME StoreTypeOK, SortedInv, NEW s \in Stream, NEW j \in DOMAIN jsonl[s]
  PROVE  /\ jsonl[s][j] \in Entry
         /\ jsonl[s][j][2] \in Lines(jsonl[s][j][1])
<1>1. jsonl[s][j] \in Entry
  BY DEF StoreTypeOK
<1>2. Batch[jsonl[s][j][1]][jsonl[s][j][2]] = s
  BY DEF SortedInv, Sorted
<1> QED BY <1>1, <1>2, EntryShape DEF Lines, Entries

\* Every row is accounted for in Rows.
LEMMA RowsOf ==
  ASSUME StoreTypeOK, SortedInv, NEW s \in SqlStream, NEW j \in DOMAIN sql[s]
  PROVE  /\ sql[s][j] \in Entry
         /\ sql[s][j][2] \in Rows(sql[s][j][1])
<1>1. sql[s][j] \in Entry
  BY DEF StoreTypeOK
<1>2. Batch[sql[s][j][1]][sql[s][j][2]] = s
  BY DEF SortedInv, Sorted
<1> QED BY <1>1, <1>2, EntryShape DEF Rows, Entries

\* What a batch is: some streams, all with a table or all without.
LEMMA BatchStreams ==
  ASSUME NEW w \in Writer
  PROVE  /\ 1 \in DOMAIN Batch[w] /\ Len(Batch[w]) \in Nat \ {0}
         /\ DOMAIN Batch[w] = 1 .. Len(Batch[w])
         /\ \A i \in DOMAIN Batch[w] : Batch[w][i] \in Stream
         /\ \A i \in DOMAIN Batch[w] : Batch[w][i] \in SqlStream <=> Batch[w][1] \in SqlStream
<1>1. Batch[w] \in Seq(Stream) /\ Batch[w] # <<>>
  BY BatchTypeAssumption
<1>2. Len(Batch[w]) \in Nat \ {0} /\ DOMAIN Batch[w] = 1 .. Len(Batch[w])
  BY <1>1
<1> QED BY <1>1, <1>2, UnmixedAssumption

\* Files that do not change keep what was written.
LEMMA FilesKept ==
  ASSUME UNCHANGED <<jsonl, sql>>, NEW w \in Writer
  PROVE  Lines(w)' = Lines(w) /\ Rows(w)' = Rows(w)
  BY DEF Lines, Rows

\* What a step of the holder w leaves to the other calls.
LEMMA OthersKept ==
  ASSUME StoreTypeOK, HolderInv, ContentInv, NEW w \in Writer, lock \in {w, NoWriter},
         lock' \in {w, NoWriter}, mode' = mode, NEW v \in Writer \ {w},
         stage'[v] = stage[v], v \in doubt' <=> v \in doubt,
         Lines(v)' = Lines(v), Rows(v)' = Rows(v)
  PROVE  /\ Kept(v)'
         /\ v \in doubt' => stage'[v] \in {"undo", "raised", "crashed"}
         /\ lock' # v
<1>1. stage[v] \notin Holding
  BY NoWriterAssumption DEF HolderInv
<1>2. Kept(v) /\ (v \in doubt => stage[v] \in {"undo", "raised", "crashed"})
  BY DEF ContentInv
<1>3. Kept(v)'
  BY <1>1, <1>2 DEF Kept, Holding, WritesSql
<1> QED BY <1>2, <1>3, NoWriterAssumption

\* append and append_many_atomic enter the batch lock and note the first size.
LEMMA TakeLock ==
  ASSUME StoreIInv, NEW w \in Writer, Acquire(w)
  PROVE  StoreIInv'
<1>1. /\ lock = NoWriter /\ lock' = w /\ stage[w] = "idle" /\ next' = 1
      /\ stage' = [stage EXCEPT ![w] = IF WritesSql(w) THEN "insert" ELSE "write"]
      /\ UNCHANGED <<mode, tx, jsonl, sql, shown, doubt>>
      /\ stage \in [Writer -> Stage]
  BY DEF Acquire, Move, StoreIInv, StoreTypeOK
<1>2. Lines(w) = {} /\ Rows(w) = {} /\ w \notin doubt
  BY <1>1 DEF StoreIInv, StepsInv, ContentInv, Kept
<1>3. \A s \in Stream : \A j \in DOMAIN jsonl[s] : jsonl[s][j][1] # w
  BY <1>2, LinesOf DEF StoreIInv, StepsInv
<1>4. \A s \in SqlStream : \A j \in DOMAIN sql[s] : sql[s][j][1] # w
  BY <1>2, RowsOf DEF StoreIInv, StepsInv
<1>5. \A s \in SqlStream : Entries(tx[s]) = {}
  <2> SUFFICES ASSUME NEW s \in SqlStream, NEW j \in DOMAIN tx[s] PROVE FALSE
    BY DEF Entries
  <2>1. tx[s][j] \in Entry
    BY DEF StoreIInv, StoreTypeOK
  <2>2. tx[s][j][1] = NoWriter
    BY <1>1 DEF StoreIInv, StepsInv, TxInv
  <2> QED BY <2>1, <2>2, EntryShape, NoWriterAssumption
<1>6. \A s \in Stream : Len(jsonl[s]) \in Nat /\ SizeOf(s) \in [stream : Stream, size : Nat]
  BY DEF SizeOf, StoreIInv, StoreTypeOK
<1>7. sizes' = <<>> \/ sizes' = <<SizeOf(Batch[w][1])>>
  BY DEF Acquire
<1>8. StoreTypeOK'
  <2>1. \A s \in Stream : Visible(s) \in Seq(Entry)
    BY DEF Visible, ReadsSql, StoreIInv, StoreTypeOK
  <2>2. before' \in [Stream -> Seq(Entry)]
    BY <2>1 DEF Acquire
  <2>3. /\ sizes' \in Seq([stream : Stream, size : Nat])
        /\ \A j, k \in DOMAIN sizes' : sizes'[j].stream = sizes'[k].stream => j = k
    <3>1. CASE sizes' = <<>>
      BY <3>1
    <3>2. CASE sizes' = <<SizeOf(Batch[w][1])>>
      <4>1. SizeOf(Batch[w][1]) \in [stream : Stream, size : Nat]
        BY <1>6, BatchStreams
      <4> QED BY <3>2, <4>1
    <3> QED BY <3>1, <3>2, <1>7
  <2>4. next' <= Len(Batch[w])
    BY <1>1, BatchStreams
  <2>5. stage' \in [Writer -> Stage]
    BY <1>1 DEF Stage
  <2> QED BY <1>1, <2>2, <2>3, <2>4, <2>5 DEF StoreIInv, StoreTypeOK
<1>9. HolderInv'
  BY <1>1, NoWriterAssumption DEF StoreIInv, StepsInv, HolderInv, Holding
<1>10. SortedInv'
  BY <1>1 DEF StoreIInv, StepsInv, SortedInv
<1>11. TxInv'
  <2>1. \A v \in Writer : stage'[v] = "insert" => WritesSql(v)'
    BY <1>1 DEF StoreIInv, StepsInv, TxInv, WritesSql
  <2>2. \A s \in SqlStream : Sorted(tx[s], s)' /\ \A j \in DOMAIN tx'[s] : tx'[s][j][1] = lock'
    BY <1>1, <1>5 DEF Entries, Sorted
  <2>3. \A i \in DOMAIN Batch[w] : Batch[w][i] \in SqlStream => Inserted(w, i)'
    <3> SUFFICES ASSUME NEW i \in DOMAIN Batch[w], Batch[w][i] \in SqlStream
                 PROVE  Inserted(w, i)'
      OBVIOUS
    <3>1. <<w, i>> \notin Entries(tx'[Batch[w][i]])
      BY <1>1, <1>5
    <3>2. ~(i < next') /\ (WritesSql(w)' => stage'[w] = "insert")
      BY <1>1, BatchStreams DEF WritesSql
    <3> QED BY <3>1, <3>2 DEF Inserted
  <2> QED BY <1>1, <2>1, <2>2, <2>3 DEF TxInv
<1>12. SizesInv'
  <2>1. \A k \in DOMAIN sizes' :
          /\ sizes'[k].size <= Len(jsonl'[sizes'[k].stream])
          /\ \A j \in DOMAIN jsonl'[sizes'[k].stream] :
               jsonl'[sizes'[k].stream][j][1] = lock' <=> j > sizes'[k].size
    <3>1. CASE sizes' = <<>>
      BY <3>1
    <3>2. CASE sizes' = <<SizeOf(Batch[w][1])>>
      <4>1. Batch[w][1] \in Stream
        BY BatchStreams
      <4>2. jsonl[Batch[w][1]] \in Seq(Entry)
        BY <4>1 DEF StoreIInv, StoreTypeOK
      <4> QED BY <3>2, <4>1, <4>2, <1>1, <1>3 DEF SizeOf
    <3> QED BY <3>1, <3>2, <1>7
  <2>2. \A v \in Writer : stage'[v] \notin {"commit", "undo"}
    BY <1>1, NoWriterAssumption DEF StoreIInv, StepsInv, HolderInv, Holding
  <2> QED BY <2>1, <2>2 DEF SizesInv
<1>13. ContentInv'
  <2>1. Kept(w)'
    BY <1>1, <1>2, FilesKept DEF Kept
  <2>2. \A i \in Lines(w)' : Remembered(Batch[w][i])'
    BY <1>1, <1>2, FilesKept
  <2>3. \A v \in Writer \ {w} :
          Kept(v)' /\ (v \in doubt' => stage'[v] \in {"undo", "raised", "crashed"}) /\ lock' # v
    BY <1>1, FilesKept, OthersKept DEF StoreIInv, StepsInv
  <2> QED BY <1>1, <1>2, <2>1, <2>2, <2>3 DEF ContentInv
<1>14. BeforeInv'
  <2> SUFFICES ASSUME NEW s \in Stream
               PROVE  /\ IsPrefix(Visible(s), Visible(s))
                      /\ \A j \in DOMAIN Visible(s) : Visible(s)[j][1] # w /\ j <= Len(Visible(s))
    BY <1>1 DEF BeforeInv, Adds, Acquire, Visible, ReadsSql
  <2>1. Visible(s) \in Seq(Entry)
    BY DEF Visible, ReadsSql, StoreIInv, StoreTypeOK
  <2> QED BY <2>1, <1>3, <1>4, PrefixPointwise DEF Visible, ReadsSql
<1> QED BY <1>8, <1>9, <1>10, <1>11, <1>12, <1>13, <1>14 DEF StoreIInv, StepsInv

\* A call that does not get the lock touches nothing.
LEMMA GiveUpWaiting ==
  ASSUME StoreIInv, NEW w \in Writer, LockTimeout(w)
  PROVE  StoreIInv'
<1>1. /\ lock # NoWriter /\ stage[w] = "idle"
      /\ stage' = [stage EXCEPT ![w] = "raised"]
      /\ UNCHANGED <<mode, lock, next, sizes, tx, before, jsonl, sql, shown, doubt>>
      /\ stage \in [Writer -> Stage]
  BY DEF LockTimeout, Move, heldVars, StoreIInv, StoreTypeOK
<1>2. StoreTypeOK'
  BY <1>1 DEF StoreIInv, StoreTypeOK, Stage
<1>3. HolderInv'
  BY <1>1 DEF StoreIInv, StepsInv, HolderInv, Holding
<1>4. SortedInv'
  BY <1>1 DEF StoreIInv, StepsInv, SortedInv
<1>5. lock # w
  BY <1>1 DEF StoreIInv, StepsInv, HolderInv, Holding
<1>6. TxInv'
  BY <1>1, <1>5 DEF StoreIInv, StepsInv, TxInv, WritesSql, Inserted
<1>7. SizesInv'
  BY <1>1 DEF StoreIInv, StepsInv, SizesInv
<1>8. ContentInv'
  <2>1. ASSUME NEW v \in Writer
        PROVE  Kept(v)' /\ (v \in doubt' => stage'[v] \in {"undo", "raised", "crashed"})
    <3>1. Kept(v) /\ (v \in doubt => stage[v] \in {"undo", "raised", "crashed"})
      BY DEF StoreIInv, StepsInv, ContentInv
    <3>2. Lines(v)' = Lines(v) /\ Rows(v)' = Rows(v)
      BY <1>1, FilesKept
    <3> QED BY <1>1, <3>1, <3>2 DEF Kept, WritesSql
  <2>2. \A i \in Lines(lock) : Lines(lock)' = Lines(lock)
    BY <1>1, FilesKept DEF StoreIInv, StoreTypeOK
  <2>3. \A v \in Writer : Lines(v)' = Lines(v)
    BY <1>1, FilesKept
  <2> QED BY <1>1, <2>1, <2>3 DEF ContentInv, StoreIInv, StepsInv, Remembered
<1>9. BeforeInv'
  BY <1>1 DEF StoreIInv, StepsInv, BeforeInv, Adds, Visible, ReadsSql
<1> QED BY <1>2, <1>3, <1>4, <1>6, <1>7, <1>8, <1>9 DEF StoreIInv, StepsInv

\* read_all changes no file and no table.
LEMMA Reading ==
  ASSUME StoreIInv, NEW s \in Stream, ReadAll(s)
  PROVE  StoreIInv'
<1>1. /\ UNCHANGED <<mode, lock, next, sizes, tx, before, stage, jsonl, sql, doubt>>
      /\ shown' = [shown EXCEPT ![s] = Visible(s)]
  BY DEF ReadAll, heldVars
<1>2. Visible(s) \in Seq(Entry)
  BY DEF Visible, ReadsSql, StoreIInv, StoreTypeOK
<1>3. StoreTypeOK'
  BY <1>1, <1>2 DEF StoreIInv, StoreTypeOK
<1>4. StepsInv'
  BY <1>1 DEF StoreIInv, StepsInv, HolderInv, SortedInv, TxInv, Inserted, WritesSql, SizesInv,
     ContentInv, Kept, Lines, Rows, Remembered, BeforeInv, Visible, ReadsSql
<1> QED BY <1>3, <1>4 DEF StoreIInv

\* The holder ends and lets the lock go.
LEMMA Released ==
  ASSUME StoreIInv, NEW w \in Writer, lock = w, Release, mode' = mode, shown' = shown,
         NEW r \in {"returned", "raised", "crashed"}, stage' = [stage EXCEPT ![w] = r],
         doubt' \in {doubt, doubt \cup {w}}, r = "returned" => w \notin doubt',
         jsonl' \in [Stream -> Seq(Entry)], sql' \in [SqlStream -> Seq(Entry)], SortedInv',
         \A v \in Writer \ {w} : Lines(v)' = Lines(v) /\ Rows(v)' = Rows(v),
         Kept(w)'
  PROVE  StoreIInv'
<1>1. /\ lock' = NoWriter /\ next' = 1 /\ sizes' = <<>>
      /\ tx' = [s \in SqlStream |-> <<>>]
      /\ before' = [s \in Stream |-> <<>>]
      /\ stage \in [Writer -> Stage]
  BY DEF Release, StoreIInv, StoreTypeOK
<1>2. StoreTypeOK'
  <2>1. \A s \in Stream : <<>> \in Seq(Entry)
    OBVIOUS
  <2>2. stage' \in [Writer -> Stage]
    BY <1>1 DEF Stage
  <2>3. /\ before' \in [Stream -> Seq(Entry)] /\ tx' \in [SqlStream -> Seq(Entry)]
        /\ sizes' \in Seq([stream : Stream, size : Nat]) /\ DOMAIN sizes' = {}
    BY <1>1, <2>1
  <2> QED BY <1>1, <2>2, <2>3 DEF StoreIInv, StoreTypeOK
<1>3. HolderInv'
  BY <1>1, NoWriterAssumption DEF StoreIInv, StepsInv, HolderInv, Holding
<1>4. TxInv'
  <2>1. \A v \in Writer : stage'[v] # "insert" /\ lock' # v
    BY <1>1, <1>3, NoWriterAssumption DEF HolderInv, Holding
  <2>2. \A s \in SqlStream : DOMAIN tx'[s] = {}
    BY <1>1
  <2> QED BY <2>1, <2>2 DEF TxInv, Sorted
<1>5. SizesInv'
  <2>1. \A v \in Writer : stage'[v] \notin {"commit", "undo"}
    BY <1>1, <1>3, NoWriterAssumption DEF HolderInv, Holding
  <2> QED BY <1>1, <2>1 DEF SizesInv
<1>6. ContentInv'
  <2>1. \A v \in Writer \ {w} :
          Kept(v)' /\ (v \in doubt' => stage'[v] \in {"undo", "raised", "crashed"}) /\ lock' # v
    BY <1>1, OthersKept DEF StoreIInv, StepsInv
  <2>2. lock' # w /\ (w \in doubt' => stage'[w] \in {"undo", "raised", "crashed"})
    BY <1>1, NoWriterAssumption
  <2> QED BY <2>1, <2>2 DEF ContentInv
<1>7. BeforeInv'
  BY <1>1 DEF BeforeInv, Adds
<1> QED BY <1>2, <1>3, <1>4, <1>5, <1>6, <1>7 DEF StoreIInv, StepsInv

\* An insert that raises ends the call before its first line.
LEMMA InsertGivenUp ==
  ASSUME StoreIInv, NEW w \in Writer, InsertFails(w)
  PROVE  StoreIInv'
<1>1. /\ lock = w /\ Release /\ stage[w] = "insert"
      /\ stage' = [stage EXCEPT ![w] = "raised"]
      /\ UNCHANGED <<mode, jsonl, sql, shown, doubt>>
  BY DEF InsertFails, Move, StoreIInv, StepsInv, HolderInv, Holding
<1>2. \A v \in Writer : Lines(v)' = Lines(v) /\ Rows(v)' = Rows(v)
  BY <1>1, FilesKept
<1>3. Kept(w) /\ stage'[w] = "raised" /\ w \notin doubt
  BY <1>1 DEF StoreIInv, StepsInv, ContentInv, StoreTypeOK
<1>4. Kept(w)'
  BY <1>1, <1>2, <1>3 DEF Kept
<1>5. SortedInv' /\ jsonl' \in [Stream -> Seq(Entry)] /\ sql' \in [SqlStream -> Seq(Entry)]
  BY <1>1 DEF StoreIInv, StepsInv, SortedInv, StoreTypeOK
<1> QED BY <1>1, <1>2, <1>3, <1>4, <1>5, Released

\* The death of a caller leaves what its stage had written.
LEMMA Dying ==
  ASSUME StoreIInv, NEW w \in Writer, Crash(w)
  PROVE  StoreIInv'
<1>1. /\ lock = w /\ Release /\ stage[w] \in Holding
      /\ stage' = [stage EXCEPT ![w] = "crashed"]
      /\ doubt' = IF stage[w] = "undo" THEN doubt \cup {w} ELSE doubt
      /\ UNCHANGED <<mode, jsonl, sql, shown>>
  BY DEF Crash, StoreIInv, StepsInv, HolderInv
<1>2. \A v \in Writer : Lines(v)' = Lines(v) /\ Rows(v)' = Rows(v)
  BY <1>1, FilesKept
<1>3. Kept(w) /\ stage'[w] = "crashed"
  BY <1>1 DEF StoreIInv, StepsInv, ContentInv, StoreTypeOK
<1>4. w \in doubt' \/ (Rows(w) = {} /\ \E k \in 0 .. Len(Batch[w]) : Lines(w) = 1 .. k)
  <2>1. next - 1 \in 0 .. Len(Batch[w])
    BY <1>1, BatchStreams, NoWriterAssumption DEF StoreIInv, StoreTypeOK
  <2>2. Len(Batch[w]) \in 0 .. Len(Batch[w]) /\ DOMAIN Batch[w] = 1 .. Len(Batch[w])
        /\ 0 \in 0 .. Len(Batch[w]) /\ 1 .. 0 = {}
    BY BatchStreams
  <2>3. CASE stage[w] = "insert"
    BY <2>3, <2>2, <1>3 DEF Kept
  <2>4. CASE stage[w] = "write"
    BY <2>4, <2>1, <1>3 DEF Kept
  <2>5. CASE stage[w] = "commit"
    BY <2>5, <2>2, <1>3 DEF Kept
  <2>6. CASE stage[w] = "undo"
    BY <2>6, <1>1
  <2> QED BY <2>3, <2>4, <2>5, <2>6, <1>1 DEF Holding
<1>5. Kept(w)'
  BY <1>2, <1>3, <1>4 DEF Kept
<1>6. SortedInv' /\ jsonl' \in [Stream -> Seq(Entry)] /\ sql' \in [SqlStream -> Seq(Entry)]
  BY <1>1 DEF StoreIInv, StepsInv, SortedInv, StoreTypeOK
<1> QED BY <1>1, <1>2, <1>5, <1>6, Released

\* The holder goes on: what becomes of the lock and of the other calls.
LEMMA StillHeld ==
  ASSUME StoreIInv, NEW w \in Writer, lock = w, lock' = w, mode' = mode,
         NEW r \in Holding, stage' = [stage EXCEPT ![w] = r],
         doubt' \in {doubt, doubt \cup {w}}, w \in doubt' => r = "undo",
         \A v \in Writer \ {w} : Lines(v)' = Lines(v) /\ Rows(v)' = Rows(v),
         Kept(w)', w \notin doubt' => \A i \in Lines(w)' : Remembered(Batch[w][i])'
  PROVE  HolderInv' /\ ContentInv' /\ stage' \in [Writer -> Stage] /\ stage'[w] = r
<1>1. stage \in [Writer -> Stage]
  BY DEF StoreIInv, StoreTypeOK
<1>2. HolderInv' /\ stage' \in [Writer -> Stage] /\ stage'[w] = r
  BY <1>1 DEF StoreIInv, StepsInv, HolderInv, Holding, Stage
<1>3. \A v \in Writer \ {w} :
        Kept(v)' /\ (v \in doubt' => stage'[v] \in {"undo", "raised", "crashed"}) /\ lock' # v
  BY <1>1, OthersKept DEF StoreIInv, StepsInv
<1>4. w \in doubt' => stage'[w] \in {"undo", "raised", "crashed"}
  BY <1>2
<1> QED BY <1>2, <1>3, <1>4 DEF ContentInv

\* What the transaction holds after one more row.
LEMMA RowInserted ==
  ASSUME StoreIInv, NEW w \in Writer, lock = w, stage[w] = "insert",
         tx' = [tx EXCEPT ![Batch[w][next]] = Append(@, <<w, next>>)]
  PROVE  /\ tx' \in [SqlStream -> Seq(Entry)]
         /\ \A s \in SqlStream :
              Sorted(tx'[s], s) /\ \A j \in DOMAIN tx'[s] : tx'[s][j][1] = w
         /\ \A i \in DOMAIN Batch[w] :
              Batch[w][i] \in SqlStream => (<<w, i>> \in Entries(tx'[Batch[w][i]]) <=> i <= next)
<1>1. next \in DOMAIN Batch[w] /\ DOMAIN Batch[w] \subseteq Nat
  BY BatchStreams, NoWriterAssumption DEF StoreIInv, StoreTypeOK
<1>2. PICK s \in Stream : WritesSql(w) /\ s \in SqlStream /\ s = Batch[w][next]
  BY <1>1, BatchStreams, StreamAssumption DEF StoreIInv, StepsInv, TxInv, WritesSql
<1>3. \A i \in DOMAIN Batch[w] : Batch[w][i] \in SqlStream =>
        (<<w, i>> \in Entries(tx[Batch[w][i]]) <=> i < next)
  BY <1>2 DEF StoreIInv, StepsInv, TxInv, Inserted
<1>4. tx[s] \in Seq(Entry) /\ tx \in [SqlStream -> Seq(Entry)]
  BY <1>2 DEF StoreIInv, StoreTypeOK
<1>5. \A t \in SqlStream : Sorted(tx[t], t) /\ \A j \in DOMAIN tx[t] : tx[t][j][1] = w
  BY DEF StoreIInv, StepsInv, TxInv
<1>6. \A j \in DOMAIN tx[s] : tx[s][j][2] < next
  <2> SUFFICES ASSUME NEW j \in DOMAIN tx[s] PROVE tx[s][j][2] < next
    OBVIOUS
  <2>1. tx[s][j] \in Entry /\ tx[s][j] \in Entries(tx[s])
    BY <1>4 DEF Entries
  <2>2. tx[s][j] = <<w, tx[s][j][2]>> /\ tx[s][j][2] \in DOMAIN Batch[w]
    BY <2>1, <1>2, <1>5, EntryShape
  <2>3. Batch[w][tx[s][j][2]] = s
    BY <2>2, <1>2, <1>5 DEF Sorted
  <2> QED BY <2>1, <2>2, <2>3, <1>2, <1>3
<1>7. /\ tx'[s] \in Seq(Entry) /\ Sorted(tx'[s], s)
      /\ Entries(tx'[s]) = Entries(tx[s]) \cup {<<w, next>>}
  <2>1. tx'[s] = Append(tx[s], <<w, next>>)
    BY <1>2, <1>4
  <2>2. Sorted(tx[s], s) /\ \A j \in DOMAIN tx[s] : tx[s][j][1] = w => tx[s][j][2] < next
    BY <1>2, <1>5, <1>6
  <2>3. /\ Append(tx[s], <<w, next>>) \in Seq(Entry) /\ Sorted(Append(tx[s], <<w, next>>), s)
        /\ Entries(Append(tx[s], <<w, next>>)) = Entries(tx[s]) \cup {<<w, next>>}
    <3>1. <<w, next>> \in Entry /\ Batch[<<w, next>>[1]][<<w, next>>[2]] = s
      BY <1>1, <1>2, EntryMade
    <3> QED BY <2>2, <3>1, <1>4, AppendSorted
  <2> QED BY <2>1, <2>3
<1>8. \A t \in SqlStream \ {s} : tx'[t] = tx[t]
  BY <1>2, <1>4
<1>9. tx' \in [SqlStream -> Seq(Entry)]
  BY <1>2, <1>4, <1>7
<1>10. \A j \in DOMAIN tx'[s] : tx'[s][j][1] = w
  <2> SUFFICES ASSUME NEW j \in DOMAIN tx'[s] PROVE tx'[s][j][1] = w
    OBVIOUS
  <2>1. tx'[s][j] \in Entries(tx[s]) \/ tx'[s][j] = <<w, next>>
    BY <1>7 DEF Entries
  <2> QED BY <2>1, <1>2, <1>5 DEF Entries
<1>11. \A i \in DOMAIN Batch[w] :
         Batch[w][i] \in SqlStream => (<<w, i>> \in Entries(tx'[Batch[w][i]]) <=> i <= next)
  <2> SUFFICES ASSUME NEW i \in DOMAIN Batch[w], Batch[w][i] \in SqlStream
               PROVE  <<w, i>> \in Entries(tx'[Batch[w][i]]) <=> i <= next
    OBVIOUS
  <2>1. <<w, i>> \in Entries(tx[Batch[w][i]]) <=> i < next
    BY <1>3
  <2>2. CASE Batch[w][i] = s
    <3>1. Entries(tx'[Batch[w][i]]) = Entries(tx[Batch[w][i]]) \cup {<<w, next>>}
      BY <2>2, <1>7
    <3>2. <<w, i>> = <<w, next>> <=> i = next
      OBVIOUS
    <3> QED BY <2>1, <3>1, <3>2, <1>1, <1>2
  <2>3. CASE Batch[w][i] # s
    BY <2>1, <2>3, <1>1, <1>2, <1>8
  <2> QED BY <2>2, <2>3
<1> QED BY <1>2, <1>5, <1>7, <1>8, <1>9, <1>10, <1>11

\* _append_sql_unlocked adds a row that nobody sees.
LEMMA Inserting ==
  ASSUME StoreIInv, NEW w \in Writer, InsertSql(w)
  PROVE  StoreIInv'
<1>1. /\ stage[w] = "insert" /\ UNCHANGED <<mode, lock, sizes, before, jsonl, sql, shown, doubt>>
      /\ tx' = [tx EXCEPT ![Batch[w][next]] = Append(@, <<w, next>>)]
  BY DEF InsertSql, NextEntry, Move
<1>2. lock = w
  BY <1>1 DEF StoreIInv, StepsInv, HolderInv, Holding
<1>3. /\ next \in DOMAIN Batch[w] /\ DOMAIN Batch[w] = 1 .. Len(Batch[w])
      /\ Len(Batch[w]) \in Nat \ {0}
  BY <1>2, BatchStreams, NoWriterAssumption DEF StoreIInv, StoreTypeOK
<1>4. PICK r \in {"insert", "write"} :
        /\ stage' = [stage EXCEPT ![w] = r]
        /\ r = "insert" => next # Len(Batch[w]) /\ next' = next + 1
        /\ r = "write" => next = Len(Batch[w]) /\ next' = 1
  <2>1. CASE next = Len(Batch[w])
    BY <2>1 DEF InsertSql, NextEntry, Move
  <2>2. CASE next # Len(Batch[w])
    <3>1. stage' = [stage EXCEPT ![w] = "insert"]
      BY <2>2, <1>1 DEF InsertSql, NextEntry, StoreIInv, StoreTypeOK
    <3> QED BY <2>2, <3>1 DEF InsertSql, NextEntry
  <2> QED BY <2>1, <2>2
<1>5. \A v \in Writer : Lines(v)' = Lines(v) /\ Rows(v)' = Rows(v)
  BY <1>1, FilesKept
<1>6. Lines(w) = {} /\ Rows(w) = {} /\ w \notin doubt
  BY <1>1 DEF StoreIInv, StepsInv, ContentInv, Kept
<1>7. Kept(w)' /\ stage'[w] = r
  <2>1. stage'[w] = r
    BY <1>4 DEF StoreIInv, StoreTypeOK
  <2>2. r = "write" => 1 .. next' - 1 = {}
    BY <1>4
  <2> QED BY <2>1, <2>2, <1>5, <1>6 DEF Kept
<1>8. HolderInv' /\ ContentInv' /\ stage' \in [Writer -> Stage]
  BY <1>1, <1>2, <1>4, <1>5, <1>6, <1>7, StillHeld DEF Holding
<1>9. /\ tx' \in [SqlStream -> Seq(Entry)]
      /\ \A s \in SqlStream :
           Sorted(tx'[s], s) /\ \A j \in DOMAIN tx'[s] : tx'[s][j][1] = w
      /\ \A i \in DOMAIN Batch[w] :
           Batch[w][i] \in SqlStream => (<<w, i>> \in Entries(tx'[Batch[w][i]]) <=> i <= next)
  BY <1>1, <1>2, RowInserted
<1>10. StoreTypeOK'
  <2>1. next' \in Nat \ {0} /\ next' <= Len(Batch[w])
    BY <1>3, <1>4
  <2> QED BY <2>1, <1>1, <1>2, <1>8, <1>9 DEF StoreIInv, StoreTypeOK
<1>11. SortedInv'
  BY <1>1 DEF StoreIInv, StepsInv, SortedInv
<1>12. TxInv'
  <2>1. WritesSql(w)' /\ WritesSql(w)
    BY <1>1 DEF StoreIInv, StepsInv, TxInv, WritesSql
  <2>2. \A v \in Writer : stage'[v] = "insert" => v = w
    BY <1>1, <1>2, <1>8 DEF HolderInv, Holding
  <2>3. ASSUME NEW i \in DOMAIN Batch[w], Batch[w][i] \in SqlStream PROVE Inserted(w, i)'
    <3>1. stage'[w] = "insert" => (i < next' <=> i <= next)
      BY <1>3, <1>4, <1>7
    <3>2. stage'[w] # "insert" => i <= next
      BY <1>3, <1>4, <1>7
    <3> QED BY <3>1, <3>2, <2>1, <2>3, <1>9 DEF Inserted
  <2> QED BY <2>1, <2>2, <2>3, <1>1, <1>2, <1>9 DEF TxInv
<1>13. SizesInv'
  <2>1. \A v \in Writer : stage'[v] \notin {"commit", "undo"}
    BY <1>1, <1>2, <1>4, <1>7, <1>8 DEF HolderInv, Holding
  <2> QED BY <2>1, <1>1 DEF StoreIInv, StepsInv, SizesInv
<1>14. BeforeInv'
  BY <1>1 DEF StoreIInv, StepsInv, BeforeInv, Adds, Visible, ReadsSql
<1> QED BY <1>8, <1>10, <1>11, <1>12, <1>13, <1>14 DEF StoreIInv, StepsInv

\* The file the holder writes to, with the next line or as it was.
Lined(w) ==
  jsonl' \in {jsonl, [jsonl EXCEPT ![Batch[w][next]] = Append(@, <<w, next>>)]}

\* All a write changes of a file is one entry at its end.
LEMMA LineShape ==
  ASSUME StoreIInv, NEW w \in Writer, lock = w, stage[w] = "write", Lined(w),
         NEW s \in Stream
  PROVE  /\ jsonl[s] \in Seq(Entry) /\ jsonl'[s] \in Seq(Entry)
         /\ Len(jsonl'[s]) >= Len(jsonl[s])
         /\ \A j \in 1 .. Len(jsonl[s]) : jsonl'[s][j] = jsonl[s][j]
         /\ \A j \in DOMAIN jsonl'[s] : j > Len(jsonl[s]) =>
              /\ jsonl'[s][j] = <<w, next>> /\ s = Batch[w][next]
              /\ jsonl' = [jsonl EXCEPT ![s] = Append(@, <<w, next>>)]
<1>1. next \in DOMAIN Batch[w]
  BY BatchStreams, NoWriterAssumption DEF StoreIInv, StoreTypeOK
<1>2. <<w, next>> \in Entry
  BY <1>1, EntryMade
<1>3. jsonl \in [Stream -> Seq(Entry)] /\ jsonl[s] \in Seq(Entry)
  BY DEF StoreIInv, StoreTypeOK
<1>4. CASE jsonl'[s] = jsonl[s]
  BY <1>3, <1>4
<1>5. CASE jsonl'[s] # jsonl[s]
  <2>1. s = Batch[w][next] /\ jsonl' = [jsonl EXCEPT ![s] = Append(@, <<w, next>>)]
    BY <1>3, <1>5 DEF Lined
  <2>2. jsonl'[s] = Append(jsonl[s], <<w, next>>)
    BY <1>3, <2>1
  <2>3. /\ jsonl'[s] \in Seq(Entry) /\ Len(jsonl'[s]) = Len(jsonl[s]) + 1
        /\ \A j \in 1 .. Len(jsonl[s]) : jsonl'[s][j] = jsonl[s][j]
        /\ jsonl'[s][Len(jsonl[s]) + 1] = <<w, next>>
    BY <1>2, <1>3, <2>2
  <2> QED BY <2>1, <2>3, <1>3
<1> QED BY <1>4, <1>5

\* The line is the last of its file, and no other call's lines move.
LEMMA LineAdded ==
  ASSUME StoreIInv, NEW w \in Writer, lock = w, stage[w] = "write", Lined(w), sql' = sql
  PROVE  /\ jsonl' \in [Stream -> Seq(Entry)] /\ SortedInv'
         /\ Lines(w)' \subseteq 1 .. next
         /\ jsonl' # jsonl => Lines(w)' = 1 .. next
         /\ \A v \in Writer \ {w} : Lines(v)' = Lines(v)
         /\ \A v \in Writer : Rows(v)' = Rows(v)
<1>1. next \in DOMAIN Batch[w] /\ DOMAIN Batch[w] \subseteq Nat /\ Batch[w][next] \in Stream
  <2>1. next \in DOMAIN Batch[w]
    BY BatchStreams, NoWriterAssumption DEF StoreIInv, StoreTypeOK
  <2> QED BY <2>1, BatchStreams
<1>2. jsonl \in [Stream -> Seq(Entry)] /\ \A s \in Stream : Sorted(jsonl[s], s)
  BY DEF StoreIInv, StoreTypeOK, StepsInv, SortedInv
<1>3. Lines(w) = 1 .. next - 1 /\ Lines(w) \subseteq DOMAIN Batch[w]
  BY DEF StoreIInv, StepsInv, ContentInv, Kept, Lines
<1>4. \A v \in Writer : Rows(v)' = Rows(v)
  BY DEF Rows
<1>5. CASE jsonl' = jsonl
  <2>1. \A v \in Writer : Lines(v)' = Lines(v)
    BY <1>5 DEF Lines
  <2> QED BY <1>1, <1>2, <1>3, <1>4, <1>5, <2>1 DEF StoreIInv, StepsInv, SortedInv
<1>6. CASE jsonl' # jsonl
  <2>1. PICK s \in Stream : s = Batch[w][next]
    BY <1>1
  <2>2. jsonl' = [jsonl EXCEPT ![s] = Append(jsonl[s], <<w, next>>)]
    BY <1>6, <2>1 DEF Lined
  <2>3. \A j \in DOMAIN jsonl[s] : jsonl[s][j][1] = w => jsonl[s][j][2] < next
    <3> SUFFICES ASSUME NEW j \in DOMAIN jsonl[s], jsonl[s][j][1] = w
                 PROVE  jsonl[s][j][2] < next
      OBVIOUS
    <3>1. jsonl[s][j][2] \in Lines(w)
      BY LinesOf DEF StoreIInv, StepsInv
    <3> QED BY <3>1, <1>1, <1>3
  <2>4. <<w, next>> \in Entry /\ Batch[<<w, next>>[1]][<<w, next>>[2]] = s
    BY <1>1, <2>1, EntryMade
  <2>5. /\ Append(jsonl[s], <<w, next>>) \in Seq(Entry) /\ Sorted(Append(jsonl[s], <<w, next>>), s)
        /\ Entries(Append(jsonl[s], <<w, next>>)) = Entries(jsonl[s]) \cup {<<w, next>>}
    BY <1>2, <2>3, <2>4, AppendSorted
  <2>6. /\ jsonl'[s] = Append(jsonl[s], <<w, next>>)
        /\ \A t \in Stream \ {s} : jsonl'[t] = jsonl[t]
    BY <1>2, <2>2
  <2>7. jsonl' \in [Stream -> Seq(Entry)]
    BY <1>2, <2>2, <2>5
  <2>8. SortedInv'
    BY <1>2, <2>5, <2>6 DEF StoreIInv, StepsInv, SortedInv
  <2>9. ASSUME NEW v \in Writer, NEW i \in DOMAIN Batch[v]
        PROVE  <<v, i>> \in Entries(jsonl'[Batch[v][i]]) <=>
                 <<v, i>> \in Entries(jsonl[Batch[v][i]]) \/ <<v, i>> = <<w, next>>
    <3>1. CASE Batch[v][i] = s
      BY <3>1, <2>5, <2>6
    <3>2. CASE Batch[v][i] # s
      <4>1. <<v, i>> # <<w, next>>
        BY <3>2, <2>1
      <4> QED BY <3>2, <4>1, <2>6, <2>9, BatchStreams
    <3> QED BY <3>1, <3>2
  <2>10. \A v \in Writer \ {w} : Lines(v)' = Lines(v)
    BY <2>9 DEF Lines
  <2>11. Lines(w)' = Lines(w) \cup {next}
    BY <2>9, <1>1 DEF Lines
  <2>12. Lines(w)' = 1 .. next
    BY <2>11, <1>1, <1>3, BatchStreams
  <2> QED BY <2>7, <2>8, <2>10, <2>12, <1>4
<1> QED BY <1>5, <1>6

\* The sizes remembered with the next line.
LEMMA SizeAdded ==
  ASSUME StoreIInv, NEW w \in Writer, lock = w, lock' = w, stage[w] = "write", Lined(w),
         Remember(Batch[w][next])
  PROVE  /\ sizes' \in Seq([stream : Stream, size : Nat]) /\ sizes' # <<>>
         /\ \A j, k \in DOMAIN sizes' : sizes'[j].stream = sizes'[k].stream => j = k
         /\ \A k \in DOMAIN sizes' :
              /\ sizes'[k].size <= Len(jsonl'[sizes'[k].stream])
              /\ \A j \in DOMAIN jsonl'[sizes'[k].stream] :
                   jsonl'[sizes'[k].stream][j][1] = lock' <=> j > sizes'[k].size
         /\ \A i \in 1 .. next : Remembered(Batch[w][i])'
<1>1. /\ next \in DOMAIN Batch[w] /\ DOMAIN Batch[w] = 1 .. Len(Batch[w]) /\ Len(Batch[w]) \in Nat
      /\ next \in Nat
  BY BatchStreams, NoWriterAssumption DEF StoreIInv, StoreTypeOK
<1>2. PICK s \in Stream : s = Batch[w][next]
  BY <1>1, BatchStreams
<1>3. /\ sizes \in Seq([stream : Stream, size : Nat])
      /\ \A j, k \in DOMAIN sizes : sizes[j].stream = sizes[k].stream => j = k
  BY DEF StoreIInv, StoreTypeOK
<1>4. \A i \in 1 .. next - 1 : Remembered(Batch[w][i])
  BY DEF StoreIInv, StepsInv, ContentInv, Kept
<1>5. Len(jsonl[s]) \in Nat
  BY DEF StoreIInv, StoreTypeOK
<1>6. ASSUME NEW t \in Stream, NEW z \in Nat, z <= Len(jsonl[t]),
             \A j \in DOMAIN jsonl[t] : jsonl[t][j][1] = w <=> j > z
      PROVE  /\ z <= Len(jsonl'[t])
             /\ \A j \in DOMAIN jsonl'[t] : jsonl'[t][j][1] = w <=> j > z
  <2>1. /\ jsonl[t] \in Seq(Entry) /\ jsonl'[t] \in Seq(Entry)
        /\ Len(jsonl'[t]) >= Len(jsonl[t])
        /\ \A j \in 1 .. Len(jsonl[t]) : jsonl'[t][j] = jsonl[t][j]
        /\ \A j \in DOMAIN jsonl'[t] : j > Len(jsonl[t]) => jsonl'[t][j] = <<w, next>>
    BY LineShape
  <2>2. /\ DOMAIN jsonl[t] = 1 .. Len(jsonl[t]) /\ Len(jsonl[t]) \in Nat
        /\ DOMAIN jsonl'[t] = 1 .. Len(jsonl'[t]) /\ Len(jsonl'[t]) \in Nat
    BY <2>1
  <2>3. ASSUME NEW j \in DOMAIN jsonl'[t] PROVE jsonl'[t][j][1] = w <=> j > z
    <3>1. CASE j <= Len(jsonl[t])
      BY <3>1, <2>1, <2>2, <1>6
    <3>2. CASE j > Len(jsonl[t])
      BY <3>2, <2>1, <2>2, <1>6
    <3> QED BY <3>1, <3>2, <2>2
  <2> QED BY <2>1, <2>2, <2>3, <1>6
<1>7. CASE Remembered(s)
  <2>1. sizes' = sizes
    BY <1>2, <1>7 DEF Remember, Remembered
  <2>2. \A i \in 1 .. next : Remembered(Batch[w][i])'
    BY <1>1, <1>2, <1>4, <1>7, <2>1 DEF Remembered
  <2>3. sizes' # <<>>
    BY <1>3, <1>7, <2>1 DEF Remembered
  <2>4. ASSUME NEW k \in DOMAIN sizes
        PROVE  /\ sizes[k].size <= Len(jsonl'[sizes[k].stream])
               /\ \A j \in DOMAIN jsonl'[sizes[k].stream] :
                    jsonl'[sizes[k].stream][j][1] = w <=> j > sizes[k].size
    <3>1. /\ sizes[k].size <= Len(jsonl[sizes[k].stream])
          /\ \A j \in DOMAIN jsonl[sizes[k].stream] :
               jsonl[sizes[k].stream][j][1] = w <=> j > sizes[k].size
      BY DEF StoreIInv, StepsInv, SizesInv
    <3>2. sizes[k].stream \in Stream /\ sizes[k].size \in Nat
      BY <1>3, SizeShape
    <3> QED BY <3>1, <3>2, <1>6
  <2> QED BY <1>3, <2>1, <2>2, <2>3, <2>4
<1>8. CASE ~Remembered(s)
  <2>1. sizes' = Append(sizes, [stream |-> s, size |-> Len(jsonl[s])])
    BY <1>2, <1>8 DEF Remember, Remembered, SizeOf
  <2>2. /\ sizes' \in Seq([stream : Stream, size : Nat]) /\ Len(sizes') = Len(sizes) + 1
        /\ \A k \in DOMAIN sizes : k \in DOMAIN sizes' /\ sizes'[k] = sizes[k]
        /\ sizes'[Len(sizes) + 1] = [stream |-> s, size |-> Len(jsonl[s])]
        /\ DOMAIN sizes' = DOMAIN sizes \cup {Len(sizes) + 1}
        /\ Len(sizes) + 1 \notin DOMAIN sizes
    BY <1>3, <1>5, <2>1
  <2>3. \A k \in DOMAIN sizes : sizes[k].stream # s
    BY <1>8 DEF Remembered
  <2>4. \A j, k \in DOMAIN sizes' : sizes'[j].stream = sizes'[k].stream => j = k
    BY <1>3, <2>2, <2>3
  <2>5. \A i \in 1 .. next : Remembered(Batch[w][i])'
    <3>1. \A i \in 1 .. next - 1 : Remembered(Batch[w][i])'
      BY <1>4, <2>2 DEF Remembered
    <3>2. Remembered(s)'
      BY <2>2 DEF Remembered
    <3> QED BY <1>1, <1>2, <3>1, <3>2 DEF Remembered
  <2>6. \A j \in DOMAIN jsonl[s] : jsonl[s][j][1] # w
    <3> SUFFICES ASSUME NEW j \in DOMAIN jsonl[s], jsonl[s][j][1] = w PROVE FALSE
      OBVIOUS
    <3>1. jsonl[s][j][2] \in Lines(w)
      BY LinesOf DEF StoreIInv, StepsInv
    <3>2. w \notin doubt
      BY DEF StoreIInv, StepsInv, ContentInv
    <3>3. Batch[w][jsonl[s][j][2]] = s
      BY DEF StoreIInv, StepsInv, SortedInv, Sorted
    <3> QED BY <3>1, <3>2, <3>3, <1>8 DEF StoreIInv, StepsInv, ContentInv
  <2>7. ASSUME NEW k \in DOMAIN sizes'
        PROVE  /\ sizes'[k].size <= Len(jsonl'[sizes'[k].stream])
               /\ \A j \in DOMAIN jsonl'[sizes'[k].stream] :
                    jsonl'[sizes'[k].stream][j][1] = w <=> j > sizes'[k].size
    <3>1. /\ sizes'[k].size <= Len(jsonl[sizes'[k].stream])
          /\ \A j \in DOMAIN jsonl[sizes'[k].stream] :
               jsonl[sizes'[k].stream][j][1] = w <=> j > sizes'[k].size
      <4>1. CASE k \in DOMAIN sizes
        BY <4>1, <2>2 DEF StoreIInv, StepsInv, SizesInv
      <4>2. CASE k = Len(sizes) + 1
        <5>1. sizes'[k].stream = s /\ sizes'[k].size = Len(jsonl[s])
          BY <4>2, <2>2
        <5>2. \A j \in DOMAIN jsonl[s] : ~(j > Len(jsonl[s]))
          BY DEF StoreIInv, StoreTypeOK
        <5> QED BY <5>1, <5>2, <2>6, <1>5
      <4> QED BY <4>1, <4>2, <2>2
    <3>2. sizes'[k].stream \in Stream /\ sizes'[k].size \in Nat
      BY <2>2, SizeShape
    <3> QED BY <3>1, <3>2, <1>6
  <2> QED BY <2>2, <2>4, <2>5, <2>7
<1> QED BY <1>7, <1>8

\* Readers of the file would be shown one entry of the holder more.
LEMMA LineBefore ==
  ASSUME StoreIInv, NEW w \in Writer, lock = w, stage[w] = "write", Lined(w),
         UNCHANGED <<mode, lock, sql, before>>
  PROVE  BeforeInv'
<1>1. ASSUME NEW s \in Stream
      PROVE  /\ IsPrefix(before[s], Visible(s)')
             /\ \A j \in DOMAIN Visible(s)' : Visible(s)'[j][1] = w <=> j > Len(before[s])
  <2>1. /\ IsPrefix(before[s], Visible(s))
        /\ \A j \in DOMAIN Visible(s) : Visible(s)[j][1] = w <=> j > Len(before[s])
    BY NoWriterAssumption DEF StoreIInv, StepsInv, BeforeInv, Adds
  <2>2. CASE ReadsSql(s)
    BY <2>1, <2>2 DEF Visible, ReadsSql
  <2>3. CASE ~ReadsSql(s)
    <3>1. Visible(s) = jsonl[s] /\ Visible(s)' = jsonl'[s]
      BY <2>3 DEF Visible, ReadsSql
    <3>2. before[s] \in Seq(Entry)
      BY DEF StoreIInv, StoreTypeOK
    <3>3. /\ jsonl[s] \in Seq(Entry) /\ jsonl'[s] \in Seq(Entry)
          /\ Len(jsonl'[s]) >= Len(jsonl[s])
          /\ \A j \in 1 .. Len(jsonl[s]) : jsonl'[s][j] = jsonl[s][j]
          /\ \A j \in DOMAIN jsonl'[s] : j > Len(jsonl[s]) => jsonl'[s][j] = <<w, next>>
      BY LineShape
    <3>4. Len(before[s]) <= Len(jsonl[s]) /\ \A j \in DOMAIN before[s] : before[s][j] = jsonl[s][j]
      BY <2>1, <3>1, <3>2, <3>3, PrefixPointwise
    <3>5. IsPrefix(before[s], jsonl'[s])
      <4>1. Len(before[s]) <= Len(jsonl'[s])
        BY <3>2, <3>3, <3>4
      <4>2. \A j \in DOMAIN before[s] : before[s][j] = jsonl'[s][j]
        BY <3>2, <3>3, <3>4
      <4> QED BY <4>1, <4>2, <3>2, <3>3, PrefixPointwise
    <3>6. ASSUME NEW j \in DOMAIN jsonl'[s] PROVE jsonl'[s][j][1] = w <=> j > Len(before[s])
      <4>1. CASE j <= Len(jsonl[s])
        <5>1. j \in DOMAIN jsonl[s] /\ jsonl'[s][j] = jsonl[s][j]
          BY <4>1, <3>3
        <5> QED BY <5>1, <2>1, <3>1
      <4>2. CASE j > Len(jsonl[s])
        BY <4>2, <3>2, <3>3, <3>4
      <4> QED BY <4>1, <4>2, <3>3
    <3> QED BY <3>1, <3>5, <3>6
  <2> QED BY <2>2, <2>3
<1> QED BY <1>1 DEF BeforeInv, Adds

\* _append_many_jsonl_unlocked writes a line and remembers where the file ended.
LEMMA Writing ==
  ASSUME StoreIInv, NEW w \in Writer, WriteLine(w)
  PROVE  StoreIInv'
<1>1. /\ stage[w] = "write" /\ Remember(Batch[w][next])
      /\ jsonl' = [jsonl EXCEPT ![Batch[w][next]] = Append(@, <<w, next>>)]
      /\ UNCHANGED <<mode, lock, tx, before, sql, shown, doubt>>
  BY DEF WriteLine, NextEntry, Move
<1>2. lock = w /\ lock' = w /\ Lined(w)
  BY <1>1 DEF StoreIInv, StepsInv, HolderInv, Holding, Lined
<1>3. /\ next \in DOMAIN Batch[w] /\ DOMAIN Batch[w] = 1 .. Len(Batch[w])
      /\ Len(Batch[w]) \in Nat \ {0}
  BY <1>2, BatchStreams, NoWriterAssumption DEF StoreIInv, StoreTypeOK
<1>4. PICK r \in {"write", "commit"} :
        /\ stage' = [stage EXCEPT ![w] = r]
        /\ r = "write" => next # Len(Batch[w]) /\ next' = next + 1
        /\ r = "commit" => next = Len(Batch[w]) /\ next' = 1
  <2>1. CASE next = Len(Batch[w])
    BY <2>1 DEF WriteLine, NextEntry, Move
  <2>2. CASE next # Len(Batch[w])
    <3>1. stage' = [stage EXCEPT ![w] = "write"]
      BY <2>2, <1>1 DEF WriteLine, NextEntry, StoreIInv, StoreTypeOK
    <3> QED BY <2>2, <3>1 DEF WriteLine, NextEntry
  <2> QED BY <2>1, <2>2
<1>5. /\ jsonl' \in [Stream -> Seq(Entry)] /\ SortedInv'
      /\ jsonl' # jsonl => Lines(w)' = 1 .. next
      /\ \A v \in Writer \ {w} : Lines(v)' = Lines(v)
      /\ \A v \in Writer : Rows(v)' = Rows(v)
  BY <1>1, <1>2, LineAdded
<1>6. jsonl' # jsonl
  <2>1. PICK s \in Stream : s = Batch[w][next]
    BY <1>3, BatchStreams
  <2>2. jsonl[s] \in Seq(Entry) /\ jsonl'[s] = Append(jsonl[s], <<w, next>>)
    BY <1>1, <2>1 DEF StoreIInv, StoreTypeOK
  <2>3. Append(jsonl[s], <<w, next>>) # jsonl[s]
    <3>1. Len(Append(jsonl[s], <<w, next>>)) = Len(jsonl[s]) + 1 /\ Len(jsonl[s]) \in Nat
      BY <2>2
    <3> QED BY <3>1
  <2> QED BY <2>2, <2>3
<1>7. Rows(w) = {} /\ w \notin doubt
  BY <1>1 DEF StoreIInv, StepsInv, ContentInv, Kept
<1>8. /\ sizes' \in Seq([stream : Stream, size : Nat]) /\ sizes' # <<>>
      /\ \A j, k \in DOMAIN sizes' : sizes'[j].stream = sizes'[k].stream => j = k
      /\ \A k \in DOMAIN sizes' :
           /\ sizes'[k].size <= Len(jsonl'[sizes'[k].stream])
           /\ \A j \in DOMAIN jsonl'[sizes'[k].stream] :
                jsonl'[sizes'[k].stream][j][1] = lock' <=> j > sizes'[k].size
      /\ \A i \in 1 .. next : Remembered(Batch[w][i])'
  BY <1>1, <1>2, SizeAdded
<1>9. Kept(w)'
  <2>1. stage'[w] = r
    BY <1>4 DEF StoreIInv, StoreTypeOK
  <2>2. r = "write" => Lines(w)' = 1 .. next' - 1
    BY <1>3, <1>4, <1>5, <1>6
  <2>3. r = "commit" => Lines(w)' = DOMAIN Batch[w]
    BY <1>3, <1>4, <1>5, <1>6
  <2> QED BY <2>1, <2>2, <2>3, <1>5, <1>7 DEF Kept
<1>10. HolderInv' /\ ContentInv' /\ stage' \in [Writer -> Stage] /\ stage'[w] = r
  BY <1>1, <1>2, <1>4, <1>5, <1>6, <1>7, <1>8, <1>9, StillHeld DEF Holding
<1>11. StoreTypeOK'
  <2>1. next' \in Nat \ {0} /\ next' <= Len(Batch[w])
    BY <1>3, <1>4
  <2> QED BY <2>1, <1>1, <1>2, <1>5, <1>8, <1>10 DEF StoreIInv, StoreTypeOK
<1>12. TxInv'
  <2>1. \A v \in Writer : stage'[v] # "insert"
    BY <1>2, <1>10 DEF HolderInv, Holding
  <2>2. ASSUME NEW i \in DOMAIN Batch[w], Batch[w][i] \in SqlStream PROVE Inserted(w, i)'
    <3>1. Inserted(w, i) /\ stage[w] = "write"
      BY <2>2, <1>1, <1>2 DEF StoreIInv, StepsInv, TxInv
    <3>2. stage'[w] # "insert" /\ tx' = tx /\ WritesSql(w)' = WritesSql(w)
      BY <2>1, <1>1 DEF WritesSql
    <3> QED BY <3>1, <3>2 DEF Inserted
  <2> QED BY <2>1, <2>2, <1>1, <1>2 DEF StoreIInv, StepsInv, TxInv
<1>13. SizesInv'
  BY <1>8 DEF SizesInv
<1>14. BeforeInv'
  BY <1>1, <1>2, LineBefore
<1> QED BY <1>5, <1>10, <1>11, <1>12, <1>13, <1>14 DEF StoreIInv, StepsInv

\* A write that raises goes to the rollback, with the line or without.
LEMMA WriteFailing ==
  ASSUME StoreIInv, NEW w \in Writer, WriteLineFails(w)
  PROVE  StoreIInv'
<1>1. /\ stage[w] = "write" /\ Remember(Batch[w][next]) /\ Lined(w)
      /\ stage' = [stage EXCEPT ![w] = "undo"]
      /\ UNCHANGED <<mode, lock, next, tx, before, sql, shown, doubt>>
  BY DEF WriteLineFails, Move, Lined
<1>2. lock = w /\ lock' = w
  BY <1>1 DEF StoreIInv, StepsInv, HolderInv, Holding
<1>3. /\ jsonl' \in [Stream -> Seq(Entry)] /\ SortedInv'
      /\ Lines(w)' \subseteq 1 .. next
      /\ \A v \in Writer \ {w} : Lines(v)' = Lines(v)
      /\ \A v \in Writer : Rows(v)' = Rows(v)
  BY <1>1, <1>2, LineAdded
<1>4. Rows(w) = {} /\ w \notin doubt
  BY <1>1 DEF StoreIInv, StepsInv, ContentInv, Kept
<1>5. /\ sizes' \in Seq([stream : Stream, size : Nat]) /\ sizes' # <<>>
      /\ \A j, k \in DOMAIN sizes' : sizes'[j].stream = sizes'[k].stream => j = k
      /\ \A k \in DOMAIN sizes' :
           /\ sizes'[k].size <= Len(jsonl'[sizes'[k].stream])
           /\ \A j \in DOMAIN jsonl'[sizes'[k].stream] :
                jsonl'[sizes'[k].stream][j][1] = lock' <=> j > sizes'[k].size
      /\ \A i \in 1 .. next : Remembered(Batch[w][i])'
  BY <1>1, <1>2, SizeAdded
<1>6. Kept(w)'
  <2>1. stage'[w] = "undo"
    BY <1>1 DEF StoreIInv, StoreTypeOK
  <2> QED BY <2>1, <1>3, <1>4 DEF Kept
<1>7. HolderInv' /\ ContentInv' /\ stage' \in [Writer -> Stage] /\ stage'[w] = "undo"
  BY <1>1, <1>2, <1>3, <1>4, <1>5, <1>6, StillHeld DEF Holding
<1>8. StoreTypeOK'
  BY <1>1, <1>2, <1>3, <1>5, <1>7 DEF StoreIInv, StoreTypeOK
<1>9. TxInv'
  <2>1. \A v \in Writer : stage'[v] # "insert"
    BY <1>2, <1>7 DEF HolderInv, Holding
  <2>2. \A i \in DOMAIN Batch[w] : Inserted(w, i)'
    BY <1>7 DEF Inserted
  <2> QED BY <2>1, <2>2, <1>1, <1>2 DEF StoreIInv, StepsInv, TxInv
<1>10. SizesInv'
  BY <1>5 DEF SizesInv
<1>11. BeforeInv'
  BY <1>1, <1>2, LineBefore
<1> QED BY <1>3, <1>7, <1>8, <1>9, <1>10, <1>11 DEF StoreIInv, StepsInv

\* What the commit of the transaction adds to the tables.
LEMMA RowsCommitted ==
  ASSUME StoreIInv, NEW w \in Writer, lock = w, stage[w] = "commit", CommitRows,
         UNCHANGED <<mode, jsonl>>
  PROVE  /\ sql' \in [SqlStream -> Seq(Entry)] /\ SortedInv'
         /\ \A s \in SqlStream :
              /\ Len(sql'[s]) >= Len(sql[s])
              /\ \A j \in 1 .. Len(sql[s]) : sql'[s][j] = sql[s][j] /\ sql[s][j][1] # w
              /\ \A j \in DOMAIN sql'[s] : j > Len(sql[s]) => sql'[s][j][1] = w
         /\ \A v \in Writer : Lines(v)' = Lines(v)
         /\ \A v \in Writer \ {w} : Rows(v)' = Rows(v)
         /\ Rows(w)' = IF WritesSql(w) THEN DOMAIN Batch[w] ELSE {}
<1>1. /\ sql \in [SqlStream -> Seq(Entry)] /\ tx \in [SqlStream -> Seq(Entry)]
      /\ \A s \in SqlStream : Sorted(sql[s], s) /\ Sorted(tx[s], s)
      /\ \A s \in SqlStream : \A j \in DOMAIN tx[s] : tx[s][j][1] = w
  BY DEF StoreIInv, StoreTypeOK, StepsInv, SortedInv, TxInv
<1>2. Rows(w) = {}
  BY DEF StoreIInv, StepsInv, ContentInv, Kept
<1>3. \A s \in SqlStream : \A j \in DOMAIN sql[s] : sql[s][j][1] # w
  BY <1>2, RowsOf DEF StoreIInv, StepsInv
<1>4. ASSUME NEW s \in SqlStream
      PROVE  /\ sql'[s] \in Seq(Entry) /\ Len(sql'[s]) = Len(sql[s]) + Len(tx[s])
             /\ Sorted(sql'[s], s)
             /\ Entries(sql'[s]) = Entries(sql[s]) \cup Entries(tx[s])
             /\ \A j \in DOMAIN sql[s] : sql'[s][j] = sql[s][j]
             /\ \A k \in DOMAIN tx[s] : sql'[s][Len(sql[s]) + k] = tx[s][k]
  <2>1. \A j \in DOMAIN sql[s] : \A k \in DOMAIN tx[s] : sql[s][j][1] # tx[s][k][1]
    BY <1>1, <1>3
  <2>2. sql'[s] = sql[s] \o tx[s]
    BY DEF CommitRows
  <2>3. sql[s] \in Seq(Entry) /\ tx[s] \in Seq(Entry) /\ Sorted(sql[s], s) /\ Sorted(tx[s], s)
    BY <1>1
  <2>4. /\ sql[s] \o tx[s] \in Seq(Entry) /\ Len(sql[s] \o tx[s]) = Len(sql[s]) + Len(tx[s])
        /\ Sorted(sql[s] \o tx[s], s)
        /\ Entries(sql[s] \o tx[s]) = Entries(sql[s]) \cup Entries(tx[s])
        /\ \A j \in DOMAIN sql[s] : (sql[s] \o tx[s])[j] = sql[s][j]
        /\ \A k \in DOMAIN tx[s] : (sql[s] \o tx[s])[Len(sql[s]) + k] = tx[s][k]
    BY <2>1, <2>3, JoinSorted
  <2> QED BY <2>2, <2>4
<1>5. sql' \in [SqlStream -> Seq(Entry)]
  <2>1. sql' = [s \in SqlStream |-> sql'[s]]
    BY DEF CommitRows
  <2> QED BY <2>1, <1>4
<1>6. SortedInv'
  BY <1>4 DEF StoreIInv, StepsInv, SortedInv
<1>7. ASSUME NEW s \in SqlStream
      PROVE  /\ Len(sql'[s]) >= Len(sql[s])
             /\ \A j \in 1 .. Len(sql[s]) : sql'[s][j] = sql[s][j] /\ sql[s][j][1] # w
             /\ \A j \in DOMAIN sql'[s] : j > Len(sql[s]) => sql'[s][j][1] = w
  <2>1. sql[s] \in Seq(Entry) /\ tx[s] \in Seq(Entry) /\ sql'[s] \in Seq(Entry)
    BY <1>1, <1>4
  <2>2. /\ DOMAIN sql[s] = 1 .. Len(sql[s]) /\ Len(sql[s]) \in Nat
        /\ DOMAIN tx[s] = 1 .. Len(tx[s]) /\ Len(tx[s]) \in Nat
        /\ DOMAIN sql'[s] = 1 .. Len(sql'[s])
    BY <2>1
  <2>3. ASSUME NEW j \in DOMAIN sql'[s], j > Len(sql[s]) PROVE sql'[s][j][1] = w
    <3>1. j - Len(sql[s]) \in DOMAIN tx[s] /\ Len(sql[s]) + (j - Len(sql[s])) = j
      <4>1. PICK m \in Nat, n \in Nat : m = Len(sql[s]) /\ n = Len(tx[s])
        BY <2>2
      <4>2. j \in 1 .. m + n /\ j > m
        BY <4>1, <2>2, <2>3, <1>4
      <4>3. j - m \in 1 .. n /\ m + (j - m) = j
        BY <4>2
      <4> QED BY <4>1, <4>3, <2>2
    <3>2. sql'[s][j] = tx[s][j - Len(sql[s])]
      BY <3>1, <1>4
    <3> QED BY <3>1, <3>2, <1>1
  <2>4. Len(sql'[s]) >= Len(sql[s])
    <3>1. PICK m \in Nat, n \in Nat : m = Len(sql[s]) /\ n = Len(tx[s])
      BY <2>2
    <3>2. Len(sql'[s]) = m + n
      BY <3>1, <2>1, <1>4
    <3>3. m + n >= m
      OBVIOUS
    <3> QED BY <3>1, <3>2, <3>3
  <2>5. \A j \in 1 .. Len(sql[s]) : sql'[s][j] = sql[s][j] /\ sql[s][j][1] # w
    BY <2>2, <1>3, <1>4
  <2> QED BY <2>3, <2>4, <2>5
<1>8. \A v \in Writer : Lines(v)' = Lines(v)
  BY DEF Lines
<1>9. ASSUME NEW v \in Writer \ {w}, NEW s \in SqlStream, NEW i \in DOMAIN Batch[v]
      PROVE  <<v, i>> \in Entries(sql'[s]) <=> <<v, i>> \in Entries(sql[s])
  <2>1. <<v, i>> \notin Entries(tx[s])
    BY <1>1 DEF Entries
  <2> QED BY <2>1, <1>4
<1>10. \A v \in Writer \ {w} : Rows(v)' = Rows(v)
  BY <1>9 DEF Rows
<1>11. ASSUME NEW i \in DOMAIN Batch[w], Batch[w][i] \in SqlStream
       PROVE  <<w, i>> \in Entries(sql'[Batch[w][i]]) <=> WritesSql(w)
  <2>1. <<w, i>> \notin Entries(sql[Batch[w][i]])
    BY <1>2, <1>11 DEF Rows
  <2>2. <<w, i>> \in Entries(tx[Batch[w][i]]) <=> WritesSql(w)
    BY <1>11 DEF StoreIInv, StepsInv, TxInv, Inserted
  <2> QED BY <2>1, <2>2, <1>4, <1>11
<1>12. Rows(w)' = IF WritesSql(w) THEN DOMAIN Batch[w] ELSE {}
  <2>1. WritesSql(w) => \A i \in DOMAIN Batch[w] : Batch[w][i] \in SqlStream
    BY BatchStreams DEF WritesSql
  <2> QED BY <2>1, <1>11 DEF Rows
<1> QED BY <1>5, <1>6, <1>7, <1>8, <1>10, <1>12

\* Readers of a table would be shown the rows of the holder after the others.
LEMMA RowsShown ==
  ASSUME StoreIInv, NEW w \in Writer, lock = w, stage[w] = "commit", CommitRows,
         UNCHANGED <<mode, jsonl>>, NEW s \in Stream
  PROVE  Adds(w, before[s], Visible(s)')
<1>1. /\ IsPrefix(before[s], Visible(s))
      /\ \A j \in DOMAIN Visible(s) : Visible(s)[j][1] = w <=> j > Len(before[s])
  BY NoWriterAssumption DEF StoreIInv, StepsInv, BeforeInv, Adds
<1>2. CASE ~ReadsSql(s)
  BY <1>1, <1>2 DEF Visible, ReadsSql, Adds
<1>3. CASE ReadsSql(s)
  <2>1. s \in SqlStream /\ Visible(s) = sql[s] /\ Visible(s)' = sql'[s]
    BY <1>3 DEF Visible, ReadsSql
  <2>2. before[s] \in Seq(Entry) /\ sql[s] \in Seq(Entry) /\ sql'[s] \in Seq(Entry)
    BY <2>1, RowsCommitted DEF StoreIInv, StoreTypeOK
  <2>3. Len(before[s]) <= Len(sql[s]) /\ \A j \in DOMAIN before[s] : before[s][j] = sql[s][j]
    BY <1>1, <2>1, <2>2, PrefixPointwise
  <2>4. Len(before[s]) = Len(sql[s])
    <3>1. CASE Len(sql[s]) = 0
      BY <3>1, <2>2, <2>3
    <3>2. CASE Len(sql[s]) # 0
      <4>1. Len(sql[s]) \in DOMAIN sql[s] /\ Len(sql[s]) \in 1 .. Len(sql[s])
        BY <3>2, <2>2
      <4>2. sql[s][Len(sql[s])][1] # w
        BY <4>1, <2>1, RowsCommitted
      <4>3. ~(Len(sql[s]) > Len(before[s]))
        BY <4>1, <4>2, <1>1, <2>1
      <4> QED BY <4>3, <2>2, <2>3
    <3> QED BY <3>1, <3>2
  <2>5. IsPrefix(before[s], sql'[s])
    <3>1. /\ Len(sql'[s]) >= Len(sql[s])
          /\ \A j \in 1 .. Len(sql[s]) : sql'[s][j] = sql[s][j]
      BY <2>1, RowsCommitted
    <3>2. DOMAIN before[s] = 1 .. Len(sql[s])
      BY <2>2, <2>4
    <3>3. \A j \in DOMAIN before[s] : before[s][j] = sql'[s][j]
      BY <3>1, <3>2, <2>3
    <3>4. Len(before[s]) <= Len(sql'[s])
      BY <3>1, <2>2, <2>4
    <3> QED BY <3>3, <3>4, <2>2, PrefixPointwise
  <2>6. ASSUME NEW j \in DOMAIN sql'[s] PROVE sql'[s][j][1] = w <=> j > Len(before[s])
    <3>1. CASE j <= Len(sql[s])
      <4>1. j \in 1 .. Len(sql[s])
        BY <3>1, <2>2
      <4> QED BY <4>1, <3>1, <2>1, <2>2, <2>4, RowsCommitted
    <3>2. CASE j > Len(sql[s])
      BY <3>2, <2>1, <2>4, RowsCommitted
    <3> QED BY <3>1, <3>2, <2>2
  <2> QED BY <2>1, <2>5, <2>6 DEF Adds
<1> QED BY <1>2, <1>3

\* The commit ends the call with all of its rows and lines.
LEMMA Committing ==
  ASSUME StoreIInv, NEW w \in Writer, Commit(w)
  PROVE  StoreIInv'
<1>1. /\ stage[w] = "commit" /\ stage' = [stage EXCEPT ![w] = "returned"]
      /\ CommitRows /\ Release /\ UNCHANGED <<mode, jsonl, shown, doubt>>
  BY DEF Commit, Move
<1>2. lock = w
  BY <1>1 DEF StoreIInv, StepsInv, HolderInv, Holding
<1>3. /\ sql' \in [SqlStream -> Seq(Entry)] /\ SortedInv'
      /\ \A v \in Writer : Lines(v)' = Lines(v)
      /\ \A v \in Writer \ {w} : Rows(v)' = Rows(v)
      /\ Rows(w)' = IF WritesSql(w) THEN DOMAIN Batch[w] ELSE {}
  BY <1>1, <1>2, RowsCommitted
<1>4. Lines(w) = DOMAIN Batch[w] /\ w \notin doubt /\ stage'[w] = "returned"
  BY <1>1 DEF StoreIInv, StepsInv, ContentInv, Kept, StoreTypeOK
<1>5. Kept(w)'
  BY <1>1, <1>3, <1>4 DEF Kept, WritesSql
<1>6. jsonl' \in [Stream -> Seq(Entry)]
  BY <1>1 DEF StoreIInv, StoreTypeOK
<1> QED BY <1>1, <1>2, <1>3, <1>4, <1>5, <1>6, Released

\* A commit that raises, whether the rows are there or not.
LEMMA CommitRaised ==
  ASSUME StoreIInv, NEW w \in Writer, lock = w, stage[w] = "commit", AfterFailedCommit(w),
         UNCHANGED <<mode, jsonl, shown>>,
         doubt' \in {doubt, doubt \cup {w}}, w \in Single => w \in doubt',
         sql' \in [SqlStream -> Seq(Entry)], SortedInv',
         \A v \in Writer \ {w} : Lines(v)' = Lines(v) /\ Rows(v)' = Rows(v),
         Lines(w)' = Lines(w), w \in doubt' \/ Rows(w)' = {}, w \notin Single => BeforeInv'
  PROVE  StoreIInv'
<1>1. jsonl' \in [Stream -> Seq(Entry)]
  BY DEF StoreIInv, StoreTypeOK
<1>2. CASE w \in Single
  <2>1. stage' = [stage EXCEPT ![w] = "raised"] /\ Release /\ w \in doubt'
    BY <1>2 DEF AfterFailedCommit, Move
  <2>2. stage'[w] = "raised"
    BY <2>1 DEF StoreIInv, StoreTypeOK
  <2>3. Kept(w)'
    BY <2>1, <2>2 DEF Kept
  <2> QED BY <1>1, <2>1, <2>3, Released
<1>3. CASE w \notin Single
  <2>1. /\ stage' = [stage EXCEPT ![w] = "undo"]
        /\ UNCHANGED <<lock, next, sizes, tx, before>>
    BY <1>3 DEF AfterFailedCommit, Move, heldVars
  <2>2. stage'[w] = "undo"
    BY <2>1 DEF StoreIInv, StoreTypeOK
  <2>3. Kept(w)'
    BY <2>2 DEF Kept
  <2>4. w \notin doubt' => \A i \in Lines(w)' : Remembered(Batch[w][i])'
    <3>1. w \notin doubt => \A i \in Lines(w) : Remembered(Batch[w][i])
      BY DEF StoreIInv, StepsInv, ContentInv
    <3>2. w \notin doubt' => w \notin doubt
      OBVIOUS
    <3> QED BY <3>1, <3>2, <2>1 DEF Remembered
  <2>5. HolderInv' /\ ContentInv' /\ stage' \in [Writer -> Stage]
    BY <2>1, <2>3, <2>4, StillHeld DEF Holding
  <2>6. StoreTypeOK'
    BY <1>1, <2>1, <2>5 DEF StoreIInv, StoreTypeOK
  <2>7. TxInv'
    <3>1. \A v \in Writer : stage'[v] # "insert"
      BY <2>1, <2>2, <2>5 DEF HolderInv, Holding
    <3>2. \A i \in DOMAIN Batch[w] : Inserted(w, i)'
      BY <2>2 DEF Inserted
    <3> QED BY <3>1, <3>2, <2>1 DEF StoreIInv, StepsInv, TxInv
  <2>8. SizesInv'
    <3>1. sizes # <<>>
      BY DEF StoreIInv, StepsInv, SizesInv
    <3> QED BY <3>1, <2>1 DEF StoreIInv, StepsInv, SizesInv
  <2> QED BY <1>3, <2>5, <2>6, <2>7, <2>8 DEF StoreIInv, StepsInv
<1> QED BY <1>2, <1>3

\* A commit that raises leaves no rows.
LEMMA CommitFailing ==
  ASSUME StoreIInv, NEW w \in Writer, CommitFails(w)
  PROVE  StoreIInv'
<1>1. /\ stage[w] = "commit" /\ AfterFailedCommit(w)
      /\ doubt' = IF w \in Single THEN doubt \cup {w} ELSE doubt
      /\ UNCHANGED <<mode, jsonl, sql, shown>>
  BY DEF CommitFails, AfterFailedCommit, Move
<1>2. lock = w
  BY <1>1 DEF StoreIInv, StepsInv, HolderInv, Holding
<1>3. \A v \in Writer : Lines(v)' = Lines(v) /\ Rows(v)' = Rows(v)
  BY <1>1, FilesKept
<1>4. Rows(w) = {}
  BY <1>1 DEF StoreIInv, StepsInv, ContentInv, Kept
<1>5. sql' \in [SqlStream -> Seq(Entry)] /\ SortedInv'
  BY <1>1 DEF StoreIInv, StepsInv, SortedInv, StoreTypeOK
<1>6. w \notin Single => BeforeInv'
  BY <1>1 DEF StoreIInv, StepsInv, BeforeInv, Adds, Visible, ReadsSql, AfterFailedCommit, heldVars
<1> QED BY <1>1, <1>2, <1>3, <1>4, <1>5, <1>6, CommitRaised

\* A commit whose answer is lost leaves them, and the call in doubt.
LEMMA CommitUnanswered ==
  ASSUME StoreIInv, NEW w \in Writer, CommitUnacknowledged(w)
  PROVE  StoreIInv'
<1>1. /\ stage[w] = "commit" /\ AfterFailedCommit(w) /\ CommitRows
      /\ doubt' = doubt \cup {w} /\ UNCHANGED <<mode, jsonl, shown>>
  BY DEF CommitUnacknowledged, AfterFailedCommit, Move
<1>2. lock = w
  BY <1>1 DEF StoreIInv, StepsInv, HolderInv, Holding
<1>3. /\ sql' \in [SqlStream -> Seq(Entry)] /\ SortedInv'
      /\ \A v \in Writer : Lines(v)' = Lines(v)
      /\ \A v \in Writer \ {w} : Rows(v)' = Rows(v)
  BY <1>1, <1>2, RowsCommitted
<1>4. ASSUME w \notin Single PROVE BeforeInv'
  <2>1. UNCHANGED <<mode, lock, jsonl, before>>
    BY <1>1, <1>4 DEF AfterFailedCommit, heldVars
  <2> QED BY <2>1, <1>1, <1>2, RowsShown DEF BeforeInv
<1> QED BY <1>1, <1>2, <1>3, <1>4, CommitRaised

\* The file cut back to its size before the batch.
CutBack ==
  jsonl' = [jsonl EXCEPT ![Head(sizes).stream] = SubSeq(@, 1, Head(sizes).size)]

\* The rollback has a file to cut, and the holder's lines begin at its size.
LEMMA FirstSize ==
  ASSUME StoreIInv, NEW w \in Writer, lock = w, stage[w] = "undo"
  PROVE  /\ Len(sizes) \in Nat \ {0} /\ DOMAIN sizes = 1 .. Len(sizes)
         /\ Head(sizes) = sizes[1] /\ sizes[1].stream \in Stream
         /\ jsonl[sizes[1].stream] \in Seq(Entry)
         /\ sizes[1].size \in 0 .. Len(jsonl[sizes[1].stream])
         /\ \A j \in DOMAIN jsonl[sizes[1].stream] :
              jsonl[sizes[1].stream][j][1] = w <=> j > sizes[1].size
<1>1. sizes # <<>> /\ sizes \in Seq([stream : Stream, size : Nat])
  BY DEF StoreIInv, StoreTypeOK, StepsInv, SizesInv
<1>2. Len(sizes) \in Nat \ {0} /\ DOMAIN sizes = 1 .. Len(sizes) /\ Head(sizes) = sizes[1]
  BY <1>1
<1>3. 1 \in DOMAIN sizes
  BY <1>2
<1>4. sizes[1].stream \in Stream /\ sizes[1].size \in Nat
  BY <1>1, <1>3, SizeShape
<1>5. jsonl[sizes[1].stream] \in Seq(Entry)
  BY <1>4 DEF StoreIInv, StoreTypeOK
<1>6. /\ sizes[1].size <= Len(jsonl[sizes[1].stream])
      /\ \A j \in DOMAIN jsonl[sizes[1].stream] :
           jsonl[sizes[1].stream][j][1] = w <=> j > sizes[1].size
  BY <1>3 DEF StoreIInv, StepsInv, SizesInv
<1> QED BY <1>2, <1>4, <1>5, <1>6

\* The truncation takes the holder's lines of one file and nothing else.
LEMMA CutEffect ==
  ASSUME StoreIInv, NEW w \in Writer, lock = w, stage[w] = "undo", CutBack,
         UNCHANGED <<mode, sql>>
  PROVE  /\ jsonl' \in [Stream -> Seq(Entry)] /\ SortedInv'
         /\ \A t \in Stream : t # sizes[1].stream => jsonl'[t] = jsonl[t]
         /\ Len(jsonl'[sizes[1].stream]) = sizes[1].size
         /\ \A j \in 1 .. sizes[1].size :
              /\ jsonl'[sizes[1].stream][j] = jsonl[sizes[1].stream][j]
              /\ jsonl'[sizes[1].stream][j][1] # w
         /\ \A i \in Lines(w)' : i \in Lines(w) /\ Batch[w][i] # sizes[1].stream
         /\ \A v \in Writer \ {w} : Lines(v)' = Lines(v)
         /\ \A v \in Writer : Rows(v)' = Rows(v)
<1>1. PICK s \in Stream, z \in Nat : s = sizes[1].stream /\ z = sizes[1].size
  BY FirstSize
<1>2. /\ jsonl[s] \in Seq(Entry) /\ z \in 0 .. Len(jsonl[s])
      /\ \A j \in DOMAIN jsonl[s] : jsonl[s][j][1] = w <=> j > z
      /\ jsonl' = [jsonl EXCEPT ![s] = SubSeq(@, 1, z)]
  BY <1>1, FirstSize DEF CutBack
<1>3. jsonl \in [Stream -> Seq(Entry)] /\ \A t \in Stream : Sorted(jsonl[t], t)
  BY DEF StoreIInv, StoreTypeOK, StepsInv, SortedInv
<1>4. jsonl'[s] = SubSeq(jsonl[s], 1, z) /\ \A t \in Stream \ {s} : jsonl'[t] = jsonl[t]
  BY <1>2, <1>3
<1>5. /\ SubSeq(jsonl[s], 1, z) \in Seq(Entry) /\ Len(SubSeq(jsonl[s], 1, z)) = z
      /\ Sorted(SubSeq(jsonl[s], 1, z), s)
      /\ \A j \in 1 .. z : SubSeq(jsonl[s], 1, z)[j] = jsonl[s][j]
  BY <1>2, <1>3, CutSorted
<1>6. /\ jsonl'[s] \in Seq(Entry) /\ Len(jsonl'[s]) = z /\ Sorted(jsonl'[s], s)
      /\ DOMAIN jsonl'[s] = 1 .. z
      /\ \A j \in 1 .. z : jsonl'[s][j] = jsonl[s][j]
  BY <1>4, <1>5
<1>7. 1 .. z \subseteq DOMAIN jsonl[s] /\ \A j \in 1 .. z : ~(j > z)
  BY <1>2
<1>8. \A j \in 1 .. z : jsonl'[s][j][1] # w
  BY <1>2, <1>6, <1>7
<1>9. jsonl' \in [Stream -> Seq(Entry)]
  BY <1>2, <1>3, <1>4, <1>6
<1>10. SortedInv'
  BY <1>3, <1>4, <1>6 DEF StoreIInv, StepsInv, SortedInv
<1>11. Entries(jsonl'[s]) \subseteq Entries(jsonl[s])
  BY <1>6, <1>7 DEF Entries
<1>12. \A i \in Lines(w)' : i \in Lines(w) /\ Batch[w][i] # s
  <2> SUFFICES ASSUME NEW i \in DOMAIN Batch[w], <<w, i>> \in Entries(jsonl'[Batch[w][i]])
               PROVE  Batch[w][i] # s /\ <<w, i>> \in Entries(jsonl[Batch[w][i]])
    BY DEF Lines
  <2>1. Batch[w][i] # s
    BY <1>6, <1>8 DEF Entries
  <2> QED BY <2>1, <1>4, BatchStreams
<1>13. ASSUME NEW v \in Writer \ {w}, NEW i \in DOMAIN Batch[v]
       PROVE  <<v, i>> \in Entries(jsonl'[Batch[v][i]]) <=> <<v, i>> \in Entries(jsonl[Batch[v][i]])
  <2>1. CASE Batch[v][i] # s
    BY <2>1, <1>4, BatchStreams
  <2>2. CASE Batch[v][i] = s
    <3>1. ASSUME <<v, i>> \in Entries(jsonl[s]) PROVE <<v, i>> \in Entries(jsonl'[s])
      <4>1. PICK j \in DOMAIN jsonl[s] : jsonl[s][j] = <<v, i>>
        BY <3>1 DEF Entries
      <4>2. j \in 1 .. z
        BY <4>1, <1>2
      <4> QED BY <4>1, <4>2, <1>6 DEF Entries
    <3> QED BY <2>2, <3>1, <1>11
  <2> QED BY <2>1, <2>2
<1>14. \A v \in Writer \ {w} : Lines(v)' = Lines(v)
  BY <1>13 DEF Lines
<1>15. \A v \in Writer : Rows(v)' = Rows(v)
  BY DEF Rows
<1> QED BY <1>1, <1>4, <1>6, <1>8, <1>9, <1>10, <1>12, <1>14, <1>15

\* Readers of the file would be shown what they could see before the batch.
LEMMA CutShown ==
  ASSUME StoreIInv, NEW w \in Writer, lock = w, stage[w] = "undo", CutBack,
         UNCHANGED <<mode, sql>>, NEW t \in Stream
  PROVE  Adds(w, before[t], Visible(t)')
<1>1. PICK s \in Stream, z \in Nat : s = sizes[1].stream /\ z = sizes[1].size
  BY FirstSize
<1>2. /\ IsPrefix(before[t], Visible(t))
      /\ \A j \in DOMAIN Visible(t) : Visible(t)[j][1] = w <=> j > Len(before[t])
  BY NoWriterAssumption DEF StoreIInv, StepsInv, BeforeInv, Adds
<1>3. CASE ReadsSql(t)
  BY <1>2, <1>3 DEF Visible, ReadsSql, Adds
<1>4. CASE ~ReadsSql(t) /\ t # s
  <2>1. jsonl'[t] = jsonl[t]
    BY <1>4, <1>1, CutEffect
  <2> QED BY <1>2, <1>4, <2>1 DEF Adds, Visible, ReadsSql
<1>5. CASE ~ReadsSql(t) /\ t = s
  <2>1. Visible(s) = jsonl[s] /\ Visible(s)' = jsonl'[s]
    BY <1>5 DEF Visible, ReadsSql
  <2>2. /\ jsonl' \in [Stream -> Seq(Entry)] /\ Len(jsonl'[s]) = z
        /\ \A j \in 1 .. z : jsonl'[s][j] = jsonl[s][j] /\ jsonl'[s][j][1] # w
    BY <1>1, CutEffect
  <2>3. /\ jsonl[s] \in Seq(Entry) /\ z \in 0 .. Len(jsonl[s])
        /\ \A j \in DOMAIN jsonl[s] : jsonl[s][j][1] = w <=> j > z
    BY <1>1, FirstSize
  <2>4. before[s] \in Seq(Entry) /\ jsonl'[s] \in Seq(Entry)
    BY <2>2 DEF StoreIInv, StoreTypeOK
  <2>5. Len(before[s]) <= Len(jsonl[s]) /\ \A j \in DOMAIN before[s] : before[s][j] = jsonl[s][j]
    BY <1>2, <1>5, <2>1, <2>3, <2>4, PrefixPointwise
  <2>6. \A j \in 1 .. Len(jsonl[s]) : j > z <=> j > Len(before[s])
    BY <1>2, <1>5, <2>1, <2>3
  <2>7. Len(before[s]) = z
    <3>1. PICK n \in Nat, b \in Nat : n = Len(jsonl[s]) /\ b = Len(before[s])
      BY <2>3, <2>4
    <3>2. z <= n /\ b <= n /\ \A j \in 1 .. n : j > z <=> j > b
      BY <3>1, <2>3, <2>5, <2>6
    <3>3. CASE z < b
      <4>1. z + 1 \in 1 .. n /\ z + 1 > z /\ ~(z + 1 > b)
        BY <3>2, <3>3
      <4> QED BY <4>1, <3>2
    <3>4. CASE b < z
      <4>1. b + 1 \in 1 .. n /\ b + 1 > b /\ ~(b + 1 > z)
        BY <3>2, <3>4
      <4> QED BY <4>1, <3>2
    <3> QED BY <3>1, <3>3, <3>4
  <2>8. IsPrefix(before[s], jsonl'[s])
    <3>1. DOMAIN before[s] = 1 .. z
      BY <2>4, <2>7
    <3>2. \A j \in DOMAIN before[s] : before[s][j] = jsonl'[s][j]
      BY <3>1, <2>2, <2>5
    <3>3. Len(before[s]) <= Len(jsonl'[s])
      BY <2>2, <2>7
    <3> QED BY <3>2, <3>3, <2>4, PrefixPointwise
  <2>9. \A j \in DOMAIN jsonl'[s] : jsonl'[s][j][1] # w /\ ~(j > Len(before[s]))
    BY <2>2, <2>4, <2>7
  <2> QED BY <1>5, <2>1, <2>8, <2>9 DEF Adds
<1> QED BY <1>3, <1>4, <1>5

\* The rollback goes on to the next file.
LEMMA UndoGoesOn ==
  ASSUME StoreIInv, NEW w \in Writer, lock = w, stage[w] = "undo", Len(sizes) # 1,
         sizes' = Tail(sizes), UNCHANGED <<mode, stage, lock, next, tx, before, sql, shown>>,
         doubt' \in {doubt, doubt \cup {w}},
         jsonl' \in [Stream -> Seq(Entry)], SortedInv',
         \A t \in Stream : t # sizes[1].stream => jsonl'[t] = jsonl[t],
         \A v \in Writer \ {w} : Lines(v)' = Lines(v),
         w \notin doubt' => \A i \in Lines(w)' : i \in Lines(w) /\ Batch[w][i] # sizes[1].stream,
         BeforeInv'
  PROVE  StoreIInv'
<1>1. /\ sizes \in Seq([stream : Stream, size : Nat])
      /\ \A j, k \in DOMAIN sizes : sizes[j].stream = sizes[k].stream => j = k
  BY DEF StoreIInv, StoreTypeOK
<1>a. Len(sizes) \in Nat \ {0} /\ DOMAIN sizes = 1 .. Len(sizes)
  BY FirstSize
<1>b. PICK n \in Nat : n = Len(sizes)
  BY <1>a
<1>c. n > 1 /\ Len(sizes) = n /\ DOMAIN sizes = 1 .. n
  BY <1>a, <1>b
<1>2. /\ sizes' \in Seq([stream : Stream, size : Nat]) /\ sizes' # <<>>
      /\ DOMAIN sizes' = 1 .. n - 1
      /\ \A k \in 1 .. n - 1 : k + 1 \in 1 .. n /\ sizes'[k] = sizes[k + 1]
  <2>1. sizes' \in Seq([stream : Stream, size : Nat]) /\ Len(sizes') = n - 1
    BY <1>1, <1>b, <1>c
  <2>2. DOMAIN sizes' = 1 .. n - 1 /\ 1 \in 1 .. n - 1
    BY <2>1, <1>b, <1>c
  <2>3. \A k \in 1 .. n - 1 : k + 1 \in 1 .. n /\ Tail(sizes)[k] = sizes[k + 1]
    BY <1>1, <1>b, <1>c
  <2>4. sizes' # <<>>
    <3>1. Len(sizes') # 0
      BY <2>1, <1>b, <1>c
    <3> QED BY <3>1
  <2> QED BY <2>1, <2>2, <2>3, <2>4
<1>3. \A j, k \in DOMAIN sizes' : sizes'[j].stream = sizes'[k].stream => j = k
  <2> SUFFICES ASSUME NEW j \in DOMAIN sizes', NEW k \in DOMAIN sizes',
                      sizes'[j].stream = sizes'[k].stream
               PROVE  j = k
    OBVIOUS
  <2>1. j \in 1 .. n - 1 /\ k \in 1 .. n - 1
    BY <1>2
  <2>2. /\ j + 1 \in DOMAIN sizes /\ k + 1 \in DOMAIN sizes
        /\ sizes[j + 1].stream = sizes[k + 1].stream
    BY <2>1, <1>2, <1>c
  <2>3. j + 1 = k + 1
    BY <2>2, <1>1
  <2> QED BY <2>1, <2>3
<1>4. ASSUME NEW k \in DOMAIN sizes'
      PROVE  sizes'[k].stream \in Stream /\ sizes'[k].stream # sizes[1].stream
  <2>1. k + 1 \in DOMAIN sizes /\ 1 \in DOMAIN sizes /\ k + 1 # 1
    <3>1. k \in 1 .. n - 1
      BY <1>2
    <3> QED BY <3>1, <1>c
  <2>2. sizes[k + 1].stream # sizes[1].stream
    BY <2>1, <1>1
  <2> QED BY <2>1, <2>2, <1>1, <1>2, SizeShape
<1>5. SizesInv'
  <2>1. ASSUME NEW k \in DOMAIN sizes'
        PROVE  /\ sizes'[k].size <= Len(jsonl'[sizes'[k].stream])
               /\ \A j \in DOMAIN jsonl'[sizes'[k].stream] :
                    jsonl'[sizes'[k].stream][j][1] = lock' <=> j > sizes'[k].size
    <3>1. /\ sizes[k + 1].size <= Len(jsonl[sizes[k + 1].stream])
          /\ \A j \in DOMAIN jsonl[sizes[k + 1].stream] :
               jsonl[sizes[k + 1].stream][j][1] = lock <=> j > sizes[k + 1].size
      BY <1>2, <1>c DEF StoreIInv, StepsInv, SizesInv
    <3>2. jsonl'[sizes'[k].stream] = jsonl[sizes[k + 1].stream] /\ sizes'[k] = sizes[k + 1]
      BY <1>2, <1>4
    <3> QED BY <3>1, <3>2
  <2> QED BY <2>1, <1>2 DEF SizesInv
<1>6. \A v \in Writer : Rows(v)' = Rows(v)
  BY DEF Rows
<1>7. stage' = [stage EXCEPT ![w] = "undo"]
  BY DEF StoreIInv, StoreTypeOK
<1>8. Kept(w)'
  <2>1. w \in doubt \/ Rows(w) = {}
    BY DEF StoreIInv, StepsInv, ContentInv, Kept
  <2> QED BY <2>1, <1>6 DEF Kept
<1>9. w \notin doubt' => \A i \in Lines(w)' : Remembered(Batch[w][i])'
  <2> SUFFICES ASSUME w \notin doubt', NEW i \in Lines(w)' PROVE Remembered(Batch[w][i])'
    OBVIOUS
  <2>1. i \in Lines(w) /\ Batch[w][i] # sizes[1].stream /\ w \notin doubt
    OBVIOUS
  <2>2. PICK k \in DOMAIN sizes : sizes[k].stream = Batch[w][i]
    BY <2>1 DEF StoreIInv, StepsInv, ContentInv, Remembered
  <2>3. k # 1 /\ k \in 1 .. n
    BY <2>1, <2>2, <1>c
  <2>4. k - 1 \in 1 .. n - 1 /\ (k - 1) + 1 = k
    BY <2>3
  <2>5. k - 1 \in DOMAIN sizes' /\ sizes'[k - 1] = sizes[k]
    BY <2>4, <1>2
  <2> QED BY <2>2, <2>5 DEF Remembered
<1>10. HolderInv' /\ ContentInv' /\ stage' \in [Writer -> Stage]
  BY <1>6, <1>7, <1>8, <1>9, StillHeld DEF Holding
<1>11. StoreTypeOK'
  BY <1>2, <1>3, <1>10 DEF StoreIInv, StoreTypeOK
<1>12. TxInv'
  BY DEF StoreIInv, StepsInv, TxInv, Inserted, WritesSql
<1> QED BY <1>5, <1>10, <1>11, <1>12 DEF StoreIInv, StepsInv

\* _rollback_jsonl_files cuts a file, and ends the call with the last.
LEMMA Undoing ==
  ASSUME StoreIInv, NEW w \in Writer, Undo(w)
  PROVE  StoreIInv'
<1>1. stage[w] = "undo" /\ NextUndo(w) /\ CutBack /\ UNCHANGED <<mode, sql, shown, doubt>>
  BY DEF Undo, NextUndo, Move, CutBack
<1>2. lock = w
  BY <1>1 DEF StoreIInv, StepsInv, HolderInv, Holding
<1>3. /\ jsonl' \in [Stream -> Seq(Entry)] /\ SortedInv'
      /\ \A t \in Stream : t # sizes[1].stream => jsonl'[t] = jsonl[t]
      /\ \A i \in Lines(w)' : i \in Lines(w) /\ Batch[w][i] # sizes[1].stream
      /\ \A v \in Writer \ {w} : Lines(v)' = Lines(v)
      /\ \A v \in Writer : Rows(v)' = Rows(v)
  BY <1>1, <1>2, CutEffect
<1>4. CASE Len(sizes) = 1
  <2>1. Release /\ stage' = [stage EXCEPT ![w] = "raised"]
    BY <1>1, <1>4 DEF NextUndo, Move
  <2>2. stage'[w] = "raised"
    BY <2>1 DEF StoreIInv, StoreTypeOK
  <2>3. w \in doubt \/ (Lines(w)' = {} /\ Rows(w)' = {})
    <3>1. w \in doubt \/ (Rows(w) = {} /\ \A i \in Lines(w) : Remembered(Batch[w][i]))
      BY <1>1, <1>2 DEF StoreIInv, StepsInv, ContentInv, Kept
    <3>2. DOMAIN sizes = {1}
      BY <1>1, <1>2, <1>4, FirstSize
    <3>3. ASSUME w \notin doubt, NEW i \in Lines(w)' PROVE FALSE
      <4>1. Remembered(Batch[w][i]) /\ Batch[w][i] # sizes[1].stream
        BY <3>1, <3>3, <1>3
      <4> QED BY <4>1, <3>2 DEF Remembered
    <3> QED BY <3>1, <3>3, <1>3
  <2>4. Kept(w)'
    BY <1>1, <2>2, <2>3 DEF Kept
  <2>5. sql' \in [SqlStream -> Seq(Entry)]
    BY <1>1 DEF StoreIInv, StoreTypeOK
  <2> QED BY <1>1, <1>2, <1>3, <2>1, <2>4, <2>5, Released
<1>5. CASE Len(sizes) # 1
  <2>1. sizes' = Tail(sizes) /\ UNCHANGED <<stage, lock, next, tx, before>>
    BY <1>1, <1>5 DEF NextUndo
  <2>2. BeforeInv'
    BY <1>1, <1>2, <2>1, CutShown DEF BeforeInv
  <2> QED BY <1>1, <1>2, <1>3, <1>5, <2>1, <2>2, UndoGoesOn
<1> QED BY <1>4, <1>5

\* A truncation that raises leaves the lines, and the call in doubt.
LEMMA UndoFailing ==
  ASSUME StoreIInv, NEW w \in Writer, UndoFails(w)
  PROVE  StoreIInv'
<1>1. /\ stage[w] = "undo" /\ NextUndo(w) /\ doubt' = doubt \cup {w}
      /\ UNCHANGED <<mode, jsonl, sql, shown>>
  BY DEF UndoFails, NextUndo, Move
<1>2. lock = w
  BY <1>1 DEF StoreIInv, StepsInv, HolderInv, Holding
<1>3. \A v \in Writer : Lines(v)' = Lines(v) /\ Rows(v)' = Rows(v)
  BY <1>1, FilesKept
<1>4. /\ jsonl' \in [Stream -> Seq(Entry)] /\ sql' \in [SqlStream -> Seq(Entry)]
      /\ SortedInv'
  BY <1>1 DEF StoreIInv, StoreTypeOK, StepsInv, SortedInv
<1>5. CASE Len(sizes) = 1
  <2>1. Release /\ stage' = [stage EXCEPT ![w] = "raised"]
    BY <1>1, <1>5 DEF NextUndo, Move
  <2>2. stage'[w] = "raised"
    BY <2>1 DEF StoreIInv, StoreTypeOK
  <2>3. Kept(w)'
    BY <1>1, <2>2 DEF Kept
  <2> QED BY <1>1, <1>2, <1>3, <1>4, <2>1, <2>3, Released
<1>6. CASE Len(sizes) # 1
  <2>1. sizes' = Tail(sizes) /\ UNCHANGED <<stage, lock, next, tx, before>>
    BY <1>1, <1>6 DEF NextUndo
  <2>2. BeforeInv'
    BY <1>1, <2>1 DEF StoreIInv, StepsInv, BeforeInv, Adds, Visible, ReadsSql
  <2> QED BY <1>1, <1>2, <1>3, <1>4, <1>6, <2>1, <2>2, UndoGoesOn
<1> QED BY <1>5, <1>6

\* Every step keeps the inductive invariant.
LEMMA StoreStep ==
  ASSUME StoreIInv, [StoreNext]_storeVars
  PROVE  StoreIInv'
<1>1. ASSUME NEW s \in Stream, ReadAll(s) PROVE StoreIInv'
  BY <1>1, Reading
<1>2. ASSUME NEW w \in Writer, Acquire(w) PROVE StoreIInv'
  BY <1>2, TakeLock
<1>3. ASSUME NEW w \in Writer, LockTimeout(w) PROVE StoreIInv'
  BY <1>3, GiveUpWaiting
<1>4. ASSUME NEW w \in Writer, InsertSql(w) PROVE StoreIInv'
  BY <1>4, Inserting
<1>5. ASSUME NEW w \in Writer, InsertFails(w) PROVE StoreIInv'
  BY <1>5, InsertGivenUp
<1>6. ASSUME NEW w \in Writer, WriteLine(w) PROVE StoreIInv'
  BY <1>6, Writing
<1>7. ASSUME NEW w \in Writer, WriteLineFails(w) PROVE StoreIInv'
  BY <1>7, WriteFailing
<1>8. ASSUME NEW w \in Writer, Commit(w) PROVE StoreIInv'
  BY <1>8, Committing
<1>9. ASSUME NEW w \in Writer, CommitFails(w) PROVE StoreIInv'
  BY <1>9, CommitFailing
<1>10. ASSUME NEW w \in Writer, CommitUnacknowledged(w) PROVE StoreIInv'
  BY <1>10, CommitUnanswered
<1>11. ASSUME NEW w \in Writer, Undo(w) PROVE StoreIInv'
  BY <1>11, Undoing
<1>12. ASSUME NEW w \in Writer, UndoFails(w) PROVE StoreIInv'
  BY <1>12, UndoFailing
<1>13. ASSUME NEW w \in Writer, Crash(w) PROVE StoreIInv'
  BY <1>13, Dying
<1>14. CASE UNCHANGED storeVars
  BY <1>14 DEF storeVars, heldVars, StoreIInv, StoreTypeOK, StepsInv, HolderInv, SortedInv, TxInv,
     Inserted, WritesSql, SizesInv, ContentInv, Kept, Lines, Rows, Remembered, BeforeInv,
     Visible, ReadsSql
<1> QED
  BY <1>1, <1>2, <1>3, <1>4, <1>5, <1>6, <1>7, <1>8, <1>9, <1>10, <1>11, <1>12, <1>13, <1>14
  DEF StoreNext

\* It holds of an empty store.
LEMMA StoreStart ==
  ASSUME StoreInit
  PROVE  StoreIInv
<1>1. /\ \A s \in Stream : jsonl[s] = <<>> /\ before[s] = <<>> /\ shown[s] = <<>>
      /\ \A s \in SqlStream : sql[s] = <<>> /\ tx[s] = <<>>
      /\ lock = NoWriter /\ doubt = {} /\ \A w \in Writer : stage[w] = "idle"
      /\ sizes = <<>> /\ next = 1
  BY DEF StoreInit
<1>2. StoreTypeOK
  <2>1. <<>> \in Seq(Entry) /\ <<>> \in Seq([stream : Stream, size : Nat])
    OBVIOUS
  <2>2. \A j, k \in DOMAIN sizes : sizes[j].stream = sizes[k].stream => j = k
    BY <1>1
  <2> QED BY <2>1, <2>2 DEF StoreInit, StoreTypeOK, Stage
<1>3. \A w \in Writer : Lines(w) = {} /\ Rows(w) = {}
  BY <1>1, BatchStreams DEF Lines, Rows, Entries
<1>4. HolderInv
  BY <1>1, NoWriterAssumption DEF HolderInv, Holding
<1>5. SortedInv
  BY <1>1 DEF SortedInv, Sorted
<1>6. TxInv
  BY <1>1, NoWriterAssumption DEF TxInv, Sorted
<1>7. SizesInv
  BY <1>1 DEF SizesInv
<1>8. ContentInv
  BY <1>1, <1>3, NoWriterAssumption DEF ContentInv, Kept
<1>9. BeforeInv
  BY <1>1 DEF BeforeInv
<1> QED BY <1>2, <1>4, <1>5, <1>6, <1>7, <1>8, <1>9 DEF StoreIInv, StepsInv

\* The inductive invariant holds in every state of every behaviour.
THEOREM StoreInductive == StoreSpec => []StoreIInv
<1>1. StoreInit => StoreIInv
  BY StoreStart
<1>2. StoreIInv /\ [StoreNext]_storeVars => StoreIInv'
  BY StoreStep
<1> QED BY <1>1, <1>2, PTL DEF StoreSpec

\* Every variable of the repository keeps its type.
THEOREM StoreTypeCorrect == StoreSpec => []StoreTypeOK
<1>1. StoreIInv => StoreTypeOK
  BY DEF StoreIInv
<1> QED BY <1>1, StoreInductive, PTL

\* What readers are shown of a call, by where it is.
SeenBy(w) ==
  /\ Seen(w) \subseteq DOMAIN Batch[w]
  /\ stage[w] = "idle" => Seen(w) = {}
  /\ stage[w] = "returned" => Seen(w) = DOMAIN Batch[w]
  /\ (stage[w] = "raised" /\ w \notin doubt) => Seen(w) = {}
  /\ (stage[w] = "crashed" /\ w \notin doubt) =>
        \E k \in 0 .. Len(Batch[w]) : Seen(w) = 1 .. k

SeenInv == \A w \in Writer : SeenBy(w)

\* What the stage of a call says of what readers are shown of it.
LEMMA SeenByStage ==
  StoreIInv => SeenInv
<1> SUFFICES ASSUME StoreIInv, NEW w \in Writer PROVE SeenBy(w)
  BY DEF SeenInv
<1>1. Kept(w)
  BY DEF StoreIInv, StepsInv, ContentInv
<1>2. CASE ReadsSql(Batch[w][1])
  <2>1. \A i \in DOMAIN Batch[w] : Batch[w][i] \in SqlStream /\ ReadsSql(Batch[w][i])
    BY <1>2, BatchStreams DEF ReadsSql
  <2>2. Seen(w) = Rows(w)
    BY <2>1 DEF Seen, Rows, Visible
  <2>3. WritesSql(w)
    BY <1>2 DEF ReadsSql, WritesSql
  <2>4. 0 \in 0 .. Len(Batch[w]) /\ 1 .. 0 = {}
    BY BatchStreams
  <2> QED BY <2>2, <2>3, <2>4, <1>1 DEF Kept, Seen, SeenBy
<1>3. CASE ~ReadsSql(Batch[w][1])
  <2>1. \A i \in DOMAIN Batch[w] : ~ReadsSql(Batch[w][i])
    BY <1>3, BatchStreams DEF ReadsSql
  <2>2. Seen(w) = Lines(w)
    BY <2>1 DEF Seen, Lines, Visible
  <2> QED BY <2>2, <1>1 DEF Kept, Seen, SeenBy
<1> QED BY <1>2, <1>3

\* append_many_atomic is atomic to readers: all of a batch that returned and nothing
\* of one that raised, for any callers, batches, streams, modes and faults.
THEOREM BatchAllOrNothingHolds == StoreSpec => []BatchAllOrNothing
<1>1. StoreIInv => BatchAllOrNothing
  BY SeenByStage DEF BatchAllOrNothing, SeenInv, SeenBy, Seen
<1> QED BY <1>1, StoreInductive, PTL

\* The rows whose call knows what became of it, and the order they have in common
\* with their lines.
Certain(s) == {j \in DOMAIN sql[s] : sql[s][j][1] \notin doubt}

OrderInv ==
  \A s \in SqlStream : \A j, k \in Certain(s) : \A m, n \in DOMAIN jsonl[s] :
    (jsonl[s][m] = sql[s][j] /\ jsonl[s][n] = sql[s][k]) => (j < k <=> m < n)

\* A row of a call that knows what became of it has its line.
LEMMA RowHasLine ==
  ASSUME StoreIInv, NEW s \in SqlStream, NEW j \in Certain(s)
  PROVE  sql[s][j] \in Entry /\ sql[s][j] \in Entries(jsonl[s]) /\ stage[sql[s][j][1]] = "returned"
<1>1. sql[s][j] \in Entry /\ sql[s][j][2] \in Rows(sql[s][j][1]) /\ sql[s][j][1] \notin doubt
  BY RowsOf DEF Certain, StoreIInv, StepsInv
<1>2. PICK w \in Writer : \E i \in DOMAIN Batch[w] : sql[s][j] = <<w, i>>
  BY <1>1, EntryShape
<1>3. PICK i \in DOMAIN Batch[w] : sql[s][j] = <<w, i>>
  BY <1>2
<1>4. i \in Rows(w) /\ w \notin doubt /\ Kept(w)
  BY <1>1, <1>3 DEF StoreIInv, StepsInv, ContentInv
<1>5. stage[w] \in Stage
  BY DEF StoreIInv, StoreTypeOK
<1>6. stage[w] = "returned"
  BY <1>4, <1>5 DEF Kept, Stage
<1>7. i \in Lines(w)
  BY <1>3, <1>4, <1>6 DEF Kept
<1>8. Batch[w][i] = s
  BY <1>3 DEF Certain, StoreIInv, StepsInv, SortedInv, Sorted
<1>9. <<w, i>> \in Entries(jsonl[s])
  BY <1>7, <1>8 DEF Lines
<1> QED BY <1>1, <1>3, <1>6, <1>9

\* Steps that add no row of a certain call, and no line of a row that is there.
LEMMA OrderKept ==
  ASSUME StoreIInv, OrderInv, doubt \subseteq doubt',
         \A s \in SqlStream :
           /\ \A j \in Certain(s)' : j \in DOMAIN sql[s] /\ sql'[s][j] = sql[s][j]
           /\ \A m \in DOMAIN jsonl'[s] : \A j \in Certain(s) :
                jsonl'[s][m] = sql[s][j] => m \in DOMAIN jsonl[s] /\ jsonl'[s][m] = jsonl[s][m]
  PROVE  OrderInv'
<1>1. \A s \in SqlStream : Certain(s)' \subseteq Certain(s)
  BY DEF Certain
<1> QED BY <1>1 DEF OrderInv

\* Steps that write neither files nor tables.
LEMMA OrderSame ==
  ASSUME StoreIInv, OrderInv, doubt \subseteq doubt', UNCHANGED <<jsonl, sql>>
  PROVE  OrderInv'
  BY OrderKept DEF Certain

\* A call that writes its lines has no rows yet.
LEMMA OrderLined ==
  ASSUME StoreIInv, OrderInv, NEW w \in Writer, lock = w, stage[w] = "write", Lined(w),
         UNCHANGED <<sql, doubt>>
  PROVE  OrderInv'
<1>1. \A s \in SqlStream : \A j \in Certain(s)' : j \in DOMAIN sql[s] /\ sql'[s][j] = sql[s][j]
  BY DEF Certain
<1>2. ASSUME NEW s \in SqlStream, NEW m \in DOMAIN jsonl'[s], NEW j \in Certain(s),
             jsonl'[s][m] = sql[s][j]
      PROVE  m \in DOMAIN jsonl[s] /\ jsonl'[s][m] = jsonl[s][m]
  <2>1. s \in Stream
    BY StreamAssumption
  <2>2. sql[s][j][1] # w
    BY RowHasLine
  <2>3. /\ jsonl[s] \in Seq(Entry) /\ jsonl'[s] \in Seq(Entry)
        /\ \A i \in 1 .. Len(jsonl[s]) : jsonl'[s][i] = jsonl[s][i]
        /\ \A i \in DOMAIN jsonl'[s] : i > Len(jsonl[s]) => jsonl'[s][i] = <<w, next>>
    BY <2>1, LineShape
  <2>4. ~(m > Len(jsonl[s]))
    BY <1>2, <2>2, <2>3
  <2>5. m \in 1 .. Len(jsonl[s]) /\ DOMAIN jsonl[s] = 1 .. Len(jsonl[s])
    BY <2>3, <2>4
  <2> QED BY <2>3, <2>5
<1> QED BY <1>1, <1>2, OrderKept

\* A rollback takes lines away and moves none.
LEMMA OrderCut ==
  ASSUME StoreIInv, OrderInv, NEW w \in Writer, lock = w, stage[w] = "undo", CutBack,
         UNCHANGED <<mode, sql, doubt>>
  PROVE  OrderInv'
<1>1. \A s \in SqlStream : \A j \in Certain(s)' : j \in DOMAIN sql[s] /\ sql'[s][j] = sql[s][j]
  BY DEF Certain
<1>2. ASSUME NEW s \in SqlStream, NEW m \in DOMAIN jsonl'[s]
      PROVE  m \in DOMAIN jsonl[s] /\ jsonl'[s][m] = jsonl[s][m]
  <2>1. s \in Stream
    BY StreamAssumption
  <2>2. CASE s # sizes[1].stream
    BY <2>1, <2>2, CutEffect
  <2>3. CASE s = sizes[1].stream
    <3>1. PICK z \in Nat : z = sizes[1].size
      BY FirstSize
    <3>2. jsonl[s] \in Seq(Entry) /\ z <= Len(jsonl[s])
      BY <2>3, <3>1, FirstSize
    <3>3. /\ jsonl'[s] \in Seq(Entry) /\ Len(jsonl'[s]) = z
          /\ \A j \in 1 .. z : jsonl'[s][j] = jsonl[s][j]
      BY <2>1, <2>3, <3>1, CutEffect
    <3>4. m \in 1 .. z
      BY <3>3
    <3>5. m \in 1 .. Len(jsonl[s])
      BY <3>2, <3>4
    <3> QED BY <3>2, <3>3, <3>4, <3>5
  <2> QED BY <2>2, <2>3
<1> QED BY <1>1, <1>2, OrderKept

\* The rows of a commit come last, as its lines did.
LEMMA OrderCommitted ==
  ASSUME StoreIInv, OrderInv, NEW w \in Writer, lock = w, stage[w] = "commit", CommitRows,
         UNCHANGED <<mode, jsonl, doubt>>
  PROVE  OrderInv'
<1> SUFFICES ASSUME NEW s \in SqlStream, NEW j \in Certain(s)', NEW k \in Certain(s)',
                    NEW m \in DOMAIN jsonl[s], NEW n \in DOMAIN jsonl[s],
                    jsonl[s][m] = sql'[s][j], jsonl[s][n] = sql'[s][k]
             PROVE  j < k <=> m < n
  BY DEF OrderInv
<1>1. /\ sql' \in [SqlStream -> Seq(Entry)] /\ SortedInv'
      /\ Len(sql'[s]) >= Len(sql[s])
      /\ \A i \in 1 .. Len(sql[s]) : sql'[s][i] = sql[s][i] /\ sql[s][i][1] # w
      /\ \A i \in DOMAIN sql'[s] : i > Len(sql[s]) => sql'[s][i][1] = w
  BY RowsCommitted
<1>2. /\ sql[s] \in Seq(Entry) /\ sql'[s] \in Seq(Entry) /\ jsonl[s] \in Seq(Entry)
      /\ s \in Stream
  BY <1>1, StreamAssumption DEF StoreIInv, StoreTypeOK
<1>3. j \in DOMAIN sql'[s] /\ k \in DOMAIN sql'[s] /\ j \in Nat /\ k \in Nat /\ m \in Nat /\ n \in Nat
  BY <1>2 DEF Certain
<1>4. \A i \in Certain(s)' : i <= Len(sql[s]) => i \in Certain(s) /\ sql'[s][i] = sql[s][i]
  <2> SUFFICES ASSUME NEW i \in Certain(s)', i <= Len(sql[s])
               PROVE  i \in Certain(s) /\ sql'[s][i] = sql[s][i]
    OBVIOUS
  <2>1. i \in DOMAIN sql'[s] /\ sql'[s][i][1] \notin doubt
    BY DEF Certain
  <2>2. i \in 1 .. Len(sql[s]) /\ DOMAIN sql[s] = 1 .. Len(sql[s])
    BY <2>1, <1>2
  <2> QED BY <2>1, <2>2, <1>1 DEF Certain
<1>5. CASE j <= Len(sql[s]) /\ k <= Len(sql[s])
  BY <1>4, <1>5 DEF OrderInv
<1>6. \A a, b \in DOMAIN sql'[s] :
        (a <= Len(sql[s]) /\ ~(b <= Len(sql[s]))) => sql'[s][a][1] # w /\ sql'[s][b][1] = w /\ a < b
  <2> SUFFICES ASSUME NEW a \in DOMAIN sql'[s], NEW b \in DOMAIN sql'[s],
                      a <= Len(sql[s]), ~(b <= Len(sql[s]))
               PROVE  sql'[s][a][1] # w /\ sql'[s][b][1] = w /\ a < b
    OBVIOUS
  <2>1. a \in 1 .. Len(sql[s]) /\ b > Len(sql[s]) /\ a < b
    BY <1>2
  <2> QED BY <2>1, <1>1
<1>7. \A x, y \in DOMAIN jsonl[s] : (jsonl[s][x][1] # w /\ jsonl[s][y][1] = w) => x < y
  <2> SUFFICES ASSUME NEW x \in DOMAIN jsonl[s], NEW y \in DOMAIN jsonl[s],
                      jsonl[s][x][1] # w, jsonl[s][y][1] = w
               PROVE  x < y
    OBVIOUS
  <2>1. w \notin doubt
    BY DEF StoreIInv, StepsInv, ContentInv
  <2>2. jsonl[s][y][2] \in Lines(w) /\ Batch[w][jsonl[s][y][2]] = s
    BY <1>2, LinesOf DEF StoreIInv, StepsInv, SortedInv, Sorted
  <2>3. PICK c \in DOMAIN sizes : sizes[c].stream = s
    BY <2>1, <2>2 DEF StoreIInv, StepsInv, ContentInv, Remembered
  <2>4. \A i \in DOMAIN jsonl[s] : jsonl[s][i][1] = w <=> i > sizes[c].size
    BY <2>3 DEF StoreIInv, StepsInv, SizesInv
  <2>5. sizes[c].size \in Nat
    BY SizeShape DEF StoreIInv, StoreTypeOK
  <2>6. y > sizes[c].size /\ ~(x > sizes[c].size)
    BY <2>4
  <2> QED BY <2>5, <2>6, <1>2
<1>8. CASE j <= Len(sql[s]) /\ ~(k <= Len(sql[s]))
  BY <1>3, <1>6, <1>7, <1>8
<1>9. CASE ~(j <= Len(sql[s])) /\ k <= Len(sql[s])
  BY <1>3, <1>6, <1>7, <1>9
<1>10. CASE ~(j <= Len(sql[s])) /\ ~(k <= Len(sql[s]))
  <2>1. sql'[s][j][1] = w /\ sql'[s][k][1] = w
    BY <1>1, <1>2, <1>3, <1>10
  <2>2. \A a, b \in DOMAIN sql'[s] :
          (a < b /\ sql'[s][a][1] = sql'[s][b][1]) => sql'[s][a][2] < sql'[s][b][2]
    BY <1>1 DEF SortedInv, Sorted
  <2>3. \A a, b \in DOMAIN jsonl[s] :
          (a < b /\ jsonl[s][a][1] = jsonl[s][b][1]) => jsonl[s][a][2] < jsonl[s][b][2]
    BY <1>2 DEF StoreIInv, StepsInv, SortedInv, Sorted
  <2>4. sql'[s][j][2] \in Nat /\ sql'[s][k][2] \in Nat
    BY <1>2, <1>3, EntryShape
  <2>5. /\ j < k => sql'[s][j][2] < sql'[s][k][2]
        /\ k < j => sql'[s][k][2] < sql'[s][j][2]
    BY <2>1, <2>2, <1>3
  <2>6. /\ m < n => sql'[s][j][2] < sql'[s][k][2]
        /\ n < m => sql'[s][k][2] < sql'[s][j][2]
    BY <2>1, <2>3
  <2>7. m = n => sql'[s][j][2] = sql'[s][k][2]
    OBVIOUS
  <2>8. j = k => sql'[s][j][2] = sql'[s][k][2]
    OBVIOUS
  <2> QED BY <2>4, <2>5, <2>6, <2>7, <2>8, <1>3
<1> QED BY <1>5, <1>8, <1>9, <1>10

\* The rows of a commit whose answer is lost are nobody's certain rows.
LEMMA OrderUnanswered ==
  ASSUME StoreIInv, OrderInv, NEW w \in Writer, lock = w, stage[w] = "commit", CommitRows,
         UNCHANGED <<mode, jsonl>>, doubt' = doubt \cup {w}
  PROVE  OrderInv'
<1>1. ASSUME NEW s \in SqlStream, NEW j \in Certain(s)'
      PROVE  j \in DOMAIN sql[s] /\ sql'[s][j] = sql[s][j]
  <2>1. /\ sql' \in [SqlStream -> Seq(Entry)]
        /\ \A i \in 1 .. Len(sql[s]) : sql'[s][i] = sql[s][i]
        /\ \A i \in DOMAIN sql'[s] : i > Len(sql[s]) => sql'[s][i][1] = w
    BY RowsCommitted
  <2>2. j \in DOMAIN sql'[s] /\ sql'[s][j][1] # w
    BY DEF Certain
  <2>3. sql[s] \in Seq(Entry) /\ sql'[s] \in Seq(Entry)
    BY <2>1 DEF StoreIInv, StoreTypeOK
  <2>4. ~(j > Len(sql[s]))
    BY <2>1, <2>2
  <2>5. j \in 1 .. Len(sql[s]) /\ DOMAIN sql[s] = 1 .. Len(sql[s])
    BY <2>2, <2>3, <2>4
  <2> QED BY <2>1, <2>5
<1> QED BY <1>1, OrderKept

\* Every step keeps rows and lines in one order.
LEMMA OrderStep ==
  ASSUME StoreIInv, OrderInv, [StoreNext]_storeVars
  PROVE  OrderInv'
<1>1. ASSUME NEW s \in Stream, ReadAll(s) PROVE OrderInv'
  BY <1>1, OrderSame DEF ReadAll
<1>2. ASSUME NEW w \in Writer,
             \/ Acquire(w) \/ LockTimeout(w) \/ InsertSql(w) \/ InsertFails(w)
             \/ CommitFails(w) \/ UndoFails(w) \/ Crash(w)
      PROVE  OrderInv'
  <2>1. UNCHANGED <<jsonl, sql>> /\ doubt \subseteq doubt'
    BY <1>2 DEF Acquire, LockTimeout, InsertSql, InsertFails, CommitFails, UndoFails, Crash
  <2> QED BY <2>1, OrderSame
<1>3. ASSUME NEW w \in Writer, WriteLine(w) \/ WriteLineFails(w) PROVE OrderInv'
  <2>1. stage[w] = "write" /\ Lined(w) /\ UNCHANGED <<sql, doubt>>
    BY <1>3 DEF WriteLine, WriteLineFails, NextEntry, Move, Lined
  <2>2. lock = w
    BY <2>1 DEF StoreIInv, StepsInv, HolderInv, Holding
  <2> QED BY <2>1, <2>2, OrderLined
<1>4. ASSUME NEW w \in Writer, Commit(w) PROVE OrderInv'
  <2>1. stage[w] = "commit" /\ CommitRows /\ UNCHANGED <<mode, jsonl, doubt>>
    BY <1>4 DEF Commit, Move
  <2>2. lock = w
    BY <2>1 DEF StoreIInv, StepsInv, HolderInv, Holding
  <2> QED BY <2>1, <2>2, OrderCommitted
<1>5. ASSUME NEW w \in Writer, CommitUnacknowledged(w) PROVE OrderInv'
  <2>1. /\ stage[w] = "commit" /\ CommitRows /\ UNCHANGED <<mode, jsonl>>
        /\ doubt' = doubt \cup {w}
    BY <1>5 DEF CommitUnacknowledged, AfterFailedCommit, Move
  <2>2. lock = w
    BY <2>1 DEF StoreIInv, StepsInv, HolderInv, Holding
  <2> QED BY <2>1, <2>2, OrderUnanswered
<1>6. ASSUME NEW w \in Writer, Undo(w) PROVE OrderInv'
  <2>1. stage[w] = "undo" /\ CutBack /\ UNCHANGED <<mode, sql, doubt>>
    BY <1>6 DEF Undo, NextUndo, Move, CutBack
  <2>2. lock = w
    BY <2>1 DEF StoreIInv, StepsInv, HolderInv, Holding
  <2> QED BY <2>1, <2>2, OrderCut
<1>7. CASE UNCHANGED storeVars
  BY <1>7, OrderSame DEF storeVars
<1> QED BY <1>1, <1>2, <1>3, <1>4, <1>5, <1>6, <1>7 DEF StoreNext

\* A table never runs ahead of its file and keeps its order, so that either can be
\* the authority.
THEOREM TablesWithinFilesHolds == StoreSpec => []TablesWithinFiles
<1>1. StoreInit => OrderInv
  BY DEF StoreInit, OrderInv, Certain
<1>2. StoreIInv /\ OrderInv /\ [StoreNext]_storeVars => OrderInv'
  BY OrderStep
<1>3. StoreIInv /\ OrderInv => TablesWithinFiles
  <2> SUFFICES ASSUME StoreIInv, OrderInv PROVE TablesWithinFiles
    OBVIOUS
  <2>1. \A s \in SqlStream : {j \in DOMAIN sql[s] : sql[s][j][1] \notin doubt} = Certain(s)
    BY DEF Certain
  <2>2. \A s \in SqlStream : \A j \in Certain(s) : sql[s][j] \in Entries(jsonl[s])
    BY RowHasLine
  <2> QED BY <2>1, <2>2 DEF TablesWithinFiles, OrderInv
<1> QED BY <1>1, <1>2, <1>3, StoreInductive, PTL DEF StoreSpec

-----------------------------------------------------------------------------
\* What readers are shown when a call ends is what they could see before and its
\* entries that are there.
LEMMA GrowsByOwn ==
  ASSUME NEW w \in Writer, NEW s \in Stream, NEW old \in Seq(Entry), NEW new \in Seq(Entry),
         NEW P, Adds(w, old, new), Sorted(new, s), P \subseteq DOMAIN Batch[w],
         \A i \in DOMAIN Batch[w] : Batch[w][i] = s => (i \in P <=> <<w, i>> \in Entries(new))
  PROVE  Log!Grows(old, new, Log!Own(w, P, s))
<1> DEFINE added == Len(old) + 1 .. Len(new)
<1>1. IsPrefix(old, new) /\ Len(old) \in Nat /\ Len(new) \in Nat /\ DOMAIN new = 1 .. Len(new)
  BY DEF Adds
<1>2. \A j \in added : j \in DOMAIN new /\ new[j][1] = w
  <2> SUFFICES ASSUME NEW j \in added PROVE j \in DOMAIN new /\ new[j][1] = w
    OBVIOUS
  <2>1. j \in DOMAIN new /\ j > Len(old)
    BY <1>1
  <2> QED BY <2>1 DEF Adds
<1>3. \A j, k \in added : j < k => new[j][2] < new[k][2]
  BY <1>2 DEF Sorted
<1>4. ASSUME NEW j \in added PROVE new[j] \in Log!Own(w, P, s)
  <2>1. new[j] \in Entry /\ new[j] \in Entries(new)
    BY <1>2 DEF Entries
  <2>2. new[j] = <<w, new[j][2]>> /\ new[j][2] \in DOMAIN Batch[w]
    BY <1>2, <2>1, EntryShape
  <2>3. Batch[w][new[j][2]] = s
    BY <1>2, <2>2 DEF Sorted
  <2>4. new[j][2] \in P
    BY <2>1, <2>2, <2>3
  <2> QED BY <2>2, <2>3, <2>4 DEF Log!Own
<1>5. ASSUME NEW i \in P, Batch[w][i] = s PROVE \E j \in added : new[j] = <<w, i>>
  <2>1. PICK j \in DOMAIN new : new[j] = <<w, i>>
    BY <1>5 DEF Entries
  <2>2. j > Len(old)
    BY <2>1 DEF Adds
  <2>3. j \in added
    BY <2>2, <1>1
  <2> QED BY <2>1, <2>3
<1>6. {new[j] : j \in added} = Log!Own(w, P, s)
  <2>1. \A e \in {new[j] : j \in added} : e \in Log!Own(w, P, s)
    BY <1>4
  <2>2. \A e \in Log!Own(w, P, s) : e \in {new[j] : j \in added}
    BY <1>5 DEF Log!Own
  <2> QED BY <2>1, <2>2
<1> HIDE DEF added
<1>7. added = Len(old) + 1 .. Len(new)
  BY DEF added
<1>8. Log!IsPrefix(old, new)
  BY <1>1 DEF IsPrefix, Log!IsPrefix
<1> QED BY ONLY <1>3, <1>6, <1>7, <1>8 DEF Log!Grows

\* Without entries of the holder readers are shown what they could see before.
LEMMA GrowsNothing ==
  ASSUME NEW w \in Writer, NEW old \in Seq(Entry), NEW new \in Seq(Entry),
         Adds(w, old, new), \A j \in DOMAIN new : new[j][1] # w
  PROVE  new = old
<1>1. Len(old) <= Len(new) /\ \A j \in DOMAIN old : old[j] = new[j]
  BY PrefixPointwise DEF Adds
<1>2. Len(old) = Len(new)
  <2>1. CASE Len(old) < Len(new)
    <3>1. Len(old) + 1 \in DOMAIN new /\ Len(old) + 1 > Len(old)
      BY <2>1
    <3> QED BY <3>1 DEF Adds
  <2> QED BY <1>1, <2>1
<1> QED BY <1>1, <1>2

\* Every step of a call that is not its last, and every read, changes nothing
\* of the abstract log.
LEMMA NothingLogged ==
  ASSUME StoreIInv, mode' = mode,
         \/ UNCHANGED <<lock, sql, jsonl, before>>
         \/ lock = NoWriter /\ lock' \in Writer /\ before' = [s \in Stream |-> Visible(s)]
         \/ lock # NoWriter /\ UNCHANGED <<lock, before>>,
         \A v \in Writer : ResultOf(v)' = ResultOf(v)
  PROVE  UNCHANGED Log!vars
<1>1. \A s \in Stream : Logged(s)' = Logged(s)
  BY NoWriterAssumption DEF Logged, Visible, ReadsSql
<1> QED BY <1>1 DEF Log!vars

\* A call that goes on is pending.
LEMMA StillPending ==
  ASSUME StoreIInv, NEW w \in Writer, stage[w] \in Holding \cup {"idle"}, NEW r \in Holding,
         stage' \in {stage, [stage EXCEPT ![w] = r]}, doubt' \in {doubt, doubt \cup {w}}
  PROVE  \A v \in Writer : ResultOf(v)' = ResultOf(v)
<1>1. stage \in [Writer -> Stage]
  BY DEF StoreIInv, StoreTypeOK
<1>2. \A v \in Writer \ {w} : stage'[v] = stage[v] /\ (v \in doubt' <=> v \in doubt)
  BY <1>1
<1>3. stage'[w] \in Holding \cup {"idle"}
  BY <1>1
<1>4. ResultOf(w) = "pending" /\ ResultOf(w)' = "pending"
  BY <1>3 DEF ResultOf, Holding
<1> QED BY <1>2, <1>4 DEF ResultOf

\* The last step of the holder is a step of the abstract log.
LEMMA Ending ==
  ASSUME StoreIInv, StoreIInv', NEW w \in Writer, lock = w, Release, mode' = mode,
         NEW r \in {"returned", "raised", "crashed"}, stage' = [stage EXCEPT ![w] = r],
         doubt' \in {doubt, doubt \cup {w}}, r = "returned" => w \notin doubt',
         \A s \in Stream : Adds(w, before[s], Visible(s)')
  PROVE  Log!Next
<1>1. /\ lock' = NoWriter /\ w # NoWriter /\ stage[w] \in Holding
      /\ stage \in [Writer -> Stage] /\ before \in [Stream -> Seq(Entry)]
      /\ stage'[w] = r
  BY NoWriterAssumption DEF Release, StoreIInv, StoreTypeOK, StepsInv, HolderInv
<1>2. \A s \in Stream : Logged(s) = before[s] /\ Logged(s)' = Visible(s)'
  BY <1>1 DEF Logged
<1>3. \A s \in Stream : Visible(s)' \in Seq(Entry)
  BY DEF Visible, ReadsSql, StoreIInv, StoreTypeOK
<1>4. \A s \in Stream : Sorted(Visible(s)', s)
  BY DEF Visible, ReadsSql, StoreIInv, StepsInv, SortedInv
<1>5. /\ Seen(w)' \subseteq DOMAIN Batch[w]
      /\ r = "returned" => Seen(w)' = DOMAIN Batch[w]
      /\ (r = "raised" /\ w \notin doubt') => Seen(w)' = {}
      /\ (r = "crashed" /\ w \notin doubt') => \E k \in 0 .. Len(Batch[w]) : Seen(w)' = 1 .. k
  <2>1. SeenInv'
    BY SeenByStage, PTL
  <2> QED BY <2>1, <1>1 DEF SeenInv, SeenBy
<1> DEFINE old == [s \in Stream |-> Logged(s)]
           new == [s \in Stream |-> Logged(s)']
           P == Seen(w)'
           res == IF w \in doubt' THEN "doubtful" ELSE r
<1>6. ASSUME NEW s \in Stream
      PROVE  Log!Grows(old[s], new[s], Log!Own(w, P, s))
  <2>1. \A i \in DOMAIN Batch[w] :
          Batch[w][i] = s => (i \in P <=> <<w, i>> \in Entries(Visible(s)'))
    BY DEF Seen
  <2>2. Adds(w, before[s], Visible(s)') /\ before[s] \in Seq(Entry)
    BY <1>1
  <2> HIDE DEF P
  <2>3. Log!Grows(before[s], Visible(s)', Log!Own(w, P, s))
    BY <2>1, <2>2, <1>3, <1>4, <1>5, GrowsByOwn DEF P
  <2> QED BY <2>3, <1>2
<1>7. new \in [Stream -> Seq(Log!Entry)]
  BY <1>2, <1>3 DEF Entry, Log!Entry
<1>8. Log!Show(w, P)
  BY <1>6, <1>7 DEF Log!Show
<1>9. Log!End(w, res)
  <2>1. ResultOf(w) = "pending" /\ ResultOf(w)' = res
    BY <1>1 DEF ResultOf, Holding
  <2>2. \A v \in Writer \ {w} : ResultOf(v)' = ResultOf(v)
    BY <1>1 DEF ResultOf
  <2> QED BY <2>1, <2>2 DEF Log!End
<1>10. CASE w \in doubt'
  BY <1>5, <1>8, <1>9, <1>10 DEF Log!Next, Log!Doubt
<1>11. CASE w \notin doubt' /\ r = "returned"
  BY <1>5, <1>8, <1>9, <1>11 DEF Log!Next, Log!Return
<1>12. CASE w \notin doubt' /\ r = "crashed"
  BY <1>5, <1>8, <1>9, <1>12 DEF Log!Next, Log!Crash
<1>13. CASE w \notin doubt' /\ r = "raised"
  <2>1. ASSUME NEW s \in Stream PROVE Visible(s)' = before[s]
    <3>1. \A j \in DOMAIN Visible(s)' : Visible(s)'[j][1] # w
      <4> SUFFICES ASSUME NEW j \in DOMAIN Visible(s)', Visible(s)'[j][1] = w PROVE FALSE
        OBVIOUS
      <4>1. Visible(s)'[j] \in Entry /\ Visible(s)'[j] \in Entries(Visible(s)')
        BY <1>3 DEF Entries
      <4>2. PICK i \in DOMAIN Batch[w] : Visible(s)'[j] = <<w, i>>
        BY <4>1, EntryShape
      <4>3. Batch[w][i] = s
        BY <4>2, <1>4 DEF Sorted
      <4> QED BY <4>1, <4>2, <4>3, <1>5, <1>13 DEF Seen
    <3> QED BY <3>1, <1>1, <1>3, GrowsNothing
  <2>2. new = old
    BY <2>1, <1>2
  <2> QED BY <2>2, <1>9, <1>13 DEF Log!Next, Log!Raise
<1> QED BY <1>10, <1>11, <1>12, <1>13

\* Nobody's rows or lines move when a step leaves the files and tables alone.
LEMMA SameShown ==
  ASSUME StoreIInv, NEW w \in Writer, lock = w, UNCHANGED <<mode, jsonl, sql>>, NEW s \in Stream
  PROVE  Adds(w, before[s], Visible(s)')
<1>1. Adds(w, before[s], Visible(s))
  BY NoWriterAssumption DEF StoreIInv, StepsInv, BeforeInv
<1>2. Visible(s)' = Visible(s)
  BY DEF Visible, ReadsSql
<1> QED BY <1>1, <1>2

\* Who is inside the batch lock holds it.
LEMMA HolderOf ==
  ASSUME StoreIInv, NEW w \in Writer, stage[w] \in Holding
  PROVE  lock = w
  BY DEF StoreIInv, StepsInv, HolderInv

\* Every step of the repository is a step of the abstract log or none.
LEMMA LogStep ==
  ASSUME StoreIInv, StoreIInv', [StoreNext]_storeVars
  PROVE  [Log!Next]_(Log!vars)
<1>1. ASSUME NEW s \in Stream, ReadAll(s) PROVE UNCHANGED Log!vars
  <2>1. UNCHANGED <<mode, lock, sql, jsonl, before, stage, doubt>>
    BY <1>1 DEF ReadAll, heldVars
  <2>2. \A v \in Writer : ResultOf(v)' = ResultOf(v)
    BY <2>1 DEF ResultOf
  <2> QED BY <2>1, <2>2, NothingLogged
<1>2. ASSUME NEW w \in Writer, Acquire(w) PROVE UNCHANGED Log!vars
  <2>1. /\ lock = NoWriter /\ lock' = w /\ mode' = mode /\ doubt' = doubt
        /\ before' = [s \in Stream |-> Visible(s)] /\ stage[w] = "idle"
    BY <1>2 DEF Acquire, Move
  <2>2. PICK r \in Holding : stage' = [stage EXCEPT ![w] = r]
    BY <1>2 DEF Acquire, Move, Holding
  <2>3. \A v \in Writer : ResultOf(v)' = ResultOf(v)
    BY <2>1, <2>2, StillPending
  <2> QED BY <2>1, <2>3, NothingLogged
<1>3. ASSUME NEW w \in Writer, LockTimeout(w) PROVE Log!Next
  <2>1. /\ stage[w] = "idle" /\ stage' = [stage EXCEPT ![w] = "raised"]
        /\ UNCHANGED <<mode, lock, before, jsonl, sql, doubt>>
        /\ stage \in [Writer -> Stage]
    BY <1>3 DEF LockTimeout, Move, heldVars, StoreIInv, StoreTypeOK
  <2>2. w \notin doubt
    BY <2>1 DEF StoreIInv, StepsInv, ContentInv
  <2>3. \A s \in Stream : Logged(s)' = Logged(s)
    BY <2>1 DEF Logged, Visible, ReadsSql
  <2>4. ResultOf(w) = "pending" /\ ResultOf(w)' = "raised"
    BY <2>1, <2>2 DEF ResultOf
  <2>5. \A v \in Writer \ {w} : ResultOf(v)' = ResultOf(v)
    BY <2>1 DEF ResultOf
  <2>6. Log!End(w, "raised")
    BY <2>4, <2>5 DEF Log!End
  <2> QED BY <2>3, <2>6 DEF Log!Next, Log!Raise
<1>4. ASSUME NEW w \in Writer, InsertSql(w) \/ WriteLine(w) \/ WriteLineFails(w)
      PROVE  UNCHANGED Log!vars
  <2>1. UNCHANGED <<mode, lock, before, doubt>> /\ stage[w] \in Holding
    BY <1>4 DEF InsertSql, WriteLine, WriteLineFails, NextEntry, Move, Holding
  <2>2. \E r \in Holding : stage' \in {stage, [stage EXCEPT ![w] = r]}
    BY <1>4 DEF InsertSql, WriteLine, WriteLineFails, NextEntry, Move, Holding
  <2>3. \A v \in Writer : ResultOf(v)' = ResultOf(v)
    BY <2>1, <2>2, StillPending
  <2> QED BY <2>1, <2>3, HolderOf, NoWriterAssumption, NothingLogged
<1>5. ASSUME NEW w \in Writer, InsertFails(w) PROVE Log!Next
  <2>1. /\ stage[w] \in Holding /\ Release /\ UNCHANGED <<mode, jsonl, sql, doubt>>
        /\ stage' = [stage EXCEPT ![w] = "raised"]
    BY <1>5 DEF InsertFails, Move, Holding
  <2>2. lock = w
    BY <2>1, HolderOf
  <2> QED BY <2>1, <2>2, SameShown, Ending
<1>6. ASSUME NEW w \in Writer, Crash(w) PROVE Log!Next
  <2>1. /\ lock = w /\ Release /\ UNCHANGED <<mode, jsonl, sql>>
        /\ doubt' \in {doubt, doubt \cup {w}}
        /\ stage' = [stage EXCEPT ![w] = "crashed"]
    BY <1>6 DEF Crash
  <2> QED BY <2>1, SameShown, Ending
<1>7. ASSUME NEW w \in Writer, Commit(w) PROVE Log!Next
  <2>1. /\ stage[w] = "commit" /\ Release /\ CommitRows /\ UNCHANGED <<mode, jsonl, doubt>>
        /\ stage' = [stage EXCEPT ![w] = "returned"]
    BY <1>7 DEF Commit, Move
  <2>2. lock = w /\ w \notin doubt
    BY <2>1, HolderOf DEF Holding, StoreIInv, StepsInv, ContentInv
  <2> QED BY <2>1, <2>2, RowsShown, Ending
<1>8. ASSUME NEW w \in Writer, CommitFails(w) \/ CommitUnacknowledged(w)
      PROVE  Log!Next \/ UNCHANGED Log!vars
  <2>1. /\ stage[w] = "commit" /\ AfterFailedCommit(w) /\ UNCHANGED <<mode, jsonl>>
        /\ doubt' \in {doubt, doubt \cup {w}}
        /\ sql' = sql \/ CommitRows
    BY <1>8 DEF CommitFails, CommitUnacknowledged, AfterFailedCommit, Move
  <2>2. lock = w
    BY <2>1, HolderOf DEF Holding
  <2>3. \A s \in Stream : Adds(w, before[s], Visible(s)')
    BY <2>1, <2>2, SameShown, RowsShown
  <2>4. CASE w \in Single
    <3>1. Release /\ stage' = [stage EXCEPT ![w] = "raised"]
      BY <2>1, <2>4 DEF AfterFailedCommit, Move
    <3> QED BY <3>1, <2>1, <2>2, <2>3, Ending
  <2>5. CASE w \notin Single
    <3>1. UNCHANGED <<lock, before>> /\ stage' = [stage EXCEPT ![w] = "undo"]
      BY <2>1, <2>5 DEF AfterFailedCommit, Move, heldVars
    <3>2. \A v \in Writer : ResultOf(v)' = ResultOf(v)
      BY <3>1, <2>1, StillPending DEF Holding
    <3> QED BY <3>1, <3>2, <2>1, <2>2, NoWriterAssumption, NothingLogged
  <2> QED BY <2>4, <2>5
<1>9. ASSUME NEW w \in Writer, Undo(w) \/ UndoFails(w)
      PROVE  Log!Next \/ UNCHANGED Log!vars
  <2>1. /\ stage[w] = "undo" /\ NextUndo(w) /\ UNCHANGED <<mode, sql>>
        /\ doubt' \in {doubt, doubt \cup {w}}
        /\ jsonl' = jsonl \/ CutBack
    BY <1>9 DEF Undo, UndoFails, NextUndo, Move, CutBack
  <2>2. lock = w
    BY <2>1, HolderOf DEF Holding
  <2>3. \A s \in Stream : Adds(w, before[s], Visible(s)')
    BY <2>1, <2>2, SameShown, CutShown
  <2>4. CASE Len(sizes) = 1
    <3>1. Release /\ stage' = [stage EXCEPT ![w] = "raised"]
      BY <2>1, <2>4 DEF NextUndo, Move
    <3> QED BY <3>1, <2>1, <2>2, <2>3, Ending
  <2>5. CASE Len(sizes) # 1
    <3>1. UNCHANGED <<stage, lock, before>>
      BY <2>1, <2>5 DEF NextUndo
    <3>2. \A v \in Writer : ResultOf(v)' = ResultOf(v)
      BY <3>1, <2>1, StillPending DEF Holding
    <3> QED BY <3>1, <3>2, <2>1, <2>2, NoWriterAssumption, NothingLogged
  <2> QED BY <2>4, <2>5
<1>10. CASE UNCHANGED storeVars
  <2>1. UNCHANGED <<mode, lock, sql, jsonl, before, stage, doubt>>
    BY <1>10 DEF storeVars, heldVars
  <2>2. \A v \in Writer : ResultOf(v)' = ResultOf(v)
    BY <2>1 DEF ResultOf
  <2> QED BY <2>1, <2>2, NothingLogged
<1> QED BY <1>1, <1>2, <1>3, <1>4, <1>5, <1>6, <1>7, <1>8, <1>9, <1>10 DEF StoreNext

\* The repository starts as the empty log.
LEMMA LogStart ==
  ASSUME StoreInit
  PROVE  Log!Init
<1>1. \A s \in Stream : Logged(s) = <<>>
  BY DEF StoreInit, Logged, Visible, ReadsSql
<1>2. \A w \in Writer : ResultOf(w) = "pending"
  BY DEF StoreInit, ResultOf
<1> QED BY <1>1, <1>2 DEF Log!Init

\* The repository implements the abstract append-only log: lock, transaction, lines,
\* rollback and the death of a caller look to readers like one step of a call.
THEOREM StoreImplementsLog == StoreSpec => LogSpec
<1>1. StoreInit => Log!Init
  BY LogStart
<1>2. StoreIInv /\ StoreIInv' /\ [StoreNext]_storeVars => [Log!Next]_(Log!vars)
  BY LogStep
<1> QED BY <1>1, <1>2, StoreInductive, PTL DEF StoreSpec, LogSpec, Log!Spec

-----------------------------------------------------------------------------
\* IsPrefix is transitive.
LEMMA PrefixChain ==
  ASSUME NEW f \in Seq(Entry), NEW g \in Seq(Entry), NEW h \in Seq(Entry),
         IsPrefix(f, g), IsPrefix(g, h)
  PROVE  IsPrefix(f, h)
<1>1. /\ Len(f) <= Len(g) /\ \A j \in DOMAIN f : f[j] = g[j]
      /\ Len(g) <= Len(h) /\ \A j \in DOMAIN g : g[j] = h[j]
  BY PrefixPointwise
<1>2. \A j \in DOMAIN f : f[j] = h[j]
  BY <1>1
<1>3. Len(f) <= Len(h)
  BY <1>1
<1> QED BY <1>2, <1>3, PrefixPointwise

\* The log only grows, whatever the step.
LEMMA LogGrows ==
  ASSUME StoreIInv, StoreIInv', [Log!Next]_(Log!vars), NEW s \in Stream
  PROVE  IsPrefix(Logged(s), Logged(s)')
<1> DEFINE old == [t \in Stream |-> Logged(t)]
           new == [t \in Stream |-> Logged(t)']
<1>1. new = old \/ \E w \in Writer : \E P : Log!Show(w, P)
  BY DEF Log!Next, Log!vars, Log!Return, Log!Raise, Log!Crash, Log!Doubt
<1>2. ASSUME new = old PROVE IsPrefix(Logged(s), Logged(s)')
  <2>1. Logged(s)' = Logged(s) /\ Logged(s) \in Seq(Entry)
    <3>1. new[s] = old[s]
      BY <1>2
    <3> QED BY <3>1 DEF Logged, Visible, ReadsSql, StoreIInv, StoreTypeOK
  <2> QED BY <2>1, PrefixPointwise
<1>3. ASSUME NEW w \in Writer, NEW P, Log!Show(w, P) PROVE IsPrefix(Logged(s), Logged(s)')
  <2>1. Log!Grows(old[s], new[s], Log!Own(w, P, s))
    BY <1>3 DEF Log!Show
  <2>2. Log!IsPrefix(Logged(s), Logged(s)')
    BY <2>1 DEF Log!Grows
  <2> QED BY <2>2 DEF IsPrefix, Log!IsPrefix
<1> QED BY <1>1, <1>2, <1>3

\* A reader is shown the log, and the log only grows.
LEMMA ShownStep ==
  ASSUME StoreIInv, StoreIInv', ShownInv, [StoreNext]_storeVars
  PROVE  ShownInv'
<1>1. \A s \in Stream : /\ shown[s] \in Seq(Entry) /\ Logged(s) \in Seq(Entry)
                        /\ Logged(s)' \in Seq(Entry)
  BY DEF Logged, Visible, ReadsSql, StoreIInv, StoreTypeOK
<1>2. \A s \in Stream : IsPrefix(Logged(s), Logged(s)')
  BY LogStep, LogGrows
<1>3. \A s \in Stream : shown'[s] = shown[s] \/ shown'[s] = Logged(s)
  <2>1. ASSUME NEW s \in Stream, ReadAll(s)
        PROVE  \A t \in Stream : shown'[t] = shown[t] \/ shown'[t] = Logged(t)
    BY <2>1 DEF ReadAll, Logged, StoreIInv, StoreTypeOK
  <2>2. (\E s \in Stream : ReadAll(s)) \/ UNCHANGED shown
    BY DEF StoreNext, storeVars, Acquire, LockTimeout, InsertSql, InsertFails, WriteLine,
       WriteLineFails, Commit, CommitFails, CommitUnacknowledged, Undo, UndoFails, Crash
  <2> QED BY <2>1, <2>2
<1>4. ASSUME NEW s \in Stream PROVE IsPrefix(shown'[s], Logged(s)')
  BY <1>1, <1>2, <1>3, PrefixChain DEF ShownInv
<1> QED BY <1>4 DEF ShownInv

\* Nothing was shown of an empty store.
LEMMA ShownStart ==
  ASSUME StoreInit
  PROVE  ShownInv
<1>1. \A s \in Stream : shown[s] = <<>> /\ Logged(s) = <<>>
  BY DEF StoreInit, Logged, Visible, ReadsSql
<1>2. IsPrefix(<<>>, <<>>)
  BY DEF IsPrefix
<1> QED BY <1>1, <1>2 DEF ShownInv

\* What a reader was last shown is a prefix of the log.
THEOREM ShownInductive == StoreSpec => []ShownInv
<1>1. StoreInit => ShownInv
  BY ShownStart
<1>2. StoreIInv /\ StoreIInv' /\ ShownInv /\ [StoreNext]_storeVars => ShownInv'
  BY ShownStep
<1> QED BY <1>1, <1>2, StoreInductive, PTL DEF StoreSpec

\* No rollback, crash or commit takes back or reorders a record somebody was shown.
THEOREM ShownStaysHolds == StoreSpec => []ShownStays
<1>1. ShownInv => ShownStays
  BY DEF ShownInv, ShownStays, Logged
<1> QED BY <1>1, ShownInductive, PTL

\* The entries a batch lists before one that was shown.
LEMMA PredecessorsThere ==
  ASSUME StoreIInv, ShownInv
  PROVE  PredecessorsShown
<1> SUFFICES ASSUME lock = NoWriter, NEW w \in Writer \ doubt, NEW i \in DOMAIN Batch[w],
                    <<w, i>> \in Entries(shown[Batch[w][i]]), NEW j \in 1 .. i - 1
             PROVE  <<w, j>> \in Entries(Visible(Batch[w][j]))
  BY DEF PredecessorsShown
<1>1. PICK s \in Stream : s = Batch[w][i]
  BY BatchStreams
<1>2. shown[s] \in Seq(Entry) /\ Visible(s) \in Seq(Entry) /\ IsPrefix(shown[s], Visible(s))
  BY DEF ShownInv, Logged, Visible, ReadsSql, StoreIInv, StoreTypeOK
<1>3. <<w, i>> \in Entries(Visible(s))
  <2>1. PICK m \in DOMAIN shown[s] : shown[s][m] = <<w, i>>
    BY <1>1 DEF Entries
  <2>2. Visible(s)[m] = shown[s][m] /\ Len(shown[s]) <= Len(Visible(s))
    BY <1>2, PrefixPointwise
  <2>3. m \in DOMAIN Visible(s)
    BY <1>2, <2>2
  <2> QED BY <2>1, <2>2, <2>3 DEF Entries
<1>4. i \in Seen(w)
  BY <1>1, <1>3 DEF Seen
<1>5. stage[w] \notin Holding /\ stage[w] \in Stage
  BY NoWriterAssumption DEF StoreIInv, StoreTypeOK, StepsInv, HolderInv
<1>6. SeenBy(w)
  BY SeenByStage DEF SeenInv
<1>7. j \in DOMAIN Batch[w] /\ i \in Nat /\ j < i
  BY BatchStreams
<1>8. j \in Seen(w)
  <2>1. CASE stage[w] = "returned"
    BY <2>1, <1>6, <1>7 DEF SeenBy
  <2>2. CASE stage[w] = "crashed"
    <3>1. PICK k \in 0 .. Len(Batch[w]) : Seen(w) = 1 .. k
      BY <2>2, <1>6 DEF SeenBy
    <3> QED BY <3>1, <1>4, <1>7
  <2> QED BY <2>1, <2>2, <1>4, <1>5, <1>6 DEF SeenBy, Holding, Stage
<1> QED BY <1>8 DEF Seen

\* Who is shown the completed record of a batch finds the entries listed before it,
\* even if the writer died on the way.
THEOREM PredecessorsShownHolds == StoreSpec => []PredecessorsShown
<1>1. StoreIInv /\ ShownInv => PredecessorsShown
  BY PredecessorsThere
<1> QED BY <1>1, StoreInductive, ShownInductive, PTL

-----------------------------------------------------------------------------
(***************************************************************************)
(* ResponseCache                                                           *)
(***************************************************************************)
\* A key has a build in flight exactly while the call that leads it builds.
InflightInv ==
  /\ \A c \in Call : pc[c] \in Building => inflight[KeyOf[c]] = c
  /\ \A k \in Key : inflight[k] # None
       => KeyOf[inflight[k]] = k /\ pc[inflight[k]] \in Building

\* A call waits for a build of its own key, led by a call that never waited.
AwaitedInv ==
  \A c \in Call :
    /\ pc[c] = "waiting" => awaited[c] # None
    /\ awaited[c] # None =>
         /\ pc[c] \in {"waiting"} \cup Ended
         /\ pc[awaited[c]] \in Building \cup Ended
         /\ KeyOf[awaited[c]] = KeyOf[c]
         /\ awaited[awaited[c]] = None

\* The history: no key was invalidated at a version to come, and no call
\* needs more than its key was invalidated at.
HistoryInv ==
  /\ \A k \in Key : floor[k] <= source
  /\ \A c \in Call : need[c] <= floor[KeyOf[c]]

\* A build holds old data only if an invalidation overtook it.
BuiltInv ==
  \A c \in Call : (pc[c] = "built" /\ value[c] < floor[KeyOf[c]]) => c \in overtaken

\* The ended, overtaken build that brought version v of key k.
Culprit(k, v) ==
  \E d \in overtaken : KeyOf[d] = k /\ value[d] = v /\ pc[d] \in Ended

\* What is stored, about to be taken over or returned is old only with one.
StoreInv ==
  \A k \in Key : (store[k] # None /\ store[k] < floor[k]) => Culprit(k, store[k])

WaiterInv ==
  \A c \in Call :
    (pc[c] = "waiting" /\ pc[awaited[c]] = "returned" /\ value[awaited[c]] < need[c])
      => awaited[c] \in overtaken

AnswerInv ==
  \A c \in Call : (pc[c] = "returned" /\ value[c] < need[c]) => Culprit(KeyOf[c], value[c])

IInv ==
  /\ TypeOK
  /\ InflightInv
  /\ AwaitedInv
  /\ SharedOutcome
  /\ HistoryInv
  /\ BuiltInv
  /\ StoreInv
  /\ WaiterInv
  /\ AnswerInv

\* The steps a proof has to look at one by one.
LEMMA NextCases ==
  ASSUME Next
  PROVE  \/ ChangeSource
         \/ \E c \in Call :
              \/ Begin(c) \/ BuildDirect(c) \/ Hit(c) \/ Lead(c) \/ Wait(c)
              \/ TakeOver(c) \/ Build(c) \/ BuilderRaises(c) \/ WriteBack(c)
         \/ \E k \in Key : Expire(k)
         \/ \E K \in SUBSET Key : Invalidate(K)
<1>1. ASSUME NEW k \in Key, Invalidate({k})
      PROVE  \E K \in SUBSET Key : Invalidate(K)
  <2>1. {k} \in SUBSET Key
    OBVIOUS
  <2>. QED
    BY <1>1, <2>1
<1>2. ASSUME Invalidate(Key)
      PROVE  \E K \in SUBSET Key : Invalidate(K)
  BY <1>2
<1>. QED
  BY <1>1, <1>2 DEF Next, GetOrBuild

-----------------------------------------------------------------------------
LEMMA InitInv == Init => IInv
BY NoneAssumption, KeyOfAssumption
   DEF Init, IInv, TypeOK, InflightInv, AwaitedInv, SharedOutcome, HistoryInv,
       BuiltInv, StoreInv, WaiterInv, AnswerInv, Place, Building, Ended

\* Every step keeps the types.
LEMMA StepType ==
  ASSUME TypeOK, [Next]_vars
  PROVE  TypeOK'
<1>. USE KeyOfAssumption, NoneAssumption DEF TypeOK, Place, Building, Ended, Goto
<1>1. CASE UNCHANGED vars
  BY <1>1 DEF vars
<1>2. CASE ChangeSource
  BY <1>2 DEF ChangeSource
<1>3. ASSUME NEW c \in Call, Begin(c) \/ BuildDirect(c)
      PROVE  TypeOK'
  BY <1>3 DEF Begin, BuildDirect
<1>4. ASSUME NEW c \in Call, Hit(c)
      PROVE  TypeOK'
  <2>1. store[KeyOf[c]] \in Nat
    BY <1>4 DEF Hit
  <2>. QED
    BY <1>4, <2>1 DEF Hit
<1>5. ASSUME NEW c \in Call, Lead(c) \/ Wait(c) \/ Build(c) \/ BuilderRaises(c) \/ WriteBack(c)
      PROVE  TypeOK'
  BY <1>5 DEF Lead, Wait, Build, BuilderRaises, WriteBack
<1>6. ASSUME NEW c \in Call, TakeOver(c)
      PROVE  TypeOK'
  BY <1>6 DEF TakeOver
<1>7. ASSUME NEW k \in Key, Expire(k)
      PROVE  TypeOK'
  BY <1>7 DEF Expire
<1>8. ASSUME NEW K \in SUBSET Key, Invalidate(K)
      PROVE  TypeOK'
  BY <1>8 DEF Invalidate
<1>. QED
  BY <1>1, <1>2, <1>3, <1>4, <1>5, <1>6, <1>7, <1>8, NextCases

LEMMA StepInflight ==
  ASSUME TypeOK, InflightInv, [Next]_vars
  PROVE  InflightInv'
<1>. USE KeyOfAssumption, NoneAssumption DEF TypeOK, InflightInv, Building, Ended, Goto
<1>1. ASSUME UNCHANGED <<pc, inflight>>
      PROVE  InflightInv'
  BY <1>1
<1>2. ASSUME NEW c \in Call, Begin(c) \/ BuildDirect(c) \/ Hit(c) \/ Wait(c)
      PROVE  InflightInv'
  BY <1>2 DEF Begin, BuildDirect, Hit, Wait
<1>3. ASSUME NEW c \in Call, TakeOver(c)
      PROVE  InflightInv'
  BY <1>3 DEF TakeOver
<1>4. ASSUME NEW c \in Call, Lead(c)
      PROVE  InflightInv'
  BY <1>4 DEF Lead
<1>5. ASSUME NEW c \in Call, Build(c)
      PROVE  InflightInv'
  BY <1>5 DEF Build
<1>6. ASSUME NEW c \in Call, BuilderRaises(c) \/ WriteBack(c)
      PROVE  InflightInv'
  <2>1. \A k \in Key : k # KeyOf[c] => inflight'[k] = inflight[k] /\ inflight[k] # c
    BY <1>6 DEF BuilderRaises, WriteBack
  <2>2. inflight'[KeyOf[c]] = None /\ pc'[c] \notin Building
    BY <1>6 DEF BuilderRaises, WriteBack
  <2>3. \A d \in Call : d # c => pc'[d] = pc[d]
    BY <1>6 DEF BuilderRaises, WriteBack
  <2>4. inflight[KeyOf[c]] = c
    BY <1>6 DEF BuilderRaises, WriteBack
  <2>. QED
    BY <2>1, <2>2, <2>3, <2>4
<1>. QED
  BY <1>1, <1>2, <1>3, <1>4, <1>5, <1>6, NextCases
     DEF vars, ChangeSource, Expire, Invalidate

LEMMA StepAwaited ==
  ASSUME TypeOK, InflightInv, AwaitedInv, [Next]_vars
  PROVE  AwaitedInv'
<1>. USE KeyOfAssumption, NoneAssumption DEF TypeOK, AwaitedInv, Building, Ended, Goto
<1>1. ASSUME UNCHANGED <<pc, awaited>>
      PROVE  AwaitedInv'
  BY <1>1
<1>2. ASSUME NEW c \in Call, Begin(c) \/ BuildDirect(c) \/ Hit(c)
      PROVE  AwaitedInv'
  BY <1>2 DEF Begin, BuildDirect, Hit
<1>3. ASSUME NEW c \in Call, Lead(c) \/ Build(c) \/ BuilderRaises(c) \/ WriteBack(c)
      PROVE  AwaitedInv'
  BY <1>3 DEF Lead, Build, BuilderRaises, WriteBack
<1>4. ASSUME NEW c \in Call, TakeOver(c)
      PROVE  AwaitedInv'
  BY <1>4 DEF TakeOver
<1>5. ASSUME NEW c \in Call, Wait(c)
      PROVE  AwaitedInv'
  <2>1. /\ inflight[KeyOf[c]] \in Call
        /\ KeyOf[inflight[KeyOf[c]]] = KeyOf[c]
        /\ pc[inflight[KeyOf[c]]] \in Building
        /\ inflight[KeyOf[c]] # c
    BY <1>5 DEF Wait, InflightInv
  <2>2. awaited[inflight[KeyOf[c]]] = None
    BY <2>1
  <2>3. \A d \in Call : awaited[d] # c
    BY <1>5 DEF Wait
  <2>. QED
    BY <1>5, <2>1, <2>2, <2>3 DEF Wait
<1>. QED
  BY <1>1, <1>2, <1>3, <1>4, <1>5, NextCases
     DEF vars, ChangeSource, Expire, Invalidate

\* What a call that has ended leaves behind does not change any more.
LEMMA StepEnded ==
  ASSUME TypeOK, [Next]_vars, NEW d \in Call, pc[d] \in Ended
  PROVE  pc'[d] = pc[d] /\ value'[d] = value[d] /\ awaited'[d] = awaited[d] /\ need'[d] = need[d]
<1>. USE DEF TypeOK, Ended, Goto
<1>1. ASSUME NEW c \in Call, Begin(c) \/ BuildDirect(c) \/ Hit(c) \/ Lead(c) \/ Wait(c)
      PROVE  /\ c # d
             /\ pc'[d] = pc[d] /\ value'[d] = value[d] /\ awaited'[d] = awaited[d] /\ need'[d] = need[d]
  BY <1>1 DEF Begin, BuildDirect, Hit, Lead, Wait
<1>2. ASSUME NEW c \in Call, TakeOver(c) \/ Build(c) \/ BuilderRaises(c) \/ WriteBack(c)
      PROVE  /\ c # d
             /\ pc'[d] = pc[d] /\ value'[d] = value[d] /\ awaited'[d] = awaited[d] /\ need'[d] = need[d]
  BY <1>2 DEF TakeOver, Build, BuilderRaises, WriteBack
<1>3. ASSUME UNCHANGED <<pc, value, awaited, need>>
      PROVE  pc'[d] = pc[d] /\ value'[d] = value[d] /\ awaited'[d] = awaited[d] /\ need'[d] = need[d]
  BY <1>3
<1>. QED
  BY <1>1, <1>2, <1>3, NextCases DEF vars, ChangeSource, Expire, Invalidate

\* A call ends with a value of its own or with that of the build it waited for.
LEMMA StepEnds ==
  ASSUME TypeOK, AwaitedInv, [Next]_vars,
         NEW c \in Call, pc[c] \notin Ended, pc'[c] \in Ended
  PROVE  \/ BuildDirect(c) \/ Hit(c) \/ BuilderRaises(c) \/ WriteBack(c)
         \/ TakeOver(c)
<1>1. ASSUME NEW d \in Call, Begin(d) \/ Lead(d) \/ Wait(d) \/ Build(d)
      PROVE  FALSE
  BY <1>1 DEF Begin, Lead, Wait, Build, Goto, Ended, TypeOK
<1>2. ASSUME NEW d \in Call, BuildDirect(d) \/ Hit(d) \/ BuilderRaises(d) \/ WriteBack(d) \/ TakeOver(d)
      PROVE  d = c
  BY <1>2 DEF BuildDirect, Hit, BuilderRaises, WriteBack, TakeOver, Goto, TypeOK
<1>. QED
  BY <1>1, <1>2, NextCases DEF vars, ChangeSource, Expire, Invalidate

LEMMA StepShared ==
  ASSUME TypeOK, InflightInv, AwaitedInv, SharedOutcome, [Next]_vars
  PROVE  SharedOutcome'
<1>. SUFFICES ASSUME NEW c \in Call, awaited'[c] # None, pc'[c] \in Ended
              PROVE  /\ pc'[c] = pc'[awaited'[c]]
                     /\ pc'[c] = "returned" => value'[c] = value'[awaited'[c]]
  BY DEF SharedOutcome
<1>1. CASE pc[c] \in Ended
  <2>1. awaited'[c] = awaited[c] /\ pc'[c] = pc[c] /\ value'[c] = value[c]
    BY <1>1, StepEnded
  <2>2. awaited[c] \in Call
    BY <2>1 DEF TypeOK
  <2>3. pc[awaited[c]] \in Ended
    BY <1>1, <2>1 DEF SharedOutcome
  <2>4. pc'[awaited[c]] = pc[awaited[c]] /\ value'[awaited[c]] = value[awaited[c]]
    BY <2>2, <2>3, StepEnded
  <2>. QED
    BY <1>1, <2>1, <2>4 DEF SharedOutcome
<1>2. CASE pc[c] \notin Ended
  <2>1. ASSUME BuildDirect(c) \/ Hit(c) \/ BuilderRaises(c) \/ WriteBack(c)
        PROVE  FALSE
    BY <2>1 DEF BuildDirect, Hit, BuilderRaises, WriteBack, Goto, AwaitedInv, Ended
  <2>2. TakeOver(c)
    BY <1>2, <2>1, StepEnds
  <2>3. awaited[c] \in Call /\ awaited[c] # c /\ awaited'[c] = awaited[c]
    BY <1>2, <2>2 DEF TakeOver, TypeOK
  <2>. QED
    BY <2>2, <2>3 DEF TakeOver, Goto, TypeOK
<1>. QED
  BY <1>1, <1>2

-----------------------------------------------------------------------------
LEMMA StepHistory ==
  ASSUME TypeOK, HistoryInv, [Next]_vars
  PROVE  HistoryInv'
<1>. USE KeyOfAssumption DEF TypeOK, HistoryInv
<1>1. CASE ChangeSource
  BY <1>1 DEF ChangeSource
<1>2. ASSUME NEW c \in Call, Begin(c)
      PROVE  HistoryInv'
  BY <1>2 DEF Begin
<1>3. ASSUME NEW K \in SUBSET Key, Invalidate(K)
      PROVE  HistoryInv'
  <2>1. \A k \in Key : floor'[k] \in {floor[k], source}
    BY <1>3 DEF Invalidate
  <2>2. \A k \in Key : floor[k] <= floor'[k] /\ floor'[k] <= source
    BY <2>1
  <2>3. \A c \in Call : need[c] <= floor'[KeyOf[c]]
    <3>1. TAKE c \in Call
    <3>2. floor'[KeyOf[c]] \in Nat
      BY <2>1
    <3>. QED
      BY <2>2, <3>2
  <2>. QED
    BY <1>3, <2>2, <2>3 DEF Invalidate
<1>4. ASSUME UNCHANGED <<source, floor, need>>
      PROVE  HistoryInv'
  BY <1>4
<1>. QED
  BY <1>1, <1>2, <1>3, <1>4, NextCases
     DEF vars, BuildDirect, Hit, Lead, Wait, TakeOver, Build, BuilderRaises, WriteBack, Expire

LEMMA StepBuilt ==
  ASSUME TypeOK, HistoryInv, BuiltInv, [Next]_vars
  PROVE  BuiltInv'
<1>. USE KeyOfAssumption DEF TypeOK, BuiltInv, Goto
<1>1. ASSUME NEW c \in Call, Begin(c) \/ BuildDirect(c) \/ Hit(c) \/ Lead(c) \/ Wait(c)
      PROVE  BuiltInv'
  BY <1>1 DEF Begin, BuildDirect, Hit, Lead, Wait
<1>2. ASSUME NEW c \in Call, TakeOver(c) \/ BuilderRaises(c) \/ WriteBack(c)
      PROVE  BuiltInv'
  BY <1>2 DEF TakeOver, BuilderRaises, WriteBack, Ended
<1>3. ASSUME NEW c \in Call, Build(c)
      PROVE  BuiltInv'
  <2>1. ~ (source < floor[KeyOf[c]])
    BY DEF HistoryInv
  <2>. QED
    BY <1>3, <2>1 DEF Build
<1>4. ASSUME NEW K \in SUBSET Key, Invalidate(K)
      PROVE  BuiltInv'
  BY <1>4 DEF Invalidate, Building
<1>5. ASSUME UNCHANGED <<pc, value, floor, overtaken>>
      PROVE  BuiltInv'
  BY <1>5
<1>. QED
  BY <1>1, <1>2, <1>3, <1>4, <1>5, NextCases DEF vars, ChangeSource, Expire

\* A culprit stays one.
LEMMA CulpritStays ==
  ASSUME TypeOK, [Next]_vars, NEW k \in Key, NEW v, Culprit(k, v)
  PROVE  Culprit(k, v)'
<1>1. PICK d \in overtaken : KeyOf[d] = k /\ value[d] = v /\ pc[d] \in Ended
  BY DEF Culprit
<1>2. pc'[d] = pc[d] /\ value'[d] = value[d]
  BY <1>1, StepEnded DEF TypeOK
<1>3. overtaken \subseteq overtaken'
  BY NextCases DEF vars, ChangeSource, Begin, BuildDirect, Hit, Lead, Wait, TakeOver,
     Build, BuilderRaises, WriteBack, Expire, Invalidate
<1>. QED
  BY <1>1, <1>2, <1>3 DEF Culprit

\* A build that returns old data becomes its culprit.
LEMMA CulpritMade ==
  ASSUME TypeOK, BuiltInv, NEW c \in Call, WriteBack(c), value[c] < floor[KeyOf[c]]
  PROVE  c \in overtaken /\ Culprit(KeyOf[c], value[c])'
<1>1. c \in overtaken /\ overtaken' = overtaken /\ value' = value
  BY DEF WriteBack, Goto, BuiltInv
<1>2. pc'[c] \in Ended
  BY DEF WriteBack, Goto, TypeOK, Ended
<1>. QED
  BY <1>1, <1>2 DEF Culprit

LEMMA StepStore ==
  ASSUME TypeOK, BuiltInv, StoreInv, [Next]_vars
  PROVE  StoreInv'
<1>. USE KeyOfAssumption, NoneAssumption DEF TypeOK
<1>1. SUFFICES ASSUME NEW k \in Key, store'[k] # None, store'[k] < floor'[k]
               PROVE  Culprit(k, store[k])' 
  BY DEF StoreInv, Culprit
<1>2. ASSUME store'[k] = store[k], floor'[k] = floor[k]
      PROVE  Culprit(k, store[k])'
  <2>1. Culprit(k, store[k])
    BY <1>1, <1>2 DEF StoreInv
  <2>2. PICK d \in overtaken' : KeyOf[d] = k /\ value'[d] = store[k] /\ pc'[d] \in Ended
    BY <2>1, CulpritStays DEF Culprit
  <2>. QED
    BY <1>2, <2>2 DEF Culprit
<1>3. ASSUME NEW c \in Call, WriteBack(c)
      PROVE  Culprit(k, store[k])'
  <2>1. CASE k = KeyOf[c]
    <3>1. store'[k] = value[c] /\ floor'[k] = floor[k]
      BY <1>3, <2>1 DEF WriteBack
    <3>2. Culprit(KeyOf[c], value[c])'
      BY <1>1, <1>3, <2>1, <3>1, CulpritMade
    <3>3. value' = value
      BY <1>3 DEF WriteBack
    <3>. QED
      BY <2>1, <3>1, <3>2, <3>3 DEF Culprit
  <2>2. CASE k # KeyOf[c]
    BY <1>2, <1>3, <2>2 DEF WriteBack
  <2>. QED
    BY <2>1, <2>2
<1>4. ASSUME NEW l \in Key, Expire(l)
      PROVE  Culprit(k, store[k])'
  BY <1>1, <1>2, <1>4 DEF Expire
<1>5. ASSUME NEW K \in SUBSET Key, Invalidate(K)
      PROVE  Culprit(k, store[k])'
  BY <1>1, <1>2, <1>5 DEF Invalidate
<1>. QED
  BY <1>2, <1>3, <1>4, <1>5, NextCases
     DEF vars, ChangeSource, Begin, BuildDirect, Hit, Lead, Wait, TakeOver, Build, BuilderRaises

-----------------------------------------------------------------------------
\* Of two calls only the one that acts moves, waits or reads.
LEMMA StepWaiter ==
  ASSUME TypeOK, InflightInv, AwaitedInv, HistoryInv, BuiltInv, WaiterInv, [Next]_vars
  PROVE  WaiterInv'
<1>. USE KeyOfAssumption, NoneAssumption DEF TypeOK
<1>1. SUFFICES ASSUME NEW c \in Call, pc'[c] = "waiting", pc'[awaited'[c]] = "returned",
                      value'[awaited'[c]] < need'[c]
               PROVE  awaited'[c] \in overtaken'
  BY DEF WaiterInv
<1>2. overtaken \subseteq overtaken'
  BY NextCases DEF vars, ChangeSource, Begin, BuildDirect, Hit, Lead, Wait, TakeOver,
     Build, BuilderRaises, WriteBack, Expire, Invalidate
<1>3. ASSUME Wait(c)
      PROVE  FALSE
  <2>1. awaited'[c] = inflight[KeyOf[c]] /\ awaited'[c] \in Call
    BY <1>3 DEF Wait
  <2>2. pc[awaited'[c]] \in Building /\ awaited'[c] # c
    BY <1>3, <2>1 DEF Wait, InflightInv, Goto, Building
  <2>3. pc'[awaited'[c]] = pc[awaited'[c]]
    BY <1>3, <2>1, <2>2 DEF Wait, Goto
  <2>. QED
    BY <1>1, <2>2, <2>3 DEF Building
<1>4. ASSUME pc[c] = "waiting", awaited'[c] = awaited[c], need'[c] = need[c]
      PROVE  awaited'[c] \in overtaken'
  <2>. DEFINE d == awaited[c]
  <2>1. d \in Call /\ KeyOf[d] = KeyOf[c] /\ pc[d] \in Building \cup Ended /\ awaited[d] = None
    BY <1>4 DEF AwaitedInv
  <2>2. CASE pc[d] \in Ended
    <3>1. pc'[d] = pc[d] /\ value'[d] = value[d]
      BY <2>1, <2>2, StepEnded
    <3>. QED
      BY <1>1, <1>2, <1>4, <3>1 DEF WaiterInv
  <2>3. CASE pc[d] \notin Ended
    <3>1. pc'[d] \in Ended
      BY <1>1, <1>4 DEF Ended
    <3>2. WriteBack(d)
      <4>1. ASSUME BuildDirect(d) \/ Hit(d) \/ BuilderRaises(d) \/ TakeOver(d)
            PROVE  FALSE
        <5>1. CASE BuilderRaises(d)
          BY <1>1, <1>4, <2>1, <5>1 DEF BuilderRaises, Goto
        <5>2. CASE BuildDirect(d) \/ Hit(d) \/ TakeOver(d)
          BY <2>1, <2>3, <5>2 DEF BuildDirect, Hit, TakeOver, Goto, Building, Ended
        <5>. QED
          BY <4>1, <5>1, <5>2
      <4>. QED
        BY <2>1, <2>3, <3>1, <4>1, StepEnds
    <3>3. value'[d] = value[d]
      BY <3>2 DEF WriteBack
    <3>4. value[d] < floor[KeyOf[d]]
      <4>1. value[d] < need[c] /\ need[c] <= floor[KeyOf[c]]
        BY <1>1, <1>4, <3>3 DEF HistoryInv
      <4>2. value[d] \in Nat /\ need[c] \in Nat /\ floor[KeyOf[c]] \in Nat
        BY <2>1
      <4>. QED
        BY <2>1, <4>1, <4>2
    <3>. QED
      BY <1>2, <1>4, <2>1, <3>2, <3>4, CulpritMade
  <2>. QED
    BY <2>2, <2>3
<1>5. Wait(c) \/ (pc[c] = "waiting" /\ awaited'[c] = awaited[c] /\ need'[c] = need[c])
  <2>1. ASSUME NEW e \in Call, e # c \/ ~ Wait(c),
               Begin(e) \/ BuildDirect(e) \/ Hit(e) \/ Lead(e) \/ Wait(e)
        PROVE  pc[c] = "waiting" /\ awaited'[c] = awaited[c] /\ need'[c] = need[c]
    BY <1>1, <2>1 DEF Begin, BuildDirect, Hit, Lead, Wait, Goto
  <2>2. ASSUME NEW e \in Call, TakeOver(e) \/ Build(e) \/ BuilderRaises(e) \/ WriteBack(e)
        PROVE  pc[c] = "waiting" /\ awaited'[c] = awaited[c] /\ need'[c] = need[c]
    BY <1>1, <2>2 DEF TakeOver, Build, BuilderRaises, WriteBack, Goto, Ended
  <2>. QED
    BY <1>1, <2>1, <2>2, NextCases DEF vars, ChangeSource, Expire, Invalidate
<1>. QED
  BY <1>3, <1>4, <1>5

LEMMA StepAnswer ==
  ASSUME IInv, [Next]_vars
  PROVE  AnswerInv'
<1>. USE KeyOfAssumption, NoneAssumption DEF IInv, TypeOK
<1>1. SUFFICES ASSUME NEW c \in Call, pc'[c] = "returned", value'[c] < need'[c]
               PROVE  Culprit(KeyOf[c], value[c])'
  BY DEF AnswerInv, Culprit
<1>2. ASSUME Culprit(KeyOf[c], value'[c])
      PROVE  Culprit(KeyOf[c], value[c])'
  <2>1. PICK d \in overtaken' : KeyOf[d] = KeyOf[c] /\ value'[d] = value'[c] /\ pc'[d] \in Ended
    BY <1>2, CulpritStays DEF Culprit
  <2>. QED
    BY <2>1 DEF Culprit
<1>3. CASE pc[c] \in Ended
  BY <1>1, <1>2, <1>3, StepEnded DEF AnswerInv
<1>4. CASE pc[c] \notin Ended
  <2>1. need'[c] = need[c] /\ need[c] <= floor[KeyOf[c]] /\ floor[KeyOf[c]] <= source
    <3>1. BuildDirect(c) \/ Hit(c) \/ BuilderRaises(c) \/ WriteBack(c) \/ TakeOver(c)
      BY <1>1, <1>4, StepEnds DEF Ended
    <3>. QED
      BY <3>1 DEF BuildDirect, Hit, BuilderRaises, WriteBack, TakeOver, HistoryInv
  <2>2. need[c] \in Nat /\ floor[KeyOf[c]] \in Nat /\ source \in Nat
    OBVIOUS
  <2>3. CASE BuildDirect(c)
    BY <1>1, <2>1, <2>2, <2>3 DEF BuildDirect, Goto
  <2>4. CASE Hit(c)
    <3>1. value'[c] = store[KeyOf[c]] /\ store[KeyOf[c]] \in Nat
      BY <2>4 DEF Hit
    <3>2. Culprit(KeyOf[c], store[KeyOf[c]])
      BY <1>1, <2>1, <2>2, <3>1 DEF StoreInv
    <3>. QED
      BY <1>2, <3>1, <3>2
  <2>5. CASE BuilderRaises(c)
    BY <1>1, <2>5 DEF BuilderRaises, Goto
  <2>6. CASE WriteBack(c)
    <3>1. value' = value /\ value[c] \in Nat
      BY <2>6 DEF WriteBack
    <3>2. value[c] < floor[KeyOf[c]]
      BY <1>1, <2>1, <2>2, <3>1
    <3>3. Culprit(KeyOf[c], value[c])'
      BY <2>6, <3>2, CulpritMade
    <3>. QED
      BY <3>3
  <2>7. CASE TakeOver(c)
    <3>. DEFINE d == awaited[c]
    <3>1. d \in Call /\ KeyOf[d] = KeyOf[c] /\ pc[d] = "returned" /\ value'[c] = value[d]
      BY <1>1, <2>7 DEF TakeOver, AwaitedInv, Goto
    <3>2. d \in overtaken
      BY <1>1, <2>1, <2>7, <3>1 DEF TakeOver, WaiterInv, Goto
    <3>3. Culprit(KeyOf[c], value'[c])
      BY <3>1, <3>2 DEF Culprit, Ended
    <3>. QED
      BY <1>2, <3>3
  <2>8. BuildDirect(c) \/ Hit(c) \/ BuilderRaises(c) \/ WriteBack(c) \/ TakeOver(c)
    BY <1>1, <1>4, StepEnds DEF Ended
  <2>. QED
    BY <2>3, <2>4, <2>5, <2>6, <2>7, <2>8
<1>. QED
  BY <1>3, <1>4

-----------------------------------------------------------------------------
LEMMA StepInv ==
  ASSUME IInv, [Next]_vars
  PROVE  IInv'
BY StepType, StepInflight, StepAwaited, StepShared, StepHistory, StepBuilt,
   StepStore, StepWaiter, StepAnswer
   DEF IInv

LEMMA InvHolds == Spec => []IInv
BY InitInv, StepInv, PTL DEF Spec

\* Every variable of the cache keeps its type.
THEOREM TypeCorrect == Spec => []TypeOK
BY InvHolds, PTL DEF IInv

\* Of the concurrent calls of get_or_build for a key one builds.
THEOREM SingleBuildHolds == Spec => []SingleBuild
<1>1. IInv => SingleBuild
  BY DEF IInv, InflightInv, SingleBuild
<1>. QED
  BY <1>1, InvHolds, PTL

\* A waiter ends as the build it waited for, however late it runs.
THEOREM SharedOutcomeHolds == Spec => []SharedOutcome
BY InvHolds, PTL DEF IInv

\* Stale answers come only from builds an invalidation overtook.
THEOREM StaleOnlyFromOvertakenHolds == Spec => []StaleOnlyFromOvertaken
<1>1. IInv => StaleOnlyFromOvertaken
  BY DEF IInv, AnswerInv, Culprit, StaleOnlyFromOvertaken
<1>. QED
  BY <1>1, InvHolds, PTL
=============================================================================
