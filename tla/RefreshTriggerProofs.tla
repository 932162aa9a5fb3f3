------------------------ MODULE RefreshTriggerProofs ------------------------
(***************************************************************************)
(* Proofs about RefreshTrigger, for any number of requests, keys, workers  *)
(* and redeliveries.                                                       *)
(***************************************************************************)
EXTENDS RefreshTrigger, SequenceTheorems, WellFoundedInduction, TLAPS

-----------------------------------------------------------------------------
(***************************************************************************)
(* The trigger lock and types                                              *)
(***************************************************************************)
Inside == {"lookup", "give_up", "reread", "check", "reconcile", "append", "send",
           "undispatched", "sync"}

\* Requests past the door hold the lock; only two places have runs to give up.
Locked ==
  \A c \in Request :
    /\ pc[c] \in Inside => trigger = c
    /\ doomed[c] # {} => pc[c] \in {"give_up", "reconcile"}

Types ==
  /\ service \in Service /\ faults \subseteq FaultKind
  /\ now \in 0 .. MaxTime
  /\ trigger \in Request \cup {NoRequest}
  /\ pc \in [Request -> Place]
  /\ doomed \in [Request -> SUBSET Request]
  /\ reply \in [Request -> Answer]
  /\ records \in [Request -> Seq(Record)]
  /\ keyed \in Seq(Request)
  /\ message \in [Request -> Message]
  /\ retries \in 0 .. MaxRetries
  /\ silent \subseteq Request /\ reopened \subseteq Request

\* A request that leaves the lock without an answer of its own, and the steps of a
\* delivery, whatever becomes of it.
Leaves(c) == RequestDies(c) \/ TriggerRaises(c)
Works(c) == Worker(c) \/ WorkerRaises(c) \/ WorkerDies(c)

LEMMA Initial == Init => Types /\ Locked
<1> SUFFICES ASSUME Init PROVE Types /\ Locked
  OBVIOUS
<1>1. 0 \in 0 .. MaxTime /\ 0 \in 0 .. MaxRetries
  BY BoundAssumption
<1>2. records \in [Request -> Seq(Record)] /\ keyed \in Seq(Request)
  BY EmptySeq DEF Init
<1>3. service \in Service /\ faults \subseteq FaultKind
  BY TrafficAssumption DEF Init
<1> QED BY <1>1, <1>2, <1>3 DEF Init, Types, Locked, Inside, Place, Answer, Message

\* What a write appends.
LEMMA Written ==
  ASSUME Types, NEW r \in Request, NEW status \in Status,
         NEW key \in Keys \cup {NoKey}, Write(r, status, key)
  PROVE  /\ records' \in [Request -> Seq(Record)]
         /\ keyed' \in Seq(Request)
         /\ \A q \in Request : q # r => records'[q] = records[q]
         /\ Len(records'[r]) = Len(records[r]) + 1
         /\ Len(records[r]) \in Nat
         /\ \A i \in 1 .. Len(records[r]) : records'[r][i] = records[r][i]
         /\ records'[r][Len(records[r]) + 1].status = status
         /\ records'[r][Len(records[r]) + 1].key = key
<1> DEFINE e == [status |-> status, key |-> key, at |-> now]
<1>1. e \in Record
  BY DEF Types, Record
<1>2. e.status = status /\ e.key = key
  OBVIOUS
<1>3. records' = [records EXCEPT ![r] = Append(@, e)]
  BY DEF Write
<1> HIDE DEF e
<1>4. records[r] \in Seq(Record) /\ records'[r] = Append(records[r], e)
  BY <1>3 DEF Types
<1>5. /\ Append(records[r], e) \in Seq(Record)
      /\ Len(records'[r]) = Len(records[r]) + 1
      /\ Len(records[r]) \in Nat
      /\ \A i \in 1 .. Len(records[r]) : records'[r][i] = records[r][i]
      /\ records'[r][Len(records[r]) + 1] = e
  BY <1>1, <1>4, AppendProperties, LenProperties
<1>6. records' \in [Request -> Seq(Record)] /\ \A q \in Request : q # r => records'[q] = records[q]
  BY <1>3, <1>5 DEF Types
<1>7. keyed' \in Seq(Request)
  BY AppendProperties DEF Write, Types
<1> QED BY <1>2, <1>5, <1>6, <1>7

LEMMA LastOf ==
  ASSUME NEW S, NEW q \in Seq(S), q # <<>>
  PROVE  Len(q) \in 1 .. Len(q) /\ Last(q) = q[Len(q)] /\ Last(q) \in S
<1>1. Len(q) \in Nat /\ Len(q) # 0
  BY LenProperties, EmptySeq
<1>2. Len(q) \in 1 .. Len(q)
  BY <1>1
<1> QED BY <1>2, ElementOfSeq DEF Last

\* The greatest of a set of positions.
LEMMA LeastNatural ==
  ASSUME NEW T \in SUBSET Nat, T # {}
  PROVE  \E n \in T : \A m \in T : n <= m
<1> DEFINE Lt == OpToRel(<, Nat)
<1>1. IsWellFoundedOn(Lt, Nat)
  BY NatLessThanWellFounded
<1>2. \E n \in T : \A m \in T : <<m, n>> \notin Lt
  <2> HIDE DEF Lt
  <2> QED BY <1>1, WFMin
<1>3. \A n, m \in Nat : <<m, n>> \notin Lt => n <= m
  BY DEF OpToRel
<1> QED BY <1>2, <1>3

LEMMA LastNatural ==
  ASSUME NEW k \in Nat, NEW T \in SUBSET (0 .. k), T # {}
  PROVE  \E n \in T : \A m \in T : m <= n
<1> DEFINE U == {n \in 0 .. k : k - n \in T}
<1>1. U \in SUBSET Nat /\ U # {}
  <2>1. PICK m \in T : TRUE
    OBVIOUS
  <2>2. m \in 0 .. k /\ k - m \in 0 .. k /\ k - (k - m) = m
    OBVIOUS
  <2>3. k - m \in U
    BY <2>1, <2>2
  <2> QED BY <2>3
<1>2. PICK u \in U : \A v \in U : u <= v
  <2> HIDE DEF U
  <2> QED BY <1>1, LeastNatural
<1>3. ASSUME NEW m \in T PROVE m <= k - u
  <2>1. m \in 0 .. k /\ k - m \in 0 .. k /\ k - (k - m) = m
    OBVIOUS
  <2>2. k - m \in U
    BY <2>1
  <2>3. u <= k - m
    BY <1>2, <2>2
  <2> QED BY <2>1, <2>3, <1>2
<1> QED BY <1>2, <1>3

LEMMA Greatest ==
  ASSUME NEW n \in Nat, NEW T \in SUBSET (1 .. n), T # {}
  PROVE  Max(T) \in T /\ \A i \in T : i <= Max(T)
<1>1. T \in SUBSET (0 .. n)
  OBVIOUS
<1>2. PICK m \in T : \A i \in T : i <= m
  BY <1>1, LastNatural
<1>3. \A i \in T : m >= i
  BY <1>2
<1>4. Max(T) \in T /\ \A i \in T : Max(T) >= i
  BY <1>3 DEF Max
<1> QED BY <1>4

LEMMA KeyedPositions ==
  ASSUME Types, NEW k, WithKey(k) # {}
  PROVE  /\ Max(WithKey(k)) \in WithKey(k)
         /\ \A i \in WithKey(k) : i <= Max(WithKey(k))
         /\ LatestRunWithKey(k) \in Request
<1>1. Len(keyed) \in Nat /\ DOMAIN keyed = 1 .. Len(keyed)
  BY LenProperties DEF Types
<1>2. WithKey(k) \in SUBSET (1 .. Len(keyed))
  BY <1>1 DEF WithKey
<1>3. Max(WithKey(k)) \in WithKey(k) /\ \A i \in WithKey(k) : i <= Max(WithKey(k))
  BY <1>1, <1>2, Greatest
<1> QED BY <1>1, <1>2, <1>3, ElementOfSeq DEF LatestRunWithKey, Types

\* A request that comes in holds the lock, one that goes out has nothing left
\* to give up.
LEMMA DoorKept ==
  ASSUME Types, Locked, NEW c \in Request,
         \A d \in Request : d # c => pc'[d] = pc[d] /\ doomed'[d] = doomed[d],
         pc[c] \in Inside \/ trigger = NoRequest,
         trigger' = IF pc'[c] \in Inside THEN c ELSE NoRequest,
         doomed'[c] # {} => pc'[c] \in {"give_up", "reconcile"}
  PROVE  Locked'
<1> SUFFICES ASSUME NEW d \in Request
             PROVE  /\ pc'[d] \in Inside => trigger' = d
                    /\ doomed'[d] # {} => pc'[d] \in {"give_up", "reconcile"}
  BY DEF Locked
<1>1. CASE d = c
  BY <1>1
<1>2. CASE d # c
  <2>1. pc[d] \notin Inside
    BY <1>2, RequestAssumption DEF Locked
  <2> QED BY <1>2, <2>1 DEF Locked
<1> QED BY <1>1, <1>2

\* The steps of a request.
LEMMA TriggerKeepsTypes ==
  ASSUME Types, Locked, NEW c \in Request, Trigger(c)
  PROVE  Types' /\ Locked'
<1> USE DEF Types, hist
<1>1. ASSUME AcquireTrigger(c) PROVE Types' /\ Locked'
  <2>1. pc' = [pc EXCEPT ![c] = Entered(c)] /\ Entered(c) \in {"check", "lookup"}
    BY <1>1 DEF AcquireTrigger, Goto, Entered
  <2>2. Types'
    BY <1>1, <2>1 DEF AcquireTrigger, Place
  <2>3. pc'[c] \in Inside /\ doomed'[c] = {} /\ trigger = NoRequest /\ trigger' = c
    BY <1>1, <2>1 DEF AcquireTrigger, Inside, Locked, Goto
  <2> QED BY <1>1, <2>1, <2>2, <2>3, DoorKept DEF AcquireTrigger
<1>2. ASSUME TriggerBusy(c) PROVE Types' /\ Locked'
  BY <1>2 DEF TriggerBusy, Goto, Place, Answer, Locked, Inside
<1>3. ASSUME NEW from \in Inside, NEW to \in Inside, Goto(c, from, to),
             trigger' = trigger, NEW D \in SUBSET Request, doomed' = [doomed EXCEPT ![c] = D],
             D # {} => to \in {"give_up", "reconcile"}
      PROVE  /\ pc' \in [Request -> Place] /\ trigger' \in Request \cup {NoRequest}
             /\ doomed' \in [Request -> SUBSET Request] /\ Locked'
  <2>1. pc'[c] = to /\ trigger' = c /\ pc[c] \in Inside /\ doomed'[c] = D
    BY <1>3 DEF Goto, Locked
  <2>2. \A d \in Request : d # c => pc'[d] = pc[d] /\ doomed'[d] = doomed[d]
    BY <1>3 DEF Goto
  <2>3. Locked'
    BY <1>3, <2>1, <2>2, DoorKept
  <2> QED BY <1>3, <2>3 DEF Goto, Inside, Place
<1>4. ASSUME NEW from \in Inside, NEW answer \in Answer, Reply(c, from, answer),
             UNCHANGED doomed, doomed[c] = {}
      PROVE  /\ pc' \in [Request -> Place] /\ trigger' \in Request \cup {NoRequest}
             /\ reply' \in [Request -> Answer] /\ Locked'
  <2>1. pc'[c] = "answered" /\ trigger' = NoRequest /\ pc[c] \in Inside /\ "answered" \notin Inside
    BY <1>4 DEF Goto, Reply, Inside
  <2>2. \A d \in Request : d # c => pc'[d] = pc[d] /\ doomed'[d] = doomed[d]
    BY <1>4 DEF Goto, Reply
  <2>3. Locked'
    BY <1>4, <2>1, <2>2, DoorKept
  <2> QED BY <1>4, <2>3 DEF Goto, Reply, Place
<1>5. /\ pc[c] \notin {"give_up", "reconcile"} => doomed[c] = {}
      /\ doomed = [doomed EXCEPT ![c] = doomed[c]]
  BY DEF Locked
<1>6. CASE LookupNothing(c) \/ Reconciled(c) \/ SendFails(c) \/ RunsItself(c)
  <2>1. PICK from \in Inside, to \in Inside : Goto(c, from, to) /\ doomed[c] = {}
    BY <1>5, <1>6 DEF LookupNothing, Reconciled, SendFails, RunsItself, Goto, Inside
  <2>2. /\ trigger' = trigger /\ doomed' = [doomed EXCEPT ![c] = {}]
        /\ message' \in [Request -> Message]
        /\ UNCHANGED <<service, faults, now, reply, records, keyed, retries, hist>>
    BY <1>5, <1>6, <2>1 DEF LookupNothing, Reconciled, SendFails, RunsItself, Message
  <2> QED BY <1>3, <2>1, <2>2
<1>7. CASE LookupReplays(c) \/ Reread(c) \/ CheckConflict(c) \/ Send(c) \/ SyncCompletes(c)
  <2>1. PICK from \in Inside, answer \in Answer : Reply(c, from, answer) /\ doomed[c] = {}
    BY <1>5, <1>7 DEF LookupReplays, Reread, CheckConflict, Send, SyncCompletes, Reply, Goto,
       Inside, Answer
  <2>2. /\ doomed' = doomed /\ message' \in [Request -> Message]
        /\ UNCHANGED <<service, faults, now, records, keyed, retries, hist>>
    BY <1>7 DEF LookupReplays, Reread, CheckConflict, Send, SyncCompletes, Message
  <2> QED BY <1>4, <2>1, <2>2
<1>8. CASE LookupStale(c)
  <2>1. {LatestRunWithKey(Key[c])} \in SUBSET Request
    BY <1>8, KeyedPositions DEF LookupStale
  <2>2. Goto(c, "lookup", "give_up") /\ {"lookup", "give_up"} \subseteq Inside
    BY <1>8 DEF LookupStale, Inside
  <2> HIDE DEF Types
  <2>3. UNCHANGED <<service, faults, now, trigger, reply, records, keyed, message, retries, hist>>
    BY <1>8 DEF LookupStale
  <2>4. doomed' = [doomed EXCEPT ![c] = {LatestRunWithKey(Key[c])}]
    BY <1>8 DEF LookupStale
  <2>5. /\ pc' \in [Request -> Place] /\ trigger' \in Request \cup {NoRequest}
        /\ doomed' \in [Request -> SUBSET Request] /\ Locked'
    BY <1>3, <2>1, <2>2, <2>3, <2>4
  <2> QED BY <2>3, <2>5 DEF Types
<1>9. CASE GiveUpKeyed(c)
  <2>1. \E r \in doomed[c] : Write(r, "failed", NoKey)
    BY <1>9 DEF GiveUpKeyed
  <2>2. records' \in [Request -> Seq(Record)] /\ keyed' \in Seq(Request)
    BY <2>1, Written DEF Status, Terminal
  <2>3. PICK to \in {"check", "reread"} : Goto(c, "give_up", to)
    BY <1>9 DEF GiveUpKeyed
  <2>4. /\ {"give_up", "check", "reread"} \subseteq Inside /\ trigger' = trigger
        /\ doomed' = [doomed EXCEPT ![c] = {}] /\ {} \in SUBSET Request
    BY <1>9 DEF GiveUpKeyed, Inside
  <2> HIDE DEF Types
  <2>5. /\ pc' \in [Request -> Place] /\ trigger' \in Request \cup {NoRequest}
        /\ doomed' \in [Request -> SUBSET Request] /\ Locked'
    BY <1>3, <2>3, <2>4
  <2> QED BY <1>9, <2>2, <2>5 DEF GiveUpKeyed, Types
<1>10. CASE CheckFree(c)
  <2>1. GivenUp \in SUBSET Request /\ Goto(c, "check", "reconcile")
        /\ {"check", "reconcile"} \subseteq Inside
    BY <1>10 DEF GivenUp, CheckFree, Inside
  <2>2. doomed' = [doomed EXCEPT ![c] = GivenUp] /\ trigger' = trigger
    BY <1>10 DEF CheckFree
  <2>3. /\ pc' \in [Request -> Place] /\ trigger' \in Request \cup {NoRequest}
        /\ doomed' \in [Request -> SUBSET Request] /\ Locked'
    BY <1>3, <2>1, <2>2
  <2> QED BY <1>10, <2>3 DEF CheckFree
<1>11. CASE MarkStale(c)
  <2>1. PICK r \in doomed[c] : Write(r, "failed", NoKey) /\ doomed' = [doomed EXCEPT ![c] = @ \ {r}]
    BY <1>11 DEF MarkStale
  <2>2. records' \in [Request -> Seq(Record)] /\ keyed' \in Seq(Request)
    BY <2>1, Written DEF Status, Terminal
  <2>3. /\ UNCHANGED <<service, faults, now, trigger, pc, reply, message, retries, hist>>
        /\ doomed' \in [Request -> SUBSET Request] /\ pc[c] = "reconcile"
    BY <1>11, <2>1 DEF MarkStale
  <2>4. Locked'
    BY <2>1, <2>3 DEF Locked
  <2> QED BY <2>2, <2>3, <2>4
<1>12. CASE AppendQueued(c)
  <2>1. records' \in [Request -> Seq(Record)] /\ keyed' \in Seq(Request)
    BY <1>12, Written DEF AppendQueued, Status, InFlight, Keys
  <2>2. Goto(c, "append", "send") /\ doomed[c] = {} /\ {"append", "send"} \subseteq Inside
    BY <1>5, <1>12 DEF AppendQueued, Goto, Inside
  <2>3. doomed' = [doomed EXCEPT ![c] = {}] /\ trigger' = trigger
    BY <1>5, <1>12, <2>2 DEF AppendQueued
  <2>4. /\ pc' \in [Request -> Place] /\ trigger' \in Request \cup {NoRequest}
        /\ doomed' \in [Request -> SUBSET Request] /\ Locked'
    BY <1>3, <2>2, <2>3
  <2> QED BY <1>12, <2>1, <2>4 DEF AppendQueued
<1>13. CASE RecordDispatchFailure(c)
  <2>1. records' \in [Request -> Seq(Record)] /\ keyed' \in Seq(Request)
    BY <1>13, Written DEF RecordDispatchFailure, Status, Terminal
  <2>2. Reply(c, "undispatched", "error") /\ UNCHANGED doomed /\ doomed[c] = {}
        /\ "undispatched" \in Inside /\ "error" \in Answer
    BY <1>5, <1>13 DEF RecordDispatchFailure, Reply, Goto, Inside, Answer
  <2>3. /\ pc' \in [Request -> Place] /\ trigger' \in Request \cup {NoRequest}
        /\ reply' \in [Request -> Answer] /\ Locked'
    BY <1>4, <2>2
  <2> QED BY <1>13, <2>1, <2>3 DEF RecordDispatchFailure
<1>14. CASE SyncRaises(c)
  <2>1. UNCHANGED <<service, faults, now, doomed, records, keyed, message, retries, hist>> /\ doomed[c] = {}
        /\ {"sync", "undispatched"} \subseteq Inside /\ "error" \in Answer
    BY <1>5, <1>14 DEF SyncRaises, Goto, Reply, Inside, Answer
  <2>2. CASE Goto(c, "sync", "undispatched") /\ UNCHANGED <<reply, trigger>>
    <3>1. doomed' = [doomed EXCEPT ![c] = {}]
      BY <1>5, <2>1
    <3>2. /\ pc' \in [Request -> Place] /\ trigger' \in Request \cup {NoRequest}
          /\ doomed' \in [Request -> SUBSET Request] /\ Locked'
      BY <1>3, <2>1, <2>2, <3>1
    <3> QED BY <2>1, <2>2, <3>2
  <2>3. CASE Reply(c, "sync", "error")
    <3>1. /\ pc' \in [Request -> Place] /\ trigger' \in Request \cup {NoRequest}
          /\ reply' \in [Request -> Answer] /\ Locked'
      BY <1>4, <2>1, <2>3
    <3> QED BY <2>1, <3>1
  <2> QED BY <1>14, <2>2, <2>3 DEF SyncRaises
<1> HIDE DEF Types, hist
<1> QED BY <1>1, <1>2, <1>6, <1>7, <1>8, <1>9, <1>10, <1>11, <1>12, <1>13, <1>14 DEF Trigger

\* The steps of a worker, a clock and a dying process.
LEMMA RestKeepsTypes ==
  ASSUME Types, Locked, NEW c \in Request, Tick \/ Leaves(c) \/ Works(c)
  PROVE  Types' /\ Locked'
<1>1. CASE Tick
  BY <1>1, BoundAssumption DEF Tick, Types, Locked, hist
<1>2. CASE Leaves(c)
  <2>1. Types'
    <3>1. CASE RequestDies(c)
      BY <3>1 DEF RequestDies, Types, Place, Message, hist
    <3>2. CASE TriggerRaises(c)
      BY <3>2 DEF TriggerRaises, Reply, Goto, Types, Place, Answer
    <3> QED BY <1>2, <3>1, <3>2 DEF Leaves
  <2>2. /\ trigger = c /\ trigger' = NoRequest
        /\ doomed' = [doomed EXCEPT ![c] = {}]
        /\ pc'[c] \in {"dead", "answered"} /\ \A d \in Request : d # c => pc'[d] = pc[d]
    BY <1>2 DEF Leaves, RequestDies, TriggerRaises, Reply, Goto, Types
  <2>3. Locked'
    <3> SUFFICES ASSUME NEW d \in Request
                 PROVE  /\ pc'[d] \in Inside => trigger' = d
                        /\ doomed'[d] # {} => pc'[d] \in {"give_up", "reconcile"}
      BY DEF Locked
    <3>1. CASE d = c
      BY <2>2, <3>1 DEF Types, Inside
    <3>2. CASE d # c
      <4>1. pc[d] \notin Inside
        BY <2>2, <3>2 DEF Locked
      <4> QED BY <2>2, <3>2, <4>1 DEF Types, Locked
    <3> QED BY <3>1, <3>2
  <2> QED BY <2>1, <2>3
<1>3. \A from, to : Pass(c, from, to) /\ to \in Message => message' \in [Request -> Message]
  BY DEF Pass, Types
<1>4. Redeliver(c) => message' \in [Request -> Message] /\ retries' \in 0 .. MaxRetries
  BY BoundAssumption DEF Redeliver, Types, Message
<1>5. \A status \in Status : Write(c, status, NoKey) =>
        records' \in [Request -> Seq(Record)] /\ keyed' \in Seq(Request)
  BY Written
<1>6. CASE Deliver(c) \/ Acknowledge(c)
  <2>1. message' \in [Request -> Message]
    BY <1>3, <1>6 DEF Deliver, Acknowledge, Message
  <2> QED BY <1>6, <2>1 DEF Deliver, Acknowledge, Types, Locked, hist
<1>7. CASE WorkerQueued(c)
  BY <1>3, <1>5, <1>7 DEF WorkerQueued, Types, Locked, Message, Status, InFlight, hist
<1>8. CASE WorkerRunning(c)
  BY <1>3, <1>5, <1>8 DEF WorkerRunning, Types, Locked, Message, Status, InFlight, hist
<1>9. CASE WorkerCompletes(c)
  BY <1>3, <1>5, <1>9 DEF WorkerCompletes, Types, Locked, Message, Status, Terminal, hist
<1>10. Raise(c) => message' \in [Request -> Message] /\ retries' \in 0 .. MaxRetries
  BY <1>4 DEF Raise, Types, Message
<1>11. Reopen(c) => reopened' \subseteq Request
  BY DEF Reopen, Types
<1>12. CASE WorkerFails(c)
  BY <1>5, <1>10, <1>11, <1>12 DEF WorkerFails, Types, Locked, Status, Terminal
<1>13. CASE WorkerRaises(c)
  <2>1. silent' \subseteq Request
    BY <1>13 DEF WorkerRaises, Types
  <2> QED BY <1>10, <1>11, <1>13, <2>1 DEF WorkerRaises, Types, Locked
<1>14. CASE WorkerDies(c)
  <2>1. silent' \subseteq Request /\ message' \in [Request -> Message] /\ retries' \in 0 .. MaxRetries
    BY <1>4, <1>14 DEF WorkerDies, Types, Message
  <2> QED BY <1>11, <1>14, <2>1 DEF WorkerDies, Types, Locked
<1> QED BY <1>1, <1>2, <1>6, <1>7, <1>8, <1>9, <1>12, <1>13, <1>14 DEF Worker, Works

\* Every step but the clock's is one of these.
LEMMA Steps ==
  Next <=> Tick \/ \E c \in Request : Trigger(c) \/ Leaves(c) \/ Works(c)
BY DEF Next, Leaves, Works

LEMMA TypesKept == Types /\ Locked /\ [Next]_vars => Types' /\ Locked'
<1>1. CASE UNCHANGED vars
  BY <1>1 DEF vars, hist, Types, Locked
<1>2. CASE Tick
  <2>1. CASE Request = {}
    BY <1>2, <2>1, BoundAssumption DEF Tick, hist, Types, Locked
  <2>2. CASE Request # {}
    BY <1>2, <2>2, RestKeepsTypes
  <2> QED BY <2>1, <2>2
<1> QED BY <1>1, <1>2, TriggerKeepsTypes, RestKeepsTypes, Steps

\* Every variable keeps its type, and only the request in the trigger lock has
\* runs to give up.
THEOREM TypeCorrect == Spec => []TypeOK
<1>1. Types /\ Locked => TypeOK
  BY DEF Types, Locked, Inside, TypeOK
<1> QED BY <1>1, Initial, TypesKept, PTL DEF Spec

-----------------------------------------------------------------------------
(***************************************************************************)
(* What is on record                                                       *)
(***************************************************************************)
Before == {"idle", "lookup", "give_up", "reread", "check", "reconcile", "append"}
HasEnded(r, statuses) == \E i \in DOMAIN records[r] : records[r][i].status \in statuses

\* Nothing is known of a run before its request recorded it: what a message
\* asks for, what is given up and what the keyed records name is on record.  A
\* task that raised in its request failed on record or silently, and one that came
\* to its end there has completed.
OnRecord(r) ==
  /\ pc[r] \in Before => records[r] = <<>> /\ message[r] = "unsent"
  /\ pc[r] \in {"send", "undispatched", "sync"} => Recorded(r)
  /\ message[r] # "unsent" => Recorded(r)
  /\ \A q \in doomed[r] : Recorded(q)
  /\ Recorded(r) => records[r][1].status = "queued" /\ records[r][1].key = Key[r]
  /\ reply[r] = "error" => HasEnded(r, {"failed"}) \/ r \in silent
  /\ message[r] = "raised" => HasEnded(r, {"failed"}) \/ r \in silent
  /\ reply[r] = "completed" => HasEnded(r, {"completed"})
  /\ pc[r] = "sync" /\ message[r] \in {"ended", "gone"} => HasEnded(r, {"completed"})

KeyedOnRecord ==
  \A i \in DOMAIN keyed : Recorded(keyed[i]) /\ Key[keyed[i]] # NoKey

RInv == Types /\ Locked /\ KeyedOnRecord /\ \A r \in Request : OnRecord(r)

-----------------------------------------------------------------------------
(***************************************************************************)
(* The stream only grows                                                   *)
(***************************************************************************)
Grow ==
  \A r \in Request :
    /\ Len(records[r]) <= Len(records'[r])
    /\ \A i \in 1 .. Len(records[r]) : records'[r][i] = records[r][i]

LEMMA Lengths ==
  ASSUME Types
  PROVE  \A r \in Request :
           /\ Len(records[r]) \in Nat
           /\ DOMAIN records[r] = 1 .. Len(records[r])
           /\ Recorded(r) <=> Len(records[r]) > 0
<1>1. \A r \in Request : records[r] \in Seq(Record)
  BY DEF Types
<1>2. \A r \in Request : Len(records[r]) \in Nat /\ DOMAIN records[r] = 1 .. Len(records[r])
  BY <1>1, LenProperties
<1>3. \A r \in Request : records[r] = <<>> <=> Len(records[r]) = 0
  BY <1>1, EmptySeq
<1> QED BY <1>2, <1>3 DEF Recorded

LEMMA WriteGrows ==
  ASSUME Types, Types', NEW r \in Request, NEW status \in Status,
         NEW key \in Keys \cup {NoKey}, Write(r, status, key)
  PROVE  /\ Grow
         /\ \A q \in Request : q # r => records'[q] = records[q]
         /\ Recorded(r)'
         /\ Len(records'[r]) = Len(records[r]) + 1
         /\ records'[r][Len(records[r]) + 1].status = status
         /\ records'[r][Len(records[r]) + 1].key = key
<1>1. /\ \A q \in Request : q # r => records'[q] = records[q]
      /\ Len(records'[r]) = Len(records[r]) + 1
      /\ Len(records[r]) \in Nat
      /\ \A i \in 1 .. Len(records[r]) : records'[r][i] = records[r][i]
      /\ records'[r][Len(records[r]) + 1].status = status
      /\ records'[r][Len(records[r]) + 1].key = key
  BY Written
<1>2. Grow
  <2> SUFFICES ASSUME NEW q \in Request
               PROVE  /\ Len(records[q]) <= Len(records'[q])
                      /\ \A i \in 1 .. Len(records[q]) : records'[q][i] = records[q][i]
    BY DEF Grow
  <2>1. Len(records[q]) \in Nat
    BY Lengths
  <2> QED BY <1>1, <2>1
<1>3. Recorded(r)'
  <2>1. records'[r] \in Seq(Record)
    BY DEF Types
  <2>2. records'[r] # <<>>
    BY <1>1, <2>1, EmptySeq
  <2> QED BY <2>2 DEF Recorded
<1> QED BY <1>1, <1>2, <1>3

LEMMA StayGrows ==
  ASSUME Types, records' = records
  PROVE  Grow
BY Lengths DEF Grow

LEMMA Kept ==
  ASSUME Types, Types', Grow, NEW r \in Request
  PROVE  /\ Recorded(r) => Recorded(r)' /\ records'[r][1] = records[r][1]
         /\ \A S : HasEnded(r, S) => HasEnded(r, S)'
<1>1. /\ Len(records[r]) \in Nat /\ DOMAIN records[r] = 1 .. Len(records[r])
      /\ Recorded(r) <=> Len(records[r]) > 0
  BY Lengths
<1>2. /\ Len(records'[r]) \in Nat /\ DOMAIN records'[r] = 1 .. Len(records'[r])
      /\ Recorded(r)' <=> Len(records'[r]) > 0
  <2>1. records'[r] \in Seq(Record)
    BY DEF Types
  <2>2. records'[r] = <<>> <=> Len(records'[r]) = 0
    BY <2>1, EmptySeq
  <2> QED BY <2>1, <2>2, LenProperties DEF Recorded
<1>3. /\ Len(records[r]) <= Len(records'[r])
      /\ \A i \in 1 .. Len(records[r]) : records'[r][i] = records[r][i]
  BY DEF Grow
<1>4. Recorded(r) => Recorded(r)' /\ records'[r][1] = records[r][1]
  BY <1>1, <1>2, <1>3
<1>5. ASSUME NEW S, HasEnded(r, S) PROVE HasEnded(r, S)'
  <2>1. PICK i \in 1 .. Len(records[r]) : records[r][i].status \in S
    BY <1>1, <1>5 DEF HasEnded
  <2>2. i \in DOMAIN records'[r] /\ records'[r][i].status \in S
    BY <1>1, <1>2, <1>3, <2>1
  <2> QED BY <2>2 DEF HasEnded
<1> QED BY <1>4, <1>5

\* What was written last is there.
LEMMA LastEnded ==
  ASSUME Types, NEW r \in Request, NEW S, Recorded(r), LastStatus(r) \in S
  PROVE  HasEnded(r, S)
<1>1. Len(records[r]) \in DOMAIN records[r]
  BY Lengths
<1> QED BY <1>1 DEF LastStatus, Last, HasEnded

LEMMA WriteEnds ==
  ASSUME Types, Types', NEW r \in Request, NEW status \in Status,
         NEW key \in Keys \cup {NoKey}, Write(r, status, key)
  PROVE  \A S : status \in S => HasEnded(r, S)'
<1>1. /\ Len(records'[r]) = Len(records[r]) + 1
      /\ records'[r][Len(records[r]) + 1].status = status
  BY WriteGrows
<1>2. Len(records[r]) \in Nat
  BY Lengths
<1>3. DOMAIN records'[r] = 1 .. Len(records'[r])
  BY LenProperties DEF Types
<1> QED BY <1>1, <1>2, <1>3 DEF HasEnded

\* What happened is not forgotten.
LEMMA HistoryGrows ==
  ASSUME [Next]_vars
  PROVE  silent \subseteq silent' /\ reopened \subseteq reopened'
<1>1. CASE Tick \/ UNCHANGED vars
  BY <1>1 DEF Tick, vars, hist
<1>2. ASSUME NEW c \in Request, Trigger(c)
      PROVE  silent \subseteq silent' /\ reopened \subseteq reopened'
  BY <1>2 DEF Trigger, AcquireTrigger, TriggerBusy, LookupNothing, LookupReplays, LookupStale,
     GiveUpKeyed, Reread, CheckConflict, CheckFree, MarkStale, Reconciled, AppendQueued, Send,
     SendFails, RecordDispatchFailure, RunsItself, SyncCompletes, SyncRaises, hist
<1>3. ASSUME NEW c \in Request, Leaves(c)
      PROVE  silent \subseteq silent' /\ reopened \subseteq reopened'
  BY <1>3 DEF Leaves, RequestDies, TriggerRaises, hist
<1>4. ASSUME NEW c \in Request, Works(c)
      PROVE  silent \subseteq silent' /\ reopened \subseteq reopened'
  BY <1>4 DEF Works, Worker, Deliver, WorkerQueued, WorkerRunning, WorkerCompletes, Acknowledge,
     WorkerFails, WorkerRaises, WorkerDies, Reopen, hist
<1> QED BY <1>1, <1>2, <1>3, <1>4, Steps

-----------------------------------------------------------------------------
(***************************************************************************)
(* Requests and their records                                              *)
(***************************************************************************)
\* A run nobody moves, though somebody may append to it.
LEMMA Steady ==
  ASSUME Types, Types', Grow, NEW r \in Request, OnRecord(r),
         pc'[r] = pc[r], message'[r] = message[r], doomed'[r] = doomed[r], reply'[r] = reply[r],
         records'[r] = records[r] \/ Recorded(r), silent \subseteq silent'
  PROVE  OnRecord(r)'
<1>1. /\ Recorded(r) => Recorded(r)' /\ records'[r][1] = records[r][1]
      /\ \A S : HasEnded(r, S) => HasEnded(r, S)'
  BY Kept
<1>2. \A q \in doomed'[r] : Recorded(q)'
  <2>1. \A q \in doomed[r] : q \in Request /\ Recorded(q)
    BY DEF OnRecord, Types
  <2> QED BY <2>1, Kept
<1>3. (Recorded(r) => records[r][1].status = "queued" /\ records[r][1].key = Key[r])'
  BY <1>1 DEF OnRecord, Recorded
<1>4. (pc[r] \in Before => records[r] = <<>> /\ message[r] = "unsent")'
  BY DEF OnRecord, Recorded
<1>5. /\ (pc[r] \in {"send", "undispatched", "sync"} => Recorded(r))'
      /\ (message[r] # "unsent" => Recorded(r))'
  BY <1>1 DEF OnRecord
<1>6. /\ (reply[r] = "error" => HasEnded(r, {"failed"}) \/ r \in silent)'
      /\ (message[r] = "raised" => HasEnded(r, {"failed"}) \/ r \in silent)'
      /\ (reply[r] = "completed" => HasEnded(r, {"completed"}))'
      /\ (pc[r] = "sync" /\ message[r] \in {"ended", "gone"} => HasEnded(r, {"completed"}))'
  BY <1>1 DEF OnRecord
<1> QED BY <1>2, <1>3, <1>4, <1>5, <1>6 DEF OnRecord

\* A request that has written nothing yet.
LEMMA Unrecorded ==
  ASSUME Types, NEW c \in Request, OnRecord(c), pc[c] \in Before,
         pc'[c] \in Before \/ pc'[c] \in {"answered", "dead"},
         records'[c] = records[c], message'[c] = message[c],
         reply'[c] = reply[c] \/ reply'[c] \in {"conflict", "replay"},
         \A q \in doomed'[c] : Recorded(q)', silent \subseteq silent'
  PROVE  OnRecord(c)'
<1>1. records'[c] = <<>> /\ message'[c] = "unsent" /\ ~Recorded(c)'
  BY DEF OnRecord, Recorded
<1>2. reply'[c] # "completed" /\ (reply'[c] = "error" => c \in silent')
  <2>1. records[c] = <<>> /\ DOMAIN records[c] = {}
    BY EmptySeq DEF OnRecord
  <2>2. \A S : ~HasEnded(c, S)
    BY <2>1 DEF HasEnded
  <2> QED BY <2>2 DEF OnRecord
<1>3. pc'[c] \notin {"send", "undispatched", "sync"}
  BY DEF Before
<1> QED BY <1>1, <1>2, <1>3 DEF OnRecord

\* A request that has.
LEMMA Going ==
  ASSUME Types, Types', Grow, NEW c \in Request, OnRecord(c), Recorded(c),
         pc'[c] \notin Before, \A q \in doomed'[c] : Recorded(q)',
         silent \subseteq silent',
         reply'[c] = "error" =>
           reply[c] = "error" \/ message[c] = "raised" \/ HasEnded(c, {"failed"})' \/ c \in silent',
         message'[c] = "raised" =>
           message[c] = "raised" \/ HasEnded(c, {"failed"})' \/ c \in silent',
         reply'[c] = "completed" => reply[c] = "completed" \/ HasEnded(c, {"completed"})',
         pc'[c] = "sync" /\ message'[c] \in {"ended", "gone"} =>
           (pc[c] = "sync" /\ message[c] \in {"ended", "gone"}) \/ HasEnded(c, {"completed"})'
  PROVE  OnRecord(c)'
<1>1. /\ Recorded(c)' /\ records'[c][1] = records[c][1]
      /\ \A S : HasEnded(c, S) => HasEnded(c, S)'
  BY Kept
<1> QED BY <1>1 DEF OnRecord

LEMMA RecordsInitially == Init => KeyedOnRecord /\ \A r \in Request : OnRecord(r)
<1> SUFFICES ASSUME Init PROVE KeyedOnRecord /\ \A r \in Request : OnRecord(r)
  OBVIOUS
<1>1. DOMAIN keyed = {}
  BY EmptySeq DEF Init
<1> QED BY <1>1 DEF Init, KeyedOnRecord, OnRecord, Recorded, Before

\* Only a run on record is written, but for the one a request records.
Known ==
  /\ service' = service
  /\ keyed' = keyed
  /\ \A q \in Request : records'[q] = records[q] \/ Recorded(q)

LEMMA WriteKnown ==
  ASSUME Types, Types', NEW r \in Request, Recorded(r), NEW status \in Status,
         Write(r, status, NoKey), service' = service
  PROVE  Grow /\ Known
<1>1. Grow /\ \A q \in Request : q # r => records'[q] = records[q]
  BY WriteGrows
<1>2. keyed' = keyed
  BY DEF Write
<1> QED BY <1>1, <1>2 DEF Known

LEMMA StepShape ==
  ASSUME RInv, Types', [Next]_vars, \A c \in Request : ~AppendQueued(c)
  PROVE  Grow /\ Known
<1>1. Types /\ \A r \in Request : OnRecord(r)
  BY DEF RInv
<1>2. CASE UNCHANGED <<service, records, keyed>>
  BY <1>1, <1>2, StayGrows DEF Known
<1>3. ASSUME NEW c \in Request, Trigger(c) PROVE Grow /\ Known
  <2>1. CASE GiveUpKeyed(c) \/ MarkStale(c)
    <3>1. PICK r \in doomed[c] : Write(r, "failed", NoKey) /\ service' = service
      BY <2>1 DEF GiveUpKeyed, MarkStale
    <3>2. r \in Request /\ Recorded(r)
      BY <1>1, <3>1 DEF OnRecord, Types
    <3> QED BY <1>1, <3>1, <3>2, WriteKnown DEF Status, Terminal
  <2>2. CASE RecordDispatchFailure(c)
    <3>1. Write(c, "failed", NoKey) /\ service' = service /\ Recorded(c)
      BY <1>1, <2>2 DEF RecordDispatchFailure, Reply, Goto, OnRecord
    <3> QED BY <1>1, <3>1, WriteKnown DEF Status, Terminal
  <2>3. CASE ~(GiveUpKeyed(c) \/ MarkStale(c)) /\ ~RecordDispatchFailure(c)
    <3>1. UNCHANGED <<service, records, keyed>>
      BY <1>3, <2>3 DEF Trigger, AcquireTrigger, TriggerBusy, LookupNothing, LookupReplays,
         LookupStale, Reread, CheckConflict, CheckFree, Reconciled, Send, SendFails, RunsItself,
         SyncCompletes, SyncRaises
    <3> QED BY <1>2, <3>1
  <2> QED BY <2>1, <2>2, <2>3
<1>4. ASSUME NEW r \in Request, Worker(r) PROVE Grow /\ Known
  <2>1. message[r] # "unsent" /\ service' = service
    BY <1>4 DEF Worker, Deliver, WorkerQueued, WorkerRunning, WorkerCompletes, Acknowledge,
       WorkerFails, Pass
  <2>2. Recorded(r)
    BY <1>1, <2>1 DEF OnRecord
  <2>3. CASE Deliver(r) \/ Acknowledge(r)
    BY <1>2, <2>3 DEF Deliver, Acknowledge
  <2>4. CASE ~Deliver(r) /\ ~Acknowledge(r)
    <3>1. PICK status \in Status : Write(r, status, NoKey)
      BY <1>4, <2>4 DEF Worker, WorkerQueued, WorkerRunning, WorkerCompletes, WorkerFails,
         Status, InFlight, Terminal
    <3> QED BY <1>1, <2>1, <2>2, <3>1, WriteKnown
  <2> QED BY <2>3, <2>4
<1>5. CASE Tick \/ \E r \in Request : Leaves(r) \/ WorkerRaises(r) \/ WorkerDies(r)
  <2>1. UNCHANGED <<service, records, keyed>>
    BY <1>5 DEF Tick, Leaves, RequestDies, TriggerRaises, WorkerRaises, WorkerDies
  <2> QED BY <1>2, <2>1
<1> QED BY <1>2, <1>3, <1>4, <1>5, Steps DEF Works, vars

\* A run is recorded with the key of its request.
LEMMA Recording ==
  ASSUME RInv, Types', NEW c \in Request, AppendQueued(c)
  PROVE  /\ Grow /\ Recorded(c)' /\ service' = service
         /\ pc[c] = "append" /\ records[c] = <<>>
         /\ Len(records'[c]) = 1
         /\ records'[c][1].status = "queued" /\ records'[c][1].key = Key[c]
         /\ \A q \in Request : q # c => records'[q] = records[q]
         /\ keyed' = IF Key[c] = NoKey THEN keyed ELSE Append(keyed, c)
<1>1. Write(c, "queued", Key[c]) /\ Key[c] \in Keys \cup {NoKey} /\ "queued" \in Status
  BY DEF AppendQueued, Keys, Status, InFlight
<1>2. pc[c] = "append" /\ records[c] = <<>> /\ Len(records[c]) = 0
  <2>1. pc[c] = "append" /\ records[c] = <<>>
    BY DEF AppendQueued, Goto, RInv, OnRecord, Before
  <2> QED BY <2>1, EmptySeq
<1>3. /\ Grow /\ Recorded(c)' /\ Len(records'[c]) = 1
      /\ records'[c][1].status = "queued" /\ records'[c][1].key = Key[c]
      /\ \A q \in Request : q # c => records'[q] = records[q]
  <2> DEFINE n == Len(records[c]) + 1
  <2>1. Types /\ n = 1
    BY <1>2 DEF RInv
  <2> HIDE DEF n
  <2>2. /\ Grow /\ Recorded(c)' /\ Len(records'[c]) = n
        /\ records'[c][n].status = "queued" /\ records'[c][n].key = Key[c]
        /\ \A q \in Request : q # c => records'[q] = records[q]
    BY <1>1, <2>1, WriteGrows DEF n
  <2> QED BY <2>1, <2>2
<1> QED BY <1>1, <1>2, <1>3 DEF Write, AppendQueued

LEMMA KeyedKept ==
  ASSUME RInv, Types', [Next]_vars
  PROVE  Grow /\ KeyedOnRecord'
<1>1. Types /\ KeyedOnRecord /\ Len(keyed) \in Nat /\ DOMAIN keyed = 1 .. Len(keyed)
      /\ \A i \in DOMAIN keyed : keyed[i] \in Request
  BY LenProperties, ElementOfSeq DEF RInv, Types
<1>2. CASE \A c \in Request : ~AppendQueued(c)
  <2>1. Grow /\ keyed' = keyed
    BY <1>2, StepShape DEF Known
  <2> SUFFICES ASSUME NEW i \in DOMAIN keyed
               PROVE  Recorded(keyed[i])' /\ Key[keyed[i]] # NoKey
    BY <2>1 DEF KeyedOnRecord
  <2>2. PICK q \in Request : q = keyed[i]
    BY <1>1
  <2>3. Recorded(q)'
    BY <1>1, <2>1, <2>2, Kept DEF KeyedOnRecord
  <2> QED BY <1>1, <2>1, <2>2, <2>3 DEF KeyedOnRecord, Recorded
<1>3. ASSUME NEW c \in Request, AppendQueued(c) PROVE Grow /\ KeyedOnRecord'
  <2>1. /\ Grow /\ Recorded(c)'
        /\ keyed' = IF Key[c] = NoKey THEN keyed ELSE Append(keyed, c)
    BY <1>3, Recording
  <2>2. \A i \in DOMAIN keyed : Recorded(keyed[i])' /\ Key[keyed[i]] # NoKey
    <3> SUFFICES ASSUME NEW i \in DOMAIN keyed
                 PROVE  Recorded(keyed[i])' /\ Key[keyed[i]] # NoKey
      OBVIOUS
    <3>1. PICK q \in Request : q = keyed[i]
      BY <1>1
    <3> QED BY <1>1, <2>1, <3>1, Kept DEF KeyedOnRecord, Recorded
  <2>3. CASE Key[c] = NoKey
    BY <2>1, <2>2, <2>3 DEF KeyedOnRecord, Recorded
  <2>4. CASE Key[c] # NoKey
    <3>1. /\ keyed' = Append(keyed, c) /\ Len(keyed') = Len(keyed) + 1
          /\ \A i \in DOMAIN keyed : keyed'[i] = keyed[i]
          /\ keyed'[Len(keyed) + 1] = c /\ DOMAIN keyed' = 1 .. (Len(keyed) + 1)
      BY <1>1, <2>1, <2>4, AppendProperties, LenProperties DEF Types
    <3> QED BY <1>1, <2>1, <2>2, <2>4, <3>1 DEF KeyedOnRecord, Recorded
  <2> QED BY <2>1, <2>3, <2>4
<1> QED BY <1>2, <1>3

\* The steps of a request leave its run on record.
LEMMA TriggerOnRecord ==
  ASSUME RInv, Types', Grow, NEW c \in Request, Trigger(c), silent \subseteq silent'
  PROVE  OnRecord(c)'
<1>1. Types /\ OnRecord(c) /\ Locked /\ KeyedOnRecord
  BY DEF RInv
<1>2. \A q \in Request : Recorded(q) => Recorded(q)'
  BY <1>1, Kept
<1>3. \A q \in doomed[c] : q \in Request /\ Recorded(q)
  BY <1>1 DEF OnRecord, Types
<1>4. CASE AcquireTrigger(c) \/ TriggerBusy(c) \/ LookupNothing(c) \/ LookupReplays(c)
           \/ Reread(c) \/ CheckConflict(c) \/ Reconciled(c)
  <2>1. /\ pc[c] \in Before /\ pc'[c] \in Before \cup {"answered", "dead"}
        /\ UNCHANGED <<records, message, doomed>>
        /\ reply'[c] = reply[c] \/ reply'[c] \in {"conflict", "replay"}
    BY <1>1, <1>4 DEF AcquireTrigger, TriggerBusy, LookupNothing, LookupReplays, Reread,
       CheckConflict, Reconciled, Goto, Reply, Entered, Before, Types
  <2> QED BY <1>1, <1>2, <1>3, <2>1, Unrecorded
<1>5. CASE LookupStale(c)
  <2>1. PICK i \in WithKey(Key[c]) : doomed' = [doomed EXCEPT ![c] = {keyed[i]}]
    BY <1>1, <1>5, KeyedPositions DEF LookupStale, LatestRunWithKey
  <2>2. Recorded(keyed[i]) /\ doomed'[c] = {keyed[i]}
    BY <1>1, <2>1 DEF WithKey, KeyedOnRecord, Types
  <2>3. /\ pc[c] \in Before /\ pc'[c] \in Before /\ UNCHANGED <<records, message, reply>>
    BY <1>1, <1>5 DEF LookupStale, Goto, Before, Types
  <2>4. \A q \in doomed'[c] : Recorded(q)'
    BY <2>2, <2>3 DEF Recorded
  <2> QED BY <1>1, <2>3, <2>4, Unrecorded
<1>6. CASE CheckFree(c)
  <2>1. /\ pc[c] \in Before /\ pc'[c] \in Before /\ UNCHANGED <<records, message, reply>>
        /\ doomed'[c] = GivenUp
    BY <1>1, <1>6 DEF CheckFree, Goto, Before, Types
  <2>2. \A q \in doomed'[c] : Recorded(q)'
    BY <1>2, <2>1 DEF GivenUp
  <2> QED BY <1>1, <2>1, <2>2, Unrecorded
<1>7. CASE GiveUpKeyed(c) \/ MarkStale(c)
  <2>1. PICK r \in doomed[c] : Write(r, "failed", NoKey)
    BY <1>7 DEF GiveUpKeyed, MarkStale
  <2>2. /\ pc[c] \in Before /\ pc'[c] \in Before /\ UNCHANGED <<message, reply>>
        /\ doomed'[c] \subseteq doomed[c]
    BY <1>1, <1>7 DEF GiveUpKeyed, MarkStale, Goto, Before, Types
  <2>3. r \in Request /\ r # c
    BY <1>1, <1>3, <2>2 DEF OnRecord, Recorded
  <2>4. records'[c] = records[c]
    BY <1>1, <2>1, <2>3, WriteGrows DEF Status, Terminal
  <2> QED BY <1>1, <1>2, <1>3, <2>2, <2>4, Unrecorded
<1>8. CASE AppendQueued(c)
  <2>1. /\ Recorded(c)' /\ pc'[c] = "send" /\ UNCHANGED <<message, reply, doomed>>
        /\ records'[c][1].status = "queued" /\ records'[c][1].key = Key[c]
    BY <1>1, <1>8, Recording DEF AppendQueued, Goto, Types
  <2>2. \A q \in doomed'[c] : Recorded(q)'
    BY <1>2, <1>3, <2>1
  <2>3. /\ (reply[c] = "error" => HasEnded(c, {"failed"}) \/ c \in silent)'
        /\ (message[c] = "raised" => HasEnded(c, {"failed"}) \/ c \in silent)'
        /\ (reply[c] = "completed" => HasEnded(c, {"completed"}))'
    BY <1>1, <2>1, Kept DEF OnRecord
  <2> QED BY <2>1, <2>2, <2>3 DEF OnRecord, Before
<1>9. CASE Send(c) \/ SendFails(c) \/ RunsItself(c)
  <2>1. /\ pc[c] \in {"send", "undispatched"} /\ pc'[c] \notin Before
        /\ UNCHANGED <<records, doomed>>
        /\ reply'[c] = reply[c] \/ reply'[c] = "queued"
        /\ message'[c] = "raised" => message[c] = "raised"
        /\ ~(pc'[c] = "sync" /\ message'[c] \in {"ended", "gone"})
    BY <1>1, <1>9 DEF Send, SendFails, RunsItself, Goto, Reply, Before, Types
  <2>2. Recorded(c)
    BY <1>1, <2>1 DEF OnRecord
  <2> QED BY <1>1, <1>2, <1>3, <2>1, <2>2, Going
<1>10. CASE RecordDispatchFailure(c)
  <2>1. /\ pc[c] = "undispatched" /\ pc'[c] \notin Before /\ doomed' = doomed
        /\ reply'[c] = "error" /\ Write(c, "failed", NoKey) /\ message' = message
        /\ pc'[c] # "sync"
    BY <1>1, <1>10 DEF RecordDispatchFailure, Goto, Reply, Before, Types
  <2>2. Recorded(c) /\ HasEnded(c, {"failed"})'
    BY <1>1, <2>1, WriteEnds DEF OnRecord, Status, Terminal
  <2> QED BY <1>1, <1>2, <1>3, <2>1, <2>2, Going
<1>11. CASE SyncCompletes(c) \/ SyncRaises(c)
  <2>1. /\ pc[c] = "sync" /\ pc'[c] \notin Before /\ UNCHANGED <<records, doomed>>
        /\ message' = message /\ pc'[c] # "sync"
        /\ reply'[c] = "error" => reply[c] = "error" \/ message[c] = "raised"
        /\ reply'[c] = "completed" => reply[c] = "completed" \/ message[c] = "gone"
    BY <1>1, <1>11 DEF SyncCompletes, SyncRaises, Goto, Reply, Before, Types
  <2>2. Recorded(c)
    BY <1>1, <2>1 DEF OnRecord
  <2>3. message[c] = "gone" => HasEnded(c, {"completed"})'
    BY <1>1, <2>1, Kept DEF OnRecord
  <2> QED BY <1>1, <1>2, <1>3, <2>1, <2>2, <2>3, Going
<1> QED BY <1>4, <1>5, <1>6, <1>7, <1>8, <1>9, <1>10, <1>11 DEF Trigger

LEMMA RestOnRecord ==
  ASSUME RInv, Types', Grow, NEW r \in Request, Leaves(r) \/ Works(r), silent \subseteq silent'
  PROVE  OnRecord(r)'
<1>1. Types /\ OnRecord(r)
  BY DEF RInv
<1>2. \A q \in doomed[r] : Recorded(q)'
  <2>1. \A q \in doomed[r] : q \in Request /\ Recorded(q)
    BY <1>1 DEF OnRecord, Types
  <2> QED BY <1>1, <2>1, Kept
<1>3. CASE Leaves(r)
  <2>1. /\ pc'[r] \in {"dead", "answered"} /\ doomed'[r] = {} /\ records' = records
        /\ reply'[r] = reply[r] \/ (reply'[r] = "error" /\ r \in silent')
        /\ message'[r] = message[r] \/ (message'[r] = "gone" /\ pc[r] = "sync")
    BY <1>1, <1>3 DEF Leaves, RequestDies, TriggerRaises, Reply, Goto, Types
  <2>2. pc'[r] \notin Before \cup {"send", "undispatched", "sync"}
    BY <2>1 DEF Before
  <2>3. /\ Recorded(r)' <=> Recorded(r)
        /\ \A S : HasEnded(r, S)' <=> HasEnded(r, S)
    BY <2>1 DEF Recorded, HasEnded
  <2>4. message'[r] # "unsent" => Recorded(r)
    BY <1>1, <2>1 DEF OnRecord
  <2> QED BY <1>1, <2>1, <2>2, <2>3, <2>4 DEF OnRecord
<1>4. CASE Works(r)
  <2>1. message[r] # "unsent" /\ UNCHANGED <<pc, doomed, reply>>
    BY <1>4 DEF Works, Worker, Deliver, WorkerQueued, WorkerRunning, WorkerCompletes, Acknowledge,
       WorkerFails, WorkerRaises, WorkerDies, AtWorker, Pass
  <2>2. Recorded(r) /\ pc[r] \notin Before
    BY <1>1, <2>1 DEF OnRecord
  <2>3. message'[r] = "raised" =>
          message[r] = "raised" \/ HasEnded(r, {"failed"})' \/ r \in silent'
    <3>1. CASE WorkerFails(r)
      <4>1. Write(r, "failed", NoKey)
        BY <3>1 DEF WorkerFails
      <4> QED BY <1>1, <4>1, WriteEnds DEF Status, Terminal
    <3>2. CASE WorkerRaises(r)
      BY <3>2 DEF WorkerRaises
    <3>3. CASE ~WorkerFails(r) /\ ~WorkerRaises(r)
      BY <1>1, <1>4, <3>3 DEF Works, Worker, Deliver, WorkerQueued, WorkerRunning,
         WorkerCompletes, Acknowledge, WorkerDies, Redeliver, Pass, Types
    <3> QED BY <3>1, <3>2, <3>3
  <2>4. pc[r] = "sync" /\ message'[r] \in {"ended", "gone"} =>
          message[r] \in {"ended", "gone"} \/ HasEnded(r, {"completed"})'
    <3>1. CASE WorkerCompletes(r)
      <4>1. Write(r, "completed", NoKey)
        BY <3>1 DEF WorkerCompletes
      <4> QED BY <1>1, <4>1, WriteEnds DEF Status, Terminal
    <3>2. CASE WorkerFails(r) \/ WorkerRaises(r)
      <4>1. pc[r] = "sync" => message'[r] = "raised"
        BY <1>1, <3>2 DEF WorkerFails, WorkerRaises, Raise, Types
      <4> QED BY <4>1
    <3>3. CASE ~WorkerCompletes(r) /\ ~WorkerFails(r) /\ ~WorkerRaises(r)
      BY <1>1, <1>4, <3>3 DEF Works, Worker, Deliver, WorkerQueued, WorkerRunning, Acknowledge,
         WorkerDies, Pass, Types
    <3> QED BY <3>1, <3>2, <3>3
  <2> QED BY <1>1, <1>2, <2>1, <2>2, <2>3, <2>4, Going
<1> QED BY <1>3, <1>4

\* Who is not moved.
LEMMA NotMoved ==
  ASSUME Types, NEW c \in Request, NEW r \in Request, r # c,
         Trigger(c) \/ Leaves(c) \/ Works(c)
  PROVE  /\ pc'[r] = pc[r] /\ message'[r] = message[r]
         /\ doomed'[r] = doomed[r] /\ reply'[r] = reply[r]
<1> USE DEF Types
<1>1. CASE Trigger(c)
  BY <1>1 DEF Trigger, AcquireTrigger, TriggerBusy, LookupNothing, LookupReplays, LookupStale,
     GiveUpKeyed, Reread, CheckConflict, CheckFree, MarkStale, Reconciled, AppendQueued, Send,
     SendFails, RecordDispatchFailure, RunsItself, SyncCompletes, SyncRaises, Goto, Reply
<1>2. CASE Leaves(c)
  BY <1>2 DEF Leaves, RequestDies, TriggerRaises, Reply, Goto
<1>3. CASE Works(c)
  BY <1>3 DEF Works, Worker, Deliver, WorkerQueued, WorkerRunning, WorkerCompletes, Acknowledge,
     WorkerFails, WorkerRaises, WorkerDies, Raise, Pass, Redeliver
<1> QED BY <1>1, <1>2, <1>3

LEMMA LeavesTo ==
  ASSUME Types, NEW c \in Request, Leaves(c)
  PROVE  pc'[c] \in {"dead", "answered"} /\ doomed'[c] = {} /\ records' = records
BY DEF Leaves, RequestDies, TriggerRaises, Reply, Goto, Types

LEMMA WorksOutside ==
  ASSUME NEW c \in Request, Works(c)
  PROVE  pc' = pc /\ doomed' = doomed
BY DEF Works, Worker, Deliver, WorkerQueued, WorkerRunning, WorkerCompletes, Acknowledge,
   WorkerFails, WorkerRaises, WorkerDies

LEMMA RecordsKept == RInv /\ [Next]_vars => RInv'
<1> SUFFICES ASSUME RInv, [Next]_vars PROVE RInv'
  OBVIOUS
<1>1. Types /\ Types' /\ Locked'
  BY TypesKept DEF RInv
<1>2. Grow /\ KeyedOnRecord' /\ silent \subseteq silent'
  BY <1>1, KeyedKept, HistoryGrows
<1>3. ASSUME NEW r \in Request PROVE OnRecord(r)'
  <2>1. OnRecord(r)
    BY DEF RInv
  <2>2. records'[r] = records[r] \/ Recorded(r) \/ AppendQueued(r)
    <3>1. CASE \A c \in Request : ~AppendQueued(c)
      BY <1>1, <3>1, StepShape DEF Known
    <3>2. CASE \E c \in Request : AppendQueued(c)
      BY <1>1, <3>2, Recording
    <3> QED BY <3>1, <3>2
  <2>3. CASE UNCHANGED <<pc, message, doomed, reply, records>>
    BY <1>1, <1>2, <2>1, <2>3, Steady
  <2>4. CASE Tick \/ UNCHANGED vars
    BY <2>3, <2>4 DEF Tick, vars
  <2>5. ASSUME NEW c \in Request, c # r, Trigger(c) \/ Leaves(c) \/ Works(c)
        PROVE  OnRecord(r)'
    <3>1. ~AppendQueued(r) \/ (pc[r] = "append" /\ pc'[r] = "send")
      BY <1>1 DEF AppendQueued, Goto, Types
    <3>2. /\ pc'[r] = pc[r] /\ message'[r] = message[r]
          /\ doomed'[r] = doomed[r] /\ reply'[r] = reply[r]
      BY <1>1, <2>5, NotMoved
    <3>3. records'[r] = records[r] \/ Recorded(r)
      BY <2>2, <3>1, <3>2
    <3> QED BY <1>1, <1>2, <2>1, <3>2, <3>3, Steady
  <2> QED BY <1>1, <1>2, <2>4, <2>5, TriggerOnRecord, RestOnRecord, Steps
<1> QED BY <1>1, <1>2, <1>3 DEF RInv

THEOREM RecordInvariance == Spec => []RInv
<1>1. Init => RInv
  BY Initial, RecordsInitially DEF RInv
<1> QED BY <1>1, RecordsKept, PTL DEF Spec

\* The history of a run begins with the record of its request and its key; a
\* request answered as completed finds that on record, and one answered with an
\* error does unless an exception went past the records.
THEOREM RequestsAreRecordedHolds == Spec => []RequestsAreRecordedUnlessSilent
<1>1. RInv => RequestsAreRecordedUnlessSilent
  BY DEF RInv, OnRecord, HasEnded, RequestsAreRecordedUnlessSilent, RequestRecordsFirst,
     AnswersAreRecordedUnlessSilent
<1> QED BY <1>1, RecordInvariance, PTL

-----------------------------------------------------------------------------
(***************************************************************************)
(* Runs in flight                                                          *)
(***************************************************************************)
HasTerminal(r) == HasEnded(r, Terminal)

\* Two runs on record, one of them has ended: who checked while it holds the
\* lock has seen every run end or will give it up.
OneAlive ==
  /\ \A q, r \in Request : (q # r /\ Recorded(q) /\ Recorded(r)) => HasTerminal(q) \/ HasTerminal(r)
  /\ \A c, r \in Request : Recorded(r) =>
       /\ pc[c] = "reconcile" => HasTerminal(r) \/ r \in doomed[c]
       /\ pc[c] = "append" => HasTerminal(r)


\* The record that stands for a run is one of its records.
LEMMA LatestIsThere ==
  ASSUME Types, NEW r \in Request, Recorded(r)
  PROVE  \E i \in DOMAIN records[r] : Latest(r) = records[r][i]
<1>1. Len(records[r]) \in Nat /\ DOMAIN records[r] = 1 .. Len(records[r]) /\ Len(records[r]) > 0
  BY Lengths
<1>2. Last(records[r]) = records[r][Len(records[r])] /\ Len(records[r]) \in DOMAIN records[r]
  BY <1>1 DEF Last
<1>3. Ended(r) # {} => Max(Ended(r)) \in DOMAIN records[r]
  BY <1>1, Greatest DEF Ended
<1> QED BY <1>2, <1>3 DEF Latest, Collapsed

LEMMA InFlightIsSeen ==
  ASSUME Types, NEW r \in Request, Recorded(r), ~HasTerminal(r), ~Fresh(r)
  PROVE  r \in GivenUp
<1>1. PICK i \in DOMAIN records[r] : Latest(r) = records[r][i]
  BY LatestIsThere
<1>2. records[r][i] \in Record
  BY ElementOfSeq, Lengths DEF Types
<1>3. Latest(r).status \in InFlight /\ Latest(r).at \in Nat /\ now \in Nat
  BY <1>1, <1>2, BoundAssumption DEF Record, Status, HasTerminal, HasEnded, Types
<1> QED BY <1>3, BoundAssumption DEF Fresh, GivenUp, LooksFresh, LooksStale

LEMMA OneAliveInitially == Init => OneAlive
BY DEF Init, OneAlive, Recorded

LEMMA OneAliveKept ==
  ASSUME RInv, RInv', OneAlive, [Next]_vars
  PROVE  OneAlive'
<1>1. Types /\ Types' /\ Locked /\ Grow
  BY KeyedKept DEF RInv
<1>2. \A r \in Request : HasTerminal(r) => HasTerminal(r)'
  BY <1>1, Kept DEF HasTerminal
<1>3. ASSUME NEW c \in Request, AppendQueued(c) PROVE OneAlive'
  <2>1. /\ pc[c] = "append" /\ trigger = c /\ pc'[c] = "send"
        /\ \A q \in Request : q # c => records'[q] = records[q] /\ pc'[q] = pc[q]
    <3>1. pc[c] = "append" /\ \A q \in Request : q # c => records'[q] = records[q]
      BY <1>1, <1>3, Recording
    <3>2. pc'[c] = "send" /\ \A q \in Request : q # c => pc'[q] = pc[q]
      BY <1>1, <1>3 DEF AppendQueued, Goto, Types
    <3> QED BY <1>1, <3>1, <3>2 DEF Locked, Inside
  <2>2. \A q \in Request : q # c /\ Recorded(q)' => HasTerminal(q)'
    BY <1>2, <2>1 DEF OneAlive, Recorded
  <2>3. \A d \in Request : pc'[d] \notin {"reconcile", "append"}
    BY <1>1, <2>1 DEF Locked, Inside
  <2> QED BY <2>2, <2>3 DEF OneAlive
<1>4. CASE \A c \in Request : ~AppendQueued(c)
  <2>1. \A r \in Request : Recorded(r)' => Recorded(r)
    BY <1>1, <1>4, StepShape DEF Known, Recorded
  <2>2. \A q, r \in Request : (q # r /\ Recorded(q)' /\ Recorded(r)') =>
          HasTerminal(q)' \/ HasTerminal(r)'
    BY <1>2, <2>1 DEF OneAlive
  <2>3. ASSUME NEW c \in Request, pc'[c] = pc[c], doomed'[c] = doomed[c], NEW r \in Request, Recorded(r)'
        PROVE  /\ pc'[c] = "reconcile" => HasTerminal(r)' \/ r \in doomed'[c]
               /\ pc'[c] = "append" => HasTerminal(r)'
    BY <1>2, <2>1, <2>3 DEF OneAlive
  <2>4. ASSUME NEW c \in Request, Trigger(c), NEW r \in Request, Recorded(r)'
        PROVE  /\ pc'[c] = "reconcile" => HasTerminal(r)' \/ r \in doomed'[c]
               /\ pc'[c] = "append" => HasTerminal(r)'
    <3>1. Recorded(r)
      BY <2>1, <2>4
    <3>2. CASE CheckFree(c)
      <4>1. pc'[c] = "reconcile" /\ doomed'[c] = GivenUp /\ ~Fresh(r)
        BY <1>1, <3>2 DEF CheckFree, Goto, Types
      <4> QED BY <1>1, <1>2, <3>1, <4>1, InFlightIsSeen
    <3>3. CASE MarkStale(c)
      <4>1. pc[c] = "reconcile" /\ pc' = pc
        BY <3>3 DEF MarkStale
      <4>2. PICK q \in doomed[c] : Write(q, "failed", NoKey) /\ doomed'[c] = doomed[c] \ {q}
        BY <1>1, <3>3 DEF MarkStale, Types
      <4>3. HasTerminal(q)'
        <5>1. q \in Request /\ "failed" \in Status /\ "failed" \in Terminal
          BY <1>1, <4>2 DEF Types, Status, Terminal
        <5> QED BY <1>1, <4>2, <5>1, WriteEnds DEF HasTerminal
      <4>4. HasTerminal(r) \/ r \in doomed[c]
        BY <3>1, <4>1 DEF OneAlive
      <4> QED BY <1>2, <4>1, <4>2, <4>3, <4>4
    <3>4. CASE Reconciled(c)
      <4>1. pc[c] = "reconcile" /\ pc'[c] = "append" /\ doomed[c] = {}
        BY <1>1, <3>4 DEF Reconciled, Goto, Types
      <4> QED BY <1>2, <3>1, <4>1 DEF OneAlive
    <3>5. CASE ~CheckFree(c) /\ ~MarkStale(c) /\ ~Reconciled(c)
      <4>1. pc'[c] \notin {"reconcile", "append"}
        BY <1>1, <1>4, <2>4, <3>5 DEF Trigger, AcquireTrigger, TriggerBusy, LookupNothing,
           LookupReplays, LookupStale, GiveUpKeyed, Reread, CheckConflict, Send, SendFails,
           RecordDispatchFailure, RunsItself, SyncCompletes, SyncRaises, Goto, Reply, Entered,
           Types
      <4> QED BY <4>1
    <3> QED BY <3>2, <3>3, <3>4, <3>5
  <2>5. ASSUME NEW c \in Request, Leaves(c) PROVE pc'[c] \in {"dead", "answered"}
    BY <1>1, <2>5, LeavesTo
  <2>6. ASSUME NEW c \in Request, Works(c) PROVE UNCHANGED <<pc, doomed>>
    BY <2>6, WorksOutside
  <2>7. CASE UNCHANGED <<pc, doomed>>
    BY <2>2, <2>3, <2>7 DEF OneAlive
  <2>8. ASSUME NEW d \in Request, Trigger(d) \/ Leaves(d) PROVE OneAlive'
    <3>1. \A c \in Request : c # d => pc'[c] = pc[c] /\ doomed'[c] = doomed[c]
      BY <1>1, <2>8, NotMoved
    <3>2. ASSUME NEW c \in Request, NEW r \in Request, Recorded(r)'
          PROVE  /\ pc'[c] = "reconcile" => HasTerminal(r)' \/ r \in doomed'[c]
                 /\ pc'[c] = "append" => HasTerminal(r)'
      <4>1. CASE c # d
        BY <2>3, <3>1, <3>2, <4>1
      <4>2. CASE c = d
        BY <2>4, <2>5, <2>8, <3>2, <4>2
      <4> QED BY <4>1, <4>2
    <3> QED BY <2>2, <3>2 DEF OneAlive
  <2> QED BY <2>6, <2>7, <2>8, Steps DEF Tick, vars
<1> QED BY <1>3, <1>4

\* Two runs of a report date are in flight together only if one of them came
\* back: the check, the clock and the workers may interleave as they like.
THEOREM SingleFlightUnlessRevivedHolds == Spec => []SingleFlightUnlessRevived
<1>1. OneAlive => SingleFlightUnlessRevived
  BY DEF OneAlive, SingleFlightUnlessRevived, HasTerminal, HasEnded, Fresh
<1> QED BY <1>1, OneAliveInitially, OneAliveKept, RecordInvariance, PTL DEF Spec

-----------------------------------------------------------------------------
(***************************************************************************)
(* Idempotency keys                                                        *)
(***************************************************************************)
\* A run of a key after which the key may start another one.
Excused(r) ==
  \/ service = "pnl" /\ HasTerminal(r)
  \/ service = "preview" /\ Len(records[r]) > 1

\* Who looked its key up and found nothing may start another run of the key;
\* who gives up a run of PnL may, once it did.
KeySearched ==
  \A c \in Request : Key[c] # NoKey =>
    /\ (pc[c] = "give_up" /\ service = "pnl") => \A q, r \in doomed[c] : q = r
    /\ \A i \in DOMAIN keyed : Key[keyed[i]] = Key[c] =>
         /\ pc[c] \in {"check", "reconcile", "append"} => Excused(keyed[i])
         /\ (pc[c] = "give_up" /\ service = "pnl") => Excused(keyed[i]) \/ keyed[i] \in doomed[c]

KInv == OneRunPerKey /\ KeySearched

LEMMA KeyedSame ==
  OneRunPerKey <=>
    \A i, j \in DOMAIN keyed : (i < j /\ Key[keyed[i]] = Key[keyed[j]]) => Excused(keyed[i])
BY DEF OneRunPerKey, Excused, HasTerminal, HasEnded

LEMMA KeysInitially == Init => KInv
<1> SUFFICES ASSUME Init PROVE KInv
  OBVIOUS
<1>1. DOMAIN keyed = {}
  BY EmptySeq DEF Init
<1>2. OneRunPerKey
  BY <1>1 DEF OneRunPerKey
<1>3. KeySearched
  BY <1>1 DEF Init, KeySearched
<1> QED BY <1>2, <1>3 DEF KInv

LEMMA ExcusedKept ==
  ASSUME Types, Types', Grow, service' = service, NEW r \in Request, Excused(r)
  PROVE  Excused(r)'
<1>1. Len(records[r]) \in Nat /\ Len(records[r]) <= Len(records'[r]) /\ Len(records'[r]) \in Nat
  BY Lengths, LenProperties DEF Grow, Types
<1>2. HasTerminal(r) => HasTerminal(r)'
  BY Kept DEF HasTerminal
<1> QED BY <1>1, <1>2 DEF Excused

\* A run of the key that its search does not find has been written to.
LEMMA NotFound ==
  ASSUME RInv, NEW k, NEW i \in DOMAIN keyed, Key[keyed[i]] = k, i \notin WithKey(k)
  PROVE  Excused(keyed[i])
<1>1. service = "preview" /\ Latest(keyed[i]).key # k
  BY DEF WithKey
<1>2. PICK r \in Request : r = keyed[i]
  BY ElementOfSeq, LenProperties DEF RInv, Types
<1>3. Types /\ Recorded(r) /\ records[r][1].key = k
  BY <1>2 DEF RInv, KeyedOnRecord, OnRecord
<1>4. Len(records[r]) \in Nat /\ Len(records[r]) > 0 /\ DOMAIN records[r] = 1 .. Len(records[r])
  BY <1>3, Lengths
<1>5. PICK n \in DOMAIN records[r] : Latest(r) = records[r][n]
  BY <1>3, LatestIsThere
<1>6. n # 1
  BY <1>1, <1>2, <1>3, <1>5
<1>7. Len(records[r]) > 1
  BY <1>4, <1>6
<1> QED BY <1>1, <1>2, <1>7 DEF Excused

\* What a request that moves knows of its key.
LEMMA Searched ==
  ASSUME RInv, RInv', Grow, service' = service, keyed' = keyed, KInv, NEW c \in Request,
         Trigger(c), Key[c] # NoKey, NEW i \in DOMAIN keyed, Key[keyed[i]] = Key[c]
  PROVE  /\ pc'[c] \in {"check", "reconcile", "append"} => Excused(keyed[i])'
         /\ (pc'[c] = "give_up" /\ service = "pnl") =>
              Excused(keyed[i])' \/ keyed[i] \in doomed'[c]
<1>1. Types /\ Types'
  BY DEF RInv
<1>2. PICK q \in Request : q = keyed[i] /\ q = keyed'[i]
  BY <1>1, ElementOfSeq, LenProperties DEF Types
<1>3. Excused(keyed[i]) => Excused(keyed[i])'
  <2>1. Excused(q) => Excused(q)'
    BY <1>1, ExcusedKept
  <2> QED BY <1>2, <2>1 DEF Excused, HasTerminal, HasEnded
<1>4. CASE LookupNothing(c)
  <2>1. pc'[c] = "check" /\ i \notin WithKey(Key[c])
    BY <1>1, <1>4 DEF LookupNothing, Goto, Types
  <2> QED BY <1>3, <2>1, NotFound
<1>5. CASE LookupStale(c)
  <2> SUFFICES ASSUME service = "pnl"
               PROVE  Excused(keyed[i]) \/ keyed[i] \in doomed'[c]
    BY <1>1, <1>3, <1>5 DEF LookupStale, Goto, Types
  <2>1. i \in WithKey(Key[c])
    BY DEF WithKey
  <2> DEFINE m == Max(WithKey(Key[c]))
  <2>2. m \in WithKey(Key[c]) /\ i <= m /\ LatestRunWithKey(Key[c]) = keyed[m]
    BY <1>1, <2>1, KeyedPositions DEF LatestRunWithKey
  <2>3. doomed'[c] = {keyed[m]}
    BY <1>1, <1>5, <2>2 DEF LookupStale, Types
  <2>4. m \in DOMAIN keyed /\ Key[keyed[m]] = Key[c]
    BY <2>2 DEF WithKey
  <2> HIDE DEF m
  <2>5. i \in Nat /\ m \in Nat
    <3>1. keyed \in Seq(Request)
      BY <1>1 DEF Types
    <3>2. Len(keyed) \in Nat /\ DOMAIN keyed = 1 .. Len(keyed)
      BY <3>1, LenProperties
    <3> QED BY <2>4, <3>2
  <2>6. i < m => Excused(keyed[i])
    BY <2>4, KeyedSame DEF KInv
  <2> QED BY <2>2, <2>3, <2>5, <2>6
<1>6. CASE GiveUpKeyed(c)
  <2>1. pc[c] = "give_up" /\ pc'[c] = (IF service = "pnl" THEN "check" ELSE "reread")
    BY <1>1, <1>6 DEF GiveUpKeyed, Goto, Types
  <2> SUFFICES ASSUME service = "pnl" PROVE Excused(keyed[i])'
    BY <2>1
  <2>2. PICK r \in doomed[c] : Write(r, "failed", NoKey)
    BY <1>6 DEF GiveUpKeyed
  <2>3. r \in Request /\ "failed" \in Status /\ "failed" \in Terminal
    BY <1>1, <2>2 DEF Types, Status, Terminal
  <2>4. HasTerminal(r)'
    BY <1>1, <2>2, <2>3, WriteEnds DEF HasTerminal
  <2>5. Excused(keyed[i]) \/ keyed[i] = r
    BY <2>1, <2>2 DEF KInv, KeySearched
  <2>6. q = r => Excused(q)'
    BY <2>4 DEF Excused
  <2> QED BY <1>2, <1>3, <2>5, <2>6 DEF Excused, HasTerminal, HasEnded
<1>7. CASE CheckFree(c) \/ MarkStale(c) \/ Reconciled(c)
  <2>1. pc[c] \in {"check", "reconcile"} /\ pc'[c] # "give_up"
    BY <1>1, <1>7 DEF CheckFree, MarkStale, Reconciled, Goto, Types
  <2> QED BY <1>3, <2>1 DEF KInv, KeySearched
<1>8. CASE ~(LookupNothing(c) \/ LookupStale(c) \/ GiveUpKeyed(c) \/ CheckFree(c)
             \/ MarkStale(c) \/ Reconciled(c))
  <2>1. pc'[c] \notin {"check", "reconcile", "append", "give_up"}
    BY <1>1, <1>8 DEF Trigger, AcquireTrigger, TriggerBusy, LookupReplays, Reread,
       CheckConflict, AppendQueued, Send, SendFails, RecordDispatchFailure, RunsItself,
       SyncCompletes, SyncRaises, Goto, Reply, Entered, Types
  <2> QED BY <2>1
<1> QED BY <1>4, <1>5, <1>6, <1>7, <1>8

\* A request gives up one run at a time.
LEMMA OneGivenUp ==
  ASSUME Types, NEW c \in Request, Trigger(c), pc'[c] = "give_up"
  PROVE  \A q, r \in doomed'[c] : q = r
<1>1. LookupStale(c)
  BY DEF Trigger, AcquireTrigger, TriggerBusy, LookupNothing, LookupReplays, LookupStale,
     GiveUpKeyed, Reread, CheckConflict, CheckFree, MarkStale, Reconciled, AppendQueued, Send,
     SendFails, RecordDispatchFailure, RunsItself, SyncCompletes, SyncRaises, Goto, Reply,
     Entered, Types
<1> QED BY <1>1 DEF LookupStale, Types

LEMMA KeysKept ==
  ASSUME RInv, RInv', KInv, [Next]_vars
  PROVE  KInv'
<1>1. Types /\ Types' /\ Locked /\ Locked' /\ Grow
  BY KeyedKept DEF RInv
<1>2. service' = service
  <2>1. CASE \A c \in Request : ~AppendQueued(c)
    BY <1>1, <2>1, StepShape DEF Known
  <2>2. CASE \E c \in Request : AppendQueued(c)
    BY <2>2 DEF AppendQueued
  <2> QED BY <2>1, <2>2
<1>3. \A i \in DOMAIN keyed : keyed[i] \in Request /\ i \in Nat
  BY <1>1, ElementOfSeq, LenProperties DEF Types
<1>4. \A r \in Request : Excused(r) => Excused(r)'
  BY <1>1, <1>2, ExcusedKept
<1>5. CASE \A c \in Request : ~AppendQueued(c)
  <2>1. keyed' = keyed
    BY <1>1, <1>5, StepShape DEF Known
  <2>2. \A i \in DOMAIN keyed : Excused(keyed[i]) => Excused(keyed[i])'
    <3> SUFFICES ASSUME NEW i \in DOMAIN keyed, Excused(keyed[i]) PROVE Excused(keyed[i])'
      OBVIOUS
    <3>1. PICK q \in Request : q = keyed[i] /\ q = keyed'[i]
      BY <1>3, <2>1
    <3>2. Excused(q)'
      BY <1>4, <3>1
    <3> QED BY <3>1, <3>2 DEF Excused, HasTerminal, HasEnded
  <2>3. OneRunPerKey'
    <3>1. \A i, j \in DOMAIN keyed : (i < j /\ Key[keyed[i]] = Key[keyed[j]]) => Excused(keyed[i])'
      BY <2>2, KeyedSame DEF KInv
    <3> QED BY <2>1, <3>1 DEF OneRunPerKey, Excused, HasTerminal, HasEnded
  <2>4. ASSUME NEW c \in Request, pc'[c] = pc[c], doomed'[c] = doomed[c], Key[c] # NoKey
        PROVE  /\ (pc[c] = "give_up" /\ service = "pnl")' => \A q, r \in doomed'[c] : q = r
               /\ \A i \in DOMAIN keyed : Key[keyed[i]] = Key[c] =>
                    /\ pc'[c] \in {"check", "reconcile", "append"} => Excused(keyed[i])'
                    /\ (pc[c] = "give_up" /\ service = "pnl")' =>
                         Excused(keyed[i])' \/ keyed[i] \in doomed'[c]
    BY <1>2, <2>2, <2>4 DEF KInv, KeySearched
  <2>5. ASSUME NEW d \in Request, Trigger(d) \/ Leaves(d) \/ Works(d),
               NEW c \in Request, Key[c] # NoKey
        PROVE  /\ (pc[c] = "give_up" /\ service = "pnl")' => \A q, r \in doomed'[c] : q = r
               /\ \A i \in DOMAIN keyed : Key[keyed[i]] = Key[c] =>
                    /\ pc'[c] \in {"check", "reconcile", "append"} => Excused(keyed[i])'
                    /\ (pc[c] = "give_up" /\ service = "pnl")' =>
                         Excused(keyed[i])' \/ keyed[i] \in doomed'[c]
    <3>1. CASE c # d
      <4>1. pc'[c] = pc[c] /\ doomed'[c] = doomed[c]
        BY <1>1, <2>5, <3>1, NotMoved
      <4> QED BY <2>4, <2>5, <4>1
    <3>2. CASE c = d /\ Trigger(c)
      <4>1. \A i \in DOMAIN keyed : Key[keyed[i]] = Key[c] =>
                    /\ pc'[c] \in {"check", "reconcile", "append"} => Excused(keyed[i])'
                    /\ (pc'[c] = "give_up" /\ service = "pnl") =>
                         Excused(keyed[i])' \/ keyed[i] \in doomed'[c]
        BY <1>1, <1>2, <2>1, <2>5, <3>2, Searched
      <4>2. pc'[c] = "give_up" => \A q, r \in doomed'[c] : q = r
        BY <1>1, <3>2, OneGivenUp
      <4> QED BY <1>2, <4>1, <4>2
    <3>3. CASE c = d /\ Leaves(c)
      <4>1. pc'[c] \in {"dead", "answered"}
        BY <1>1, <3>3, LeavesTo
      <4> QED BY <4>1
    <3>4. CASE c = d /\ Works(c)
      <4>1. pc' = pc /\ doomed' = doomed
        BY <3>4, WorksOutside
      <4> QED BY <2>4, <2>5, <4>1
    <3> QED BY <2>5, <3>1, <3>2, <3>3, <3>4
  <2>6. ASSUME Tick \/ UNCHANGED vars PROVE pc' = pc /\ doomed' = doomed
    BY <2>6 DEF Tick, vars
  <2>7. KeySearched'
    <3>1. CASE \E d \in Request : Trigger(d) \/ Leaves(d) \/ Works(d)
      BY <2>1, <2>5, <3>1 DEF KeySearched
    <3>2. CASE Tick \/ UNCHANGED vars
      BY <2>1, <2>4, <2>6, <3>2 DEF KeySearched
    <3> QED BY <3>1, <3>2, Steps
  <2> QED BY <2>3, <2>7 DEF KInv
<1>6. ASSUME NEW c \in Request, AppendQueued(c) PROVE KInv'
  <2>1. /\ pc[c] = "append" /\ pc'[c] = "send" /\ trigger' = c
        /\ keyed' = IF Key[c] = NoKey THEN keyed ELSE Append(keyed, c)
    <3>1. /\ pc[c] = "append"
          /\ keyed' = IF Key[c] = NoKey THEN keyed ELSE Append(keyed, c)
      BY <1>1, <1>6, Recording
    <3>2. pc'[c] = "send"
      BY <1>1, <1>6 DEF AppendQueued, Goto, Types
    <3> QED BY <1>1, <3>1, <3>2 DEF Locked, Inside
  <2>2. KeySearched'
    <3>1. \A d \in Request : pc'[d] \notin {"give_up", "check", "reconcile", "append"}
      BY <1>1, <2>1 DEF Locked, Inside
    <3> QED BY <3>1 DEF KeySearched
  <2>3. /\ \A i \in DOMAIN keyed : keyed'[i] = keyed[i]
        /\ \A j \in DOMAIN keyed' : j \in Nat /\ (j \in DOMAIN keyed \/
             (Key[c] # NoKey /\ keyed'[j] = c /\ \A i \in DOMAIN keyed' : i <= j))
    <3>1. CASE Key[c] = NoKey
      BY <1>3, <2>1, <3>1
    <3>2. CASE Key[c] # NoKey
      <4>1. keyed' = Append(keyed, c) /\ keyed \in Seq(Request)
        BY <1>1, <2>1, <3>2 DEF Types
      <4>2. /\ Len(keyed) \in Nat /\ DOMAIN keyed = 1 .. Len(keyed)
            /\ DOMAIN keyed' = 1 .. (Len(keyed) + 1)
            /\ \A i \in 1 .. Len(keyed) : keyed'[i] = keyed[i]
            /\ keyed'[Len(keyed) + 1] = c
        BY <4>1, AppendProperties, LenProperties
      <4>3. ASSUME NEW j \in DOMAIN keyed'
            PROVE  j \in Nat /\ (j \in DOMAIN keyed \/
                     (keyed'[j] = c /\ \A i \in DOMAIN keyed' : i <= j))
        BY <4>2
      <4> QED BY <3>2, <4>2, <4>3
    <3> QED BY <3>1, <3>2
  <2>4. ASSUME NEW i \in DOMAIN keyed', NEW j \in DOMAIN keyed', i < j,
               Key[keyed'[i]] = Key[keyed'[j]]
        PROVE  Excused(keyed[i])'
    <3>1. i \in DOMAIN keyed
      <4>1. ~(j <= i)
        BY <2>3, <2>4
      <4> QED BY <2>3, <2>4, <4>1
    <3>2. PICK q \in Request : q = keyed[i] /\ q = keyed'[i]
      BY <1>3, <2>3, <3>1
    <3>3. Excused(q)
      <4>1. CASE j \in DOMAIN keyed
        BY <2>3, <2>4, <3>1, <3>2, <4>1, KeyedSame DEF KInv
      <4>2. CASE j \notin DOMAIN keyed
        BY <2>1, <2>3, <2>4, <3>1, <3>2, <4>2 DEF KInv, KeySearched
      <4> QED BY <4>1, <4>2
    <3>4. Excused(q)'
      BY <1>4, <3>3
    <3> QED BY <3>2, <3>4 DEF Excused, HasTerminal, HasEnded
  <2>5. OneRunPerKey'
    BY <2>4 DEF OneRunPerKey, Excused, HasTerminal, HasEnded
  <2> QED BY <2>2, <2>5 DEF KInv
<1> QED BY <1>5, <1>6

\* An idempotency key starts one run of a report date, for any number of
\* requests: a second one of PnL only after the first ended, of previews only
\* after a worker wrote to it.
THEOREM OneRunPerKeyHolds == Spec => []OneRunPerKey
<1>1. KInv => OneRunPerKey
  BY DEF KInv
<1> QED BY <1>1, KeysInitially, KeysKept, RecordInvariance, PTL DEF Spec

-----------------------------------------------------------------------------
(***************************************************************************)
(* Completed runs                                                          *)
(***************************************************************************)
HasCompleted(r) == HasEnded(r, {"completed"})

\* The record of the request is older than the limit.
FirstStale(r) == Recorded(r) /\ now - records[r][1].at > StaleAfter

\* Records are written in the order of the clock, and only a run whose first
\* record is stale is given up.
Timed ==
  /\ \A r \in Request : \A i \in DOMAIN records[r] :
       records[r][1].at <= records[r][i].at /\ records[r][i].at <= now
  /\ \A c \in Request : \A r \in doomed[c] : FirstStale(r)

\* The completed record is the last act of a message, and the last record but
\* for those who give a stale run up, unless the run was reopened; a request that
\* may still record a failure has no completed run.
Settled(r) ==
  r \notin reopened =>
    /\ HasCompleted(r) =>
         message[r] \in {"ended", "gone"} /\ (LastStatus(r) = "completed" \/ FirstStale(r))
    /\ pc[r] \in {"send", "undispatched"} => ~HasCompleted(r) /\ message[r] \in {"unsent", "raised"}

LEMMA WrittenNow ==
  ASSUME Types, Types', NEW r \in Request, NEW status \in Status,
         NEW key \in Keys \cup {NoKey}, Write(r, status, key)
  PROVE  /\ records'[r][Len(records[r]) + 1].at = now
         /\ LastStatus(r)' = status
         /\ status # "completed" /\ ~HasCompleted(r) => ~HasCompleted(r)'
<1> DEFINE e == [status |-> status, key |-> key, at |-> now]
<1>1. e \in Record /\ e.at = now /\ e.status = status
  BY DEF Types, Record
<1>2. records' = [records EXCEPT ![r] = Append(@, e)]
  BY DEF Write
<1> HIDE DEF e
<1>3. records[r] \in Seq(Record) /\ records'[r] = Append(records[r], e)
  BY <1>2 DEF Types
<1>4. /\ Len(records'[r]) = Len(records[r]) + 1
      /\ Len(records[r]) \in Nat
      /\ \A i \in 1 .. Len(records[r]) : records'[r][i] = records[r][i]
      /\ records'[r][Len(records[r]) + 1] = e
  BY <1>1, <1>3, AppendProperties, LenProperties
<1>5. DOMAIN records[r] = 1 .. Len(records[r]) /\ DOMAIN records'[r] = 1 .. (Len(records[r]) + 1)
  BY <1>3, <1>4, LenProperties DEF Types
<1>6. LastStatus(r)' = status
  <2>1. Recorded(r)'
    BY WriteGrows
  <2>2. Last(records'[r]) = e
    BY <1>4 DEF Last
  <2> QED BY <1>1, <2>1, <2>2 DEF LastStatus, Recorded
<1>7. ASSUME status # "completed", HasCompleted(r)' PROVE HasCompleted(r)
  <2>1. PICK i \in 1 .. (Len(records[r]) + 1) : records'[r][i].status = "completed"
    BY <1>5, <1>7 DEF HasCompleted, HasEnded
  <2>2. i # Len(records[r]) + 1
    BY <1>1, <1>4, <1>7, <2>1
  <2>3. i \in DOMAIN records[r] /\ records[r][i].status = "completed"
    BY <1>4, <1>5, <2>1, <2>2
  <2> QED BY <2>3 DEF HasCompleted, HasEnded
<1> QED BY <1>1, <1>4, <1>6, <1>7

\* A step writes one record of the instant, or none.
LEMMA StepWrites ==
  ASSUME RInv, [Next]_vars
  PROVE  \/ records' = records /\ now <= now'
         \/ \E r \in Request, status \in Status, key \in Keys \cup {NoKey} :
              Write(r, status, key) /\ now' = now
<1>1. now \in Nat /\ \A c \in Request : doomed[c] \subseteq Request
  BY BoundAssumption DEF RInv, Types
<1>2. CASE UNCHANGED vars \/ Tick
  BY <1>1, <1>2 DEF vars, Tick
<1>3. ASSUME NEW c \in Request, GiveUpKeyed(c) \/ MarkStale(c)
      PROVE  \E r \in Request : Write(r, "failed", NoKey) /\ now' = now
  BY <1>1, <1>3 DEF GiveUpKeyed, MarkStale
<1>4. ASSUME NEW c \in Request, AppendQueued(c) PROVE Write(c, "queued", Key[c]) /\ now' = now
  BY <1>4 DEF AppendQueued
<1>5. ASSUME NEW c \in Request, RecordDispatchFailure(c)
      PROVE  Write(c, "failed", NoKey) /\ now' = now
  BY <1>5 DEF RecordDispatchFailure
<1>6. ASSUME NEW c \in Request, Worker(c), ~Deliver(c), ~Acknowledge(c)
      PROVE  (\E status \in Status : Write(c, status, NoKey)) /\ now' = now
  BY <1>6 DEF Worker, WorkerQueued, WorkerRunning, WorkerCompletes, WorkerFails, Status,
     InFlight, Terminal
<1>7. ASSUME NEW c \in Request,
             Deliver(c) \/ Acknowledge(c) \/ Leaves(c) \/ WorkerRaises(c) \/ WorkerDies(c)
      PROVE  records' = records /\ now' = now
  BY <1>7 DEF Deliver, Acknowledge, Leaves, RequestDies, TriggerRaises, WorkerRaises, WorkerDies
<1>8. ASSUME NEW c \in Request, Trigger(c), ~(GiveUpKeyed(c) \/ MarkStale(c)), ~AppendQueued(c),
             ~RecordDispatchFailure(c)
      PROVE  records' = records /\ now' = now
  BY <1>8 DEF Trigger, AcquireTrigger, TriggerBusy, LookupNothing, LookupReplays, LookupStale,
     Reread, CheckConflict, CheckFree, Reconciled, Send, SendFails, RunsItself, SyncCompletes,
     SyncRaises
<1>9. "failed" \in Status /\ "queued" \in Status /\ \A c \in Request : Key[c] \in Keys
  BY DEF Status, Terminal, InFlight, Keys
<1>10. ASSUME NEW c \in Request, Trigger(c)
       PROVE  \/ records' = records /\ now' = now
              \/ \E r \in Request, status \in Status, key \in Keys \cup {NoKey} :
                   Write(r, status, key) /\ now' = now
  BY <1>3, <1>4, <1>5, <1>8, <1>9, <1>10
<1>11. ASSUME NEW c \in Request, Worker(c)
       PROVE  \/ records' = records /\ now' = now
              \/ \E r \in Request, status \in Status, key \in Keys \cup {NoKey} :
                   Write(r, status, key) /\ now' = now
  BY <1>6, <1>7, <1>11
<1>12. now' = now => now <= now'
  BY <1>1
<1> QED BY <1>2, <1>7, <1>10, <1>11, <1>12, Steps DEF Works

LEMMA StaleKept ==
  ASSUME Types, Types', Grow, now <= now', NEW r \in Request, FirstStale(r)
  PROVE  FirstStale(r)'
<1>1. Recorded(r)' /\ records'[r][1] = records[r][1]
  BY Kept DEF FirstStale
<1>2. 1 \in DOMAIN records[r]
  BY Lengths DEF FirstStale
<1>3. records[r][1].at \in Nat /\ now \in Nat /\ now' \in Nat
  <2>1. records[r][1] \in Record
    BY <1>2, Lengths, ElementOfSeq DEF Types
  <2> QED BY <2>1, BoundAssumption DEF Record, Types
<1> QED BY <1>1, <1>3, BoundAssumption DEF FirstStale

\* Whose representative is stale has a stale first record.
LEMMA LaterStale ==
  ASSUME Types, Timed, NEW r \in Request, NEW i \in DOMAIN records[r], LooksStale(records[r][i])
  PROVE  FirstStale(r)
<1>1. Len(records[r]) \in Nat /\ DOMAIN records[r] = 1 .. Len(records[r])
  BY Lengths
<1>2. 1 \in DOMAIN records[r] /\ Recorded(r)
  BY <1>1, Lengths
<1>3. records[r][1] \in Record /\ records[r][i] \in Record
  BY <1>1, <1>2, ElementOfSeq DEF Types
<1>4. records[r][1].at \in Nat /\ records[r][i].at \in Nat /\ now \in Nat
  BY <1>3, BoundAssumption DEF Record, Types
<1>5. records[r][1].at <= records[r][i].at /\ now - records[r][i].at > StaleAfter
  BY DEF Timed, LooksStale
<1> QED BY <1>2, <1>4, <1>5, BoundAssumption DEF FirstStale

\* What a request is about to give up.
LEMMA DoomedStale ==
  ASSUME RInv, Timed, NEW c \in Request, Trigger(c)
  PROVE  \A r \in doomed'[c] : FirstStale(r)
<1>1. Types /\ KeyedOnRecord
  BY DEF RInv
<1>2. CASE LookupStale(c)
  <2> DEFINE r == LatestRunWithKey(Key[c])
             K == {i \in DOMAIN records[r] : records[r][i].key = Key[c]}
  <2>1. r \in Request /\ \E i \in DOMAIN keyed : r = keyed[i] /\ Key[keyed[i]] = Key[c]
    BY <1>1, <1>2, KeyedPositions DEF LookupStale, LatestRunWithKey, WithKey
  <2>2. Recorded(r) /\ Key[r] = Key[c]
    BY <1>1, <2>1 DEF KeyedOnRecord
  <2>3. /\ Len(records[r]) \in Nat /\ DOMAIN records[r] = 1 .. Len(records[r])
        /\ 1 \in DOMAIN records[r] /\ records[r][1].key = Key[c]
    BY <1>1, <2>1, <2>2, Lengths DEF RInv, OnRecord
  <2>4. Max(K) \in DOMAIN records[r]
    BY <2>3, Greatest
  <2>5. LooksStale(records[r][Max(K)])
    BY <1>2 DEF LookupStale, LatestWithKey
  <2>6. doomed'[c] = {r}
    BY <1>1, <1>2 DEF LookupStale, Types
  <2> QED BY <1>1, <2>1, <2>4, <2>5, <2>6, LaterStale
<1>3. CASE CheckFree(c)
  <2>1. doomed'[c] = GivenUp
    BY <1>1, <1>3 DEF CheckFree, Types
  <2> SUFFICES ASSUME NEW r \in GivenUp PROVE FirstStale(r)
    BY <2>1
  <2>2. r \in Request /\ Recorded(r) /\ LooksStale(Latest(r))
    BY DEF GivenUp
  <2> QED BY <1>1, <2>2, LatestIsThere, LaterStale
<1>4. CASE ~LookupStale(c) /\ ~CheckFree(c)
  <2>1. doomed'[c] \subseteq doomed[c]
    BY <1>1, <1>4 DEF Trigger, AcquireTrigger, TriggerBusy, LookupNothing, LookupReplays,
       GiveUpKeyed, Reread, CheckConflict, MarkStale, Reconciled, AppendQueued, Send, SendFails,
       RecordDispatchFailure, RunsItself, SyncCompletes, SyncRaises, Goto, Reply, Types
  <2> QED BY <2>1 DEF Timed
<1> QED BY <1>2, <1>3, <1>4

LEMMA TimedKept ==
  ASSUME RInv, RInv', Grow, Timed, [Next]_vars
  PROVE  Timed' /\ now <= now'
<1>1. Types /\ Types'
  BY DEF RInv
<1>2. now \in Nat /\ now' \in Nat /\ now <= now'
  BY <1>1, StepWrites, BoundAssumption DEF Types
<1>3. ASSUME NEW r \in Request, NEW i \in DOMAIN records'[r]
      PROVE  records'[r][1].at <= records'[r][i].at /\ records'[r][i].at <= now'
  <2>1. CASE records'[r] = records[r]
    <3>1. records[r][i].at \in Nat
      <4>1. records[r][i] \in Record
        BY <1>1, <2>1, Lengths, ElementOfSeq DEF Types
      <4> QED BY <4>1, BoundAssumption DEF Record
    <3>2. records[r][1].at <= records[r][i].at /\ records[r][i].at <= now
      BY <2>1 DEF Timed
    <3> QED BY <1>2, <2>1, <3>1, <3>2
  <2>2. CASE records'[r] # records[r]
    <3>1. PICK status \in Status, key \in Keys \cup {NoKey} :
            Write(r, status, key) /\ now' = now
      <4>1. PICK q \in Request, status \in Status, key \in Keys \cup {NoKey} :
              Write(q, status, key) /\ now' = now
        BY <2>2, StepWrites
      <4>2. q = r
        BY <1>1, <2>2, <4>1, WriteGrows
      <4> QED BY <4>1, <4>2
    <3> DEFINE n == Len(records[r])
    <3>2. /\ Len(records'[r]) = n + 1 /\ n \in Nat
          /\ \A j \in 1 .. n : records'[r][j] = records[r][j]
          /\ records'[r][n + 1].at = now
      BY <1>1, <3>1, Written, WrittenNow
    <3>3. DOMAIN records'[r] = 1 .. (n + 1) /\ DOMAIN records[r] = 1 .. n
      BY <1>1, <3>2, LenProperties DEF Types
    <3> HIDE DEF n
    <3>4. CASE i = n + 1
      <4>1. CASE n = 0
        BY <1>2, <3>1, <3>2, <3>4, <4>1
      <4>2. CASE n # 0
        <5>1. 1 \in 1 .. n
          BY <3>2, <4>2
        <5>2. records'[r][1].at <= now
          BY <3>2, <3>3, <5>1 DEF Timed
        <5> QED BY <1>2, <3>1, <3>2, <3>4, <5>2
      <4> QED BY <4>1, <4>2
    <3>5. CASE i # n + 1
      <4>1. 1 \in 1 .. n /\ i \in 1 .. n
        BY <3>2, <3>3, <3>5
      <4> QED BY <3>1, <3>2, <3>3, <4>1 DEF Timed
    <3> QED BY <3>4, <3>5
  <2> QED BY <2>1, <2>2
<1>4. ASSUME NEW c \in Request, NEW r \in doomed'[c] PROVE FirstStale(r)'
  <2>1. r \in Request
    BY <1>1 DEF Types
  <2>2. FirstStale(r)
    <3>1. CASE doomed'[c] = doomed[c]
      BY <3>1 DEF Timed
    <3>2. CASE doomed'[c] # doomed[c]
      <4>1. ~UNCHANGED vars /\ ~Tick
        BY <3>2 DEF vars, Tick
      <4>2. Trigger(c) \/ Leaves(c) \/ Works(c)
        BY <1>1, <3>2, <4>1, NotMoved, Steps
      <4>3. ~Works(c)
        BY <3>2, WorksOutside
      <4>4. ~Leaves(c)
        BY <1>1, LeavesTo
      <4> QED BY <4>2, <4>3, <4>4, DoomedStale
    <3> QED BY <3>1, <3>2
  <2> QED BY <1>1, <1>2, <2>1, <2>2, StaleKept
<1> QED BY <1>2, <1>3, <1>4 DEF Timed

\* A run that others moved past.
LEMMA SettledByOthers ==
  ASSUME RInv, RInv', Grow, Timed, now <= now', NEW c \in Request, NEW r \in Request, r # c,
         Settled(r), Trigger(c) \/ Leaves(c) \/ Works(c), reopened \subseteq reopened'
  PROVE  Settled(r)'
<1>1. Types /\ Types' /\ Locked
  BY DEF RInv
<1>2. pc'[r] = pc[r] /\ message'[r] = message[r]
  BY <1>1, NotMoved
<1>3. FirstStale(r) => FirstStale(r)'
  BY <1>1, StaleKept
<1>4. CASE records'[r] = records[r]
  <2>1. /\ HasCompleted(r)' <=> HasCompleted(r)
        /\ LastStatus(r)' = LastStatus(r)
    BY <1>4 DEF HasCompleted, HasEnded, LastStatus, Recorded
  <2> QED BY <1>2, <1>3, <2>1 DEF Settled
<1>5. CASE records'[r] # records[r]
  <2>1. (GiveUpKeyed(c) \/ MarkStale(c)) /\ r \in doomed[c] /\ Write(r, "failed", NoKey)
    <3>1. \A q \in Request, status \in Status, key \in Keys \cup {NoKey} :
            Write(q, status, key) => q = r
      BY <1>1, <1>5, WriteGrows
    <3>2. "failed" \in Status /\ "queued" \in Status /\ Key[c] \in Keys
      BY DEF Status, Terminal, InFlight, Keys
    <3>3. ~AppendQueued(c) /\ ~RecordDispatchFailure(c)
      BY <3>1, <3>2 DEF AppendQueued, RecordDispatchFailure
    <3>4. ~Works(c)
      <4>1. \A status \in Status : ~Write(c, status, NoKey)
        BY <3>1
      <4> QED BY <1>5, <4>1 DEF Works, Worker, Deliver, WorkerQueued, WorkerRunning,
             WorkerCompletes, Acknowledge, WorkerFails, WorkerRaises, WorkerDies, Status,
             Terminal, InFlight
    <3>5. ~Leaves(c)
      BY <1>1, <1>5, LeavesTo
    <3>6. GiveUpKeyed(c) \/ MarkStale(c)
      BY <1>5, <3>3, <3>4, <3>5 DEF Trigger, AcquireTrigger, TriggerBusy, LookupNothing,
         LookupReplays, LookupStale, Reread, CheckConflict, CheckFree, Reconciled, Send,
         SendFails, RunsItself, SyncCompletes, SyncRaises
    <3>7. PICK q \in doomed[c] : Write(q, "failed", NoKey)
      BY <3>6 DEF GiveUpKeyed, MarkStale
    <3>8. q \in Request
      BY <1>1, <3>7 DEF Types
    <3>9. q = r
      BY <3>1, <3>2, <3>7, <3>8
    <3> QED BY <3>6, <3>7, <3>9
  <2>2. FirstStale(r)'
    BY <1>3, <2>1 DEF Timed
  <2>3. pc[r] \notin Inside
    <3>1. trigger = c
      BY <1>1, <2>1 DEF GiveUpKeyed, MarkStale, Goto, Inside, Locked
    <3> QED BY <1>1, <3>1 DEF Locked
  <2>4. HasCompleted(r)' => HasCompleted(r)
    <3>1. "failed" \in Status /\ "failed" # "completed"
      BY DEF Status, Terminal
    <3>2. ~HasCompleted(r) => ~HasCompleted(r)'
      BY <1>1, <2>1, <3>1, WrittenNow
    <3> QED BY <3>2
  <2>5. r \notin reopened' => r \notin reopened
    OBVIOUS
  <2>6. pc'[r] \notin {"send", "undispatched"}
    BY <1>2, <2>3 DEF Inside
  <2> QED BY <1>2, <2>2, <2>4, <2>5, <2>6 DEF Settled
<1> QED BY <1>4, <1>5

\* A run its own request moves.
LEMMA SettledByRequest ==
  ASSUME RInv, RInv', Grow, Timed, now <= now', NEW c \in Request, Settled(c),
         Trigger(c) \/ Leaves(c), reopened \subseteq reopened'
  PROVE  Settled(c)'
<1>1. Types /\ Types' /\ OnRecord(c)
  BY DEF RInv
<1>2. FirstStale(c) => FirstStale(c)'
  BY <1>1, StaleKept
<1>3. pc[c] \in Before => ~HasCompleted(c) /\ message[c] = "unsent"
  <2>1. pc[c] \in Before => DOMAIN records[c] = {}
    BY <1>1, EmptySeq DEF OnRecord
  <2> QED BY <1>1, <2>1 DEF OnRecord, HasCompleted, HasEnded
<1>4. ASSUME records'[c] = records[c]
      PROVE  /\ HasCompleted(c)' <=> HasCompleted(c)
             /\ LastStatus(c)' = LastStatus(c)
  BY <1>4 DEF HasCompleted, HasEnded, LastStatus, Recorded
<1>5. CASE AcquireTrigger(c) \/ TriggerBusy(c) \/ LookupNothing(c) \/ LookupReplays(c)
           \/ LookupStale(c) \/ Reread(c) \/ CheckConflict(c) \/ CheckFree(c) \/ Reconciled(c)
  <2>1. pc[c] \in Before /\ records' = records
    BY <1>5 DEF AcquireTrigger, TriggerBusy, LookupNothing, LookupReplays, LookupStale, Reread,
       CheckConflict, CheckFree, Reconciled, Goto, Reply, Before
  <2>2. pc'[c] \notin {"send", "undispatched", "sync"}
    BY <1>1, <1>5 DEF AcquireTrigger, TriggerBusy, LookupNothing, LookupReplays, LookupStale,
       Reread, CheckConflict, CheckFree, Reconciled, Goto, Reply, Entered, Types
  <2> QED BY <1>3, <1>4, <2>1, <2>2 DEF Settled
<1>6. CASE GiveUpKeyed(c) \/ MarkStale(c)
  <2>1. PICK r \in doomed[c] : Write(r, "failed", NoKey)
    BY <1>6 DEF GiveUpKeyed, MarkStale
  <2>2. pc[c] \in Before /\ pc'[c] \notin {"send", "undispatched", "sync"}
    BY <1>1, <1>6 DEF GiveUpKeyed, MarkStale, Goto, Before, Types
  <2>3. r \in Request /\ r # c
    BY <1>1, <2>1, <2>2 DEF OnRecord, Recorded, Types
  <2>4. records'[c] = records[c]
    BY <1>1, <2>1, <2>3, WriteGrows DEF Status, Terminal
  <2> QED BY <1>3, <1>4, <2>2, <2>4 DEF Settled
<1>7. CASE AppendQueued(c)
  <2>1. Write(c, "queued", Key[c]) /\ pc[c] \in Before /\ pc'[c] = "send" /\ message' = message
    BY <1>1, <1>7 DEF AppendQueued, Goto, Before, Types
  <2>2. "queued" \in Status /\ "queued" # "completed" /\ Key[c] \in Keys \cup {NoKey}
    BY DEF Status, InFlight, Keys
  <2>3. ~HasCompleted(c)'
    BY <1>1, <1>3, <2>1, <2>2, WrittenNow
  <2> QED BY <1>3, <2>1, <2>3 DEF Settled
<1>8. CASE Send(c) \/ SendFails(c)
  <2>1. /\ pc[c] = "send" /\ records' = records
        /\ pc'[c] = "undispatched" => message' = message
        /\ pc'[c] \in {"answered", "undispatched"}
    BY <1>1, <1>8 DEF Send, SendFails, Goto, Reply, Types
  <2> QED BY <1>4, <2>1 DEF Settled
<1>9. CASE RecordDispatchFailure(c)
  <2>1. pc[c] = "undispatched" /\ pc'[c] = "answered" /\ Write(c, "failed", NoKey)
    BY <1>1, <1>9 DEF RecordDispatchFailure, Goto, Reply, Types
  <2>2. c \notin reopened' => ~HasCompleted(c)
    BY <2>1 DEF Settled
  <2>3. ~HasCompleted(c) => ~HasCompleted(c)'
    BY <1>1, <2>1, WrittenNow DEF Status, Terminal
  <2> QED BY <2>1, <2>2, <2>3 DEF Settled
<1>10. CASE RunsItself(c)
  <2>1. pc[c] = "undispatched" /\ pc'[c] = "sync" /\ records' = records
    BY <1>1, <1>10 DEF RunsItself, Goto, Types
  <2> QED BY <1>4, <2>1 DEF Settled
<1>11. CASE SyncCompletes(c) \/ SyncRaises(c)
  <2>1. /\ pc[c] = "sync" /\ records' = records /\ message' = message
        /\ pc'[c] = "undispatched" => message[c] = "raised"
        /\ pc'[c] \in {"answered", "undispatched"}
    BY <1>1, <1>11 DEF SyncCompletes, SyncRaises, Goto, Reply, Types
  <2> QED BY <1>2, <1>4, <2>1 DEF Settled
<1>12. CASE Leaves(c)
  <2>1. /\ pc'[c] \in {"dead", "answered"} /\ records' = records
        /\ message'[c] = "gone" \/ message'[c] = message[c]
    BY <1>1, <1>12 DEF Leaves, RequestDies, TriggerRaises, Reply, Goto, Types
  <2> QED BY <1>2, <1>4, <2>1 DEF Settled
<1> QED BY <1>5, <1>6, <1>7, <1>8, <1>9, <1>10, <1>11, <1>12 DEF Trigger

\* A run its worker moves.
LEMMA SettledByWorker ==
  ASSUME RInv, RInv', Grow, Timed, now <= now', NEW c \in Request, Settled(c), Works(c),
         reopened \subseteq reopened'
  PROVE  Settled(c)'
<1> SUFFICES ASSUME c \notin reopened' PROVE Settled(c)'
  BY DEF Settled
<1>1. Types /\ Types' /\ c \notin reopened
  BY DEF RInv
<1>2. message[c] \notin {"unsent", "raised", "gone"} /\ pc' = pc
  BY DEF Works, Worker, Deliver, WorkerQueued, WorkerRunning, WorkerCompletes, Acknowledge,
     WorkerFails, WorkerRaises, WorkerDies, AtWorker, Pass
<1>3. pc[c] \notin {"send", "undispatched"}
  BY <1>1, <1>2 DEF Settled
<1>4. CASE Acknowledge(c)
  <2>1. message'[c] = "gone" /\ message[c] = "ended" /\ records' = records
    BY <1>1, <1>4 DEF Acknowledge, Pass, Types
  <2>2. /\ HasCompleted(c)' <=> HasCompleted(c)
        /\ LastStatus(c)' = LastStatus(c)
    BY <2>1 DEF HasCompleted, HasEnded, LastStatus, Recorded
  <2>3. FirstStale(c) => FirstStale(c)'
    BY <1>1, StaleKept
  <2> QED BY <1>1, <1>2, <1>3, <2>1, <2>2, <2>3 DEF Settled
<1>5. CASE ~Acknowledge(c)
  <2>1. message[c] # "ended"
    BY <1>5 DEF Works, Worker, Deliver, WorkerQueued, WorkerRunning, WorkerCompletes,
       WorkerFails, WorkerRaises, WorkerDies, Reopen, Pass
  <2>2. ~HasCompleted(c)
    BY <1>1, <1>2, <2>1 DEF Settled
  <2>3. CASE WorkerCompletes(c)
    <3>1. message'[c] = "ended" /\ Write(c, "completed", NoKey)
      BY <1>1, <2>3 DEF WorkerCompletes, Pass, Types
    <3>2. LastStatus(c)' = "completed"
      BY <1>1, <3>1, WrittenNow DEF Status, Terminal
    <3> QED BY <1>2, <1>3, <3>1, <3>2 DEF Settled
  <2>4. CASE ~WorkerCompletes(c)
    <3>1. \/ records' = records
          \/ \E status \in Status \ {"completed"} : Write(c, status, NoKey)
      BY <1>5, <2>4 DEF Works, Worker, Deliver, WorkerQueued, WorkerRunning, WorkerFails,
         WorkerRaises, WorkerDies, Status, InFlight, Terminal
    <3>2. records' = records => ~HasCompleted(c)'
      BY <2>2 DEF HasCompleted, HasEnded
    <3>3. ~HasCompleted(c)'
      BY <1>1, <2>2, <3>1, <3>2, WrittenNow
    <3> QED BY <1>2, <1>3, <3>3 DEF Settled
  <2> QED BY <2>3, <2>4
<1> QED BY <1>4, <1>5

LEMMA SettledInitially == Init => Timed /\ \A r \in Request : Settled(r)
<1> SUFFICES ASSUME Init PROVE Timed /\ \A r \in Request : Settled(r)
  OBVIOUS
<1>1. \A r \in Request : DOMAIN records[r] = {}
  BY EmptySeq DEF Init
<1> QED BY <1>1 DEF Init, Timed, Settled, HasCompleted, HasEnded

LEMMA SettledKept ==
  ASSUME RInv, RInv', Timed, \A r \in Request : Settled(r), [Next]_vars
  PROVE  Timed' /\ \A r \in Request : Settled(r)'
<1>1. Types /\ Types'
  BY DEF RInv
<1>2. Grow /\ reopened \subseteq reopened'
  BY <1>1, KeyedKept, HistoryGrows
<1>3. Timed' /\ now <= now'
  BY <1>2, TimedKept
<1>4. ASSUME NEW r \in Request PROVE Settled(r)'
  <2>1. CASE UNCHANGED <<pc, message, records>>
    <3>1. FirstStale(r) => FirstStale(r)'
      BY <1>1, <1>2, <1>3, StaleKept
    <3>2. /\ HasCompleted(r)' <=> HasCompleted(r)
          /\ LastStatus(r)' = LastStatus(r)
      BY <2>1 DEF HasCompleted, HasEnded, LastStatus, Recorded
    <3>3. r \notin reopened' => r \notin reopened
      BY <1>2
    <3> QED BY <2>1, <3>1, <3>2, <3>3 DEF Settled
  <2>2. CASE UNCHANGED vars \/ Tick
    BY <2>1, <2>2 DEF vars, Tick
  <2>3. ASSUME NEW c \in Request, Trigger(c) \/ Leaves(c) \/ Works(c)
        PROVE  Settled(r)'
    <3>1. CASE r # c
      BY <1>2, <1>3, <2>3, <3>1, SettledByOthers
    <3>2. CASE r = c
      BY <1>2, <1>3, <2>3, <3>2, SettledByRequest, SettledByWorker
    <3> QED BY <3>1, <3>2
  <2> QED BY <2>2, <2>3, Steps
<1> QED BY <1>3, <1>4

\* Once a run has its completed record, its status stays completed for as long as
\* the record of its request is not stale, unless a worker goes on with the run.
THEOREM CompletedStaysWhileFreshHolds == Spec => []CompletedStaysWhileFreshUnlessReopened
<1> DEFINE CInv == Timed /\ \A r \in Request : Settled(r)
<1>1. Init => CInv
  BY SettledInitially
<1>2. RInv /\ RInv' /\ CInv /\ [Next]_vars => CInv'
  BY SettledKept
<1>3. CInv => CompletedStaysWhileFreshUnlessReopened
  BY DEF CompletedStaysWhileFreshUnlessReopened, Settled, HasCompleted, HasEnded, FirstStale
<1> QED BY <1>1, <1>2, <1>3, RecordInvariance, PTL DEF Spec
=============================================================================
