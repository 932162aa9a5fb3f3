--------------------------- MODULE RefreshTrigger ---------------------------
(***************************************************************************)
(* The refresh endpoints of balance analysis, bond analytics, PnL, product *)
(* categories and source previews (backend/app/services/                   *)
(* balance_analysis_service.py, bond_analytics_service.py, pnl_service.py, *)
(* product_category_pnl_service.py, source_preview_refresh_service.py) for *)
(* one report date.  A request takes the trigger lock for at most 0.1 s,   *)
(* answers with an earlier run of the same idempotency key, refuses while  *)
(* another run is in flight, gives up runs that look in flight for more    *)
(* than an hour, and otherwise records a queued run and sends it to the    *)
(* broker; where the broker is away some run the task themselves, in the   *)
(* lock.  Workers append to the same stream at any moment; they neither    *)
(* hold the trigger lock nor carry the key.  A run is identified with the  *)
(* request that created it.                                                *)
(***************************************************************************)
EXTENDS Naturals, Sequences, FiniteSetsExt

CONSTANTS
  Traffic,        \* bound: [service, who, faults], a service, the requests it
                  \* gets and the failures that may happen
  Request,        \* the refresh requests, and the run_ids they create
  Key,            \* the idempotency key of each request, or NoKey
  NoKey,
  NoRequest,      \* the trigger lock is free
  StaleAfter,     \* STALE_IN_FLIGHT_AFTER
  MaxTime,        \* bound: the clock
  MaxRetries,     \* bound: messages delivered again
  MaxSilent       \* bound: runs that end without a record of it

\* "formal" stands for balance analysis and bond analytics.
Service == {"formal", "pnl", "category", "preview"}
FaultKind ==
  {"dispatch", "request_dies", "request_raises", "worker_fails", "worker_raises", "worker_dies"}

ASSUME RequestAssumption == NoRequest \notin Request
ASSUME BoundAssumption == StaleAfter \in Nat /\ MaxTime \in Nat /\ MaxRetries \in Nat
                           /\ MaxSilent \in Nat
ASSUME TrafficAssumption ==
  Traffic \subseteq [service : Service, who : SUBSET Request, faults : SUBSET FaultKind]

VARIABLES
  service,    \* the service all requests are for
  faults,     \* the failures that may happen
  now,        \* the clock
  trigger,    \* the request holding the trigger lock
  pc,         \* where each request is
  doomed,     \* the runs each request still has to mark as failed
  reply,      \* the answer to each request
  records,    \* the cache_build_run records of each run of the report date
  keyed,      \* the runs whose record with a key is in the stream, in order
  message,    \* the message of each run: unsent, waiting, at a worker, gone
  retries,    \* messages delivered again so far
  silent,     \* history: the runs that ended, and no record says so
  reopened    \* history: the runs whose worker did not end with its completed record

hist == <<silent, reopened>>
vars == <<service, faults, now, trigger, pc, doomed, reply, records, keyed, message, retries, hist>>

Place == {"idle", "lookup", "give_up", "reread", "check", "reconcile", "append",
          "send", "undispatched", "sync", "answered", "dead"}
InFlight == {"queued", "running"}
Terminal == {"completed", "failed"}
Status == InFlight \cup Terminal
Answer == {"none", "queued", "completed", "replay", "conflict", "error"}
Message == {"unsent", "waiting", "taken", "started", "running", "ended", "raised", "gone"}
Keys == {Key[c] : c \in Request}
Record == [status : Status, key : Keys \cup {NoKey}, at : 0 .. MaxTime]

Init ==
  /\ \E t \in Traffic :
       /\ service = t.service /\ faults = t.faults
       /\ pc = [c \in Request |-> IF c \in t.who THEN "idle" ELSE "dead"]
  /\ now = 0
  /\ trigger = NoRequest
  /\ doomed = [c \in Request |-> {}]
  /\ reply = [c \in Request |-> "none"]
  /\ records = [c \in Request |-> <<>>]
  /\ keyed = <<>>
  /\ message = [c \in Request |-> "unsent"]
  /\ retries = 0
  /\ silent = {} /\ reopened = {}

-----------------------------------------------------------------------------
\* Mutant: the limit itself is already stale.
LooksStaleEarly(e) == e.status \in InFlight /\ now - e.at >= StaleAfter

\* _is_stale_inflight_record, and the status the callers ask for with it.
LooksStale(e) == e.status \in InFlight /\ now - e.at > StaleAfter
LooksFresh(e) == e.status \in InFlight /\ now - e.at <= StaleAfter

Recorded(r) == records[r] # <<>>
Last(q) == q[Len(q)]
LastStatus(r) == IF Recorded(r) THEN Last(records[r]).status ELSE "none"

\* _collapse_refresh_records: the last terminal record, else the last one.
Ended(r) == {i \in DOMAIN records[r] : records[r][i].status \in Terminal}
Collapsed(r) ==
  IF Ended(r) = {} THEN Last(records[r]) ELSE records[r][Max(Ended(r))]

\* The record that stands for a run; the previews' are collapsed first.
Latest(r) == IF service = "preview" THEN Collapsed(r) ELSE Last(records[r])

\* Only the record the request appends carries the key: a collapsed run has
\* lost it when a worker has written.
WithKey(k) ==
  {i \in DOMAIN keyed :
     Key[keyed[i]] = k /\ (service = "preview" => Latest(keyed[i]).key = k)}
LatestRunWithKey(k) == keyed[Max(WithKey(k))]
LatestWithKey(k) ==
  LET history == records[LatestRunWithKey(k)]
  IN  history[Max({i \in DOMAIN history : history[i].key = k})]

Write(r, status, key) ==
  /\ records' = [records EXCEPT ![r] =
                   Append(@, [status |-> status, key |-> key, at |-> now])]
  /\ keyed' = IF key = NoKey THEN keyed ELSE Append(keyed, r)

Goto(c, from, to) ==
  /\ pc[c] = from
  /\ pc' = [pc EXCEPT ![c] = to]

\* The request is answered and leaves the trigger lock.
Reply(c, from, answer) ==
  /\ Goto(c, from, "answered")
  /\ reply' = [reply EXCEPT ![c] = answer]
  /\ trigger' = NoRequest

Tick ==
  /\ now < MaxTime
  /\ now' = now + 1
  /\ UNCHANGED <<service, faults, trigger, pc, doomed, reply, records, keyed, message, retries, hist>>

\* Mutant: the idempotency key is not looked up.
EnteredUnkeyed(c) == "check"

Entered(c) == IF Key[c] = NoKey THEN "check" ELSE "lookup"

\* Mutant: the lock is per request instead of per report date.
AcquireOwn(c) ==
  /\ Goto(c, "idle", Entered(c))
  /\ trigger' = c
  /\ UNCHANGED <<service, faults, now, doomed, reply, records, keyed, message, retries, hist>>

AcquireTrigger(c) ==
  /\ Goto(c, "idle", Entered(c))
  /\ trigger = NoRequest
  /\ trigger' = c
  /\ UNCHANGED <<service, faults, now, doomed, reply, records, keyed, message, retries, hist>>

\* TimeoutError after 0.1 s: "already in progress".
TriggerBusy(c) ==
  /\ Goto(c, "idle", "answered")
  /\ trigger # NoRequest
  /\ reply' = [reply EXCEPT ![c] = "conflict"]
  /\ UNCHANGED <<service, faults, now, trigger, doomed, records, keyed, message, retries, hist>>

\* _latest_refresh_for_idempotency_key looks at the last record with the key.
LookupNothing(c) ==
  /\ Goto(c, "lookup", "check")
  /\ WithKey(Key[c]) = {}
  /\ UNCHANGED <<service, faults, now, trigger, doomed, reply, records, keyed, message, retries, hist>>

LookupReplays(c) ==
  /\ Reply(c, "lookup", "replay")
  /\ WithKey(Key[c]) # {}
  /\ ~LooksStale(LatestWithKey(Key[c]))
  /\ UNCHANGED <<service, faults, now, doomed, records, keyed, message, retries, hist>>

LookupStale(c) ==
  /\ Goto(c, "lookup", "give_up")
  /\ WithKey(Key[c]) # {}
  /\ LooksStale(LatestWithKey(Key[c]))
  /\ doomed' = [doomed EXCEPT ![c] = {LatestRunWithKey(Key[c])}]
  /\ UNCHANGED <<service, faults, now, trigger, reply, records, keyed, message, retries, hist>>

\* _mark_stale_inflight_run for the run of the key, whatever became of it; PnL
\* goes on as if there was none.
GiveUpKeyed(c) ==
  /\ Goto(c, "give_up", IF service = "pnl" THEN "check" ELSE "reread")
  /\ \E r \in doomed[c] : Write(r, "failed", NoKey)
  /\ doomed' = [doomed EXCEPT ![c] = {}]
  /\ UNCHANGED <<service, faults, now, trigger, reply, message, retries, hist>>

Reread(c) ==
  /\ Reply(c, "reread", "replay")
  /\ UNCHANGED <<service, faults, now, doomed, records, keyed, message, retries, hist>>

\* _latest_inflight_refresh looks at the last record of every run.
Fresh(r) == Recorded(r) /\ LooksFresh(Latest(r))
GivenUp == {r \in Request : Recorded(r) /\ LooksStale(Latest(r))}

CheckConflict(c) ==
  /\ Reply(c, "check", "conflict")
  /\ \E r \in Request : Fresh(r)
  /\ UNCHANGED <<service, faults, now, doomed, records, keyed, message, retries, hist>>

\* Mutant: the runs in flight are not looked for.
CheckNothing(c) ==
  /\ Goto(c, "check", "reconcile")
  /\ UNCHANGED <<service, faults, now, trigger, doomed, reply, records, keyed, message, retries, hist>>

CheckFree(c) ==
  /\ Goto(c, "check", "reconcile")
  /\ \A r \in Request : ~Fresh(r)
  /\ doomed' = [doomed EXCEPT ![c] = GivenUp]
  /\ UNCHANGED <<service, faults, now, trigger, reply, records, keyed, message, retries, hist>>

MarkStale(c) ==
  /\ pc[c] = "reconcile"
  /\ \E r \in doomed[c] :
       /\ Write(r, "failed", NoKey)
       /\ doomed' = [doomed EXCEPT ![c] = @ \ {r}]
  /\ UNCHANGED <<service, faults, now, trigger, pc, reply, message, retries, hist>>

Reconciled(c) ==
  /\ Goto(c, "reconcile", "append")
  /\ doomed[c] = {}
  /\ UNCHANGED <<service, faults, now, trigger, doomed, reply, records, keyed, message, retries, hist>>

\* Mutant: the message is sent before the run is recorded.
AppendAfterSend(c) ==
  /\ Goto(c, "append", "send")
  /\ message' = [message EXCEPT ![c] = "waiting"]
  /\ UNCHANGED <<service, faults, now, trigger, doomed, reply, records, keyed, retries, hist>>

AppendQueued(c) ==
  /\ Goto(c, "append", "send")
  /\ Write(c, "queued", Key[c])
  /\ UNCHANGED <<service, faults, now, trigger, doomed, reply, message, retries, hist>>

Send(c) ==
  /\ Reply(c, "send", "queued")
  /\ message' = [message EXCEPT ![c] = "waiting"]
  /\ UNCHANGED <<service, faults, now, doomed, records, keyed, retries, hist>>

\* Mutant: an exception of the broker is swallowed.
SendFailsSilently(c) ==
  /\ "dispatch" \in faults
  /\ Reply(c, "send", "queued")
  /\ UNCHANGED <<service, faults, now, doomed, records, keyed, message, retries, hist>>

SendFails(c) ==
  /\ "dispatch" \in faults
  /\ Goto(c, "send", "undispatched")
  /\ UNCHANGED <<service, faults, now, trigger, doomed, reply, records, keyed, message, retries, hist>>

\* Mutant: the error is raised and the queued record stands.
RaiseDispatchFailure(c) ==
  /\ Reply(c, "undispatched", "error")
  /\ service = "category" => message[c] = "raised"
  /\ UNCHANGED <<service, faults, now, doomed, records, keyed, message, retries, hist>>

\* _record_dispatch_failure, then the error is raised.
RecordDispatchFailure(c) ==
  /\ Reply(c, "undispatched", "error")
  /\ service = "category" => message[c] = "raised"
  /\ Write(c, "failed", NoKey)
  /\ UNCHANGED <<service, faults, now, doomed, message, retries, hist>>

\* The request runs the task itself: PnL and previews after some exceptions,
\* product categories after any.
RunsItself(c) ==
  /\ Goto(c, "undispatched", "sync")
  /\ service # "formal"
  /\ message[c] = "unsent"
  /\ message' = [message EXCEPT ![c] = "taken"]
  /\ UNCHANGED <<service, faults, now, trigger, doomed, reply, records, keyed, retries, hist>>

SyncCompletes(c) ==
  /\ Reply(c, "sync", "completed")
  /\ message[c] = "gone"
  /\ UNCHANGED <<service, faults, now, doomed, records, keyed, message, retries, hist>>

\* Whether or not the task has recorded its failure; product categories record
\* one of their own.
SyncRaises(c) ==
  /\ message[c] = "raised"
  /\ IF service = "category"
     THEN Goto(c, "sync", "undispatched") /\ UNCHANGED <<reply, trigger, hist>>
     ELSE Reply(c, "sync", "error")
  /\ UNCHANGED <<service, faults, now, doomed, records, keyed, message, retries, hist>>

MayBeSilent == Cardinality(silent) < MaxSilent

\* The web process dies, with a task it runs itself; the operating system frees
\* the trigger lock.
RequestDies(c) ==
  /\ "request_dies" \in faults
  /\ trigger = c
  /\ pc' = [pc EXCEPT ![c] = "dead"]
  /\ trigger' = NoRequest
  /\ doomed' = [doomed EXCEPT ![c] = {}]
  /\ message' = [message EXCEPT ![c] = IF pc[c] = "sync" THEN "gone" ELSE @]
  /\ UNCHANGED <<service, faults, now, reply, records, keyed, retries, hist>>

\* Reading or appending to the stream, or the job state of a preview, raises and
\* nothing catches it; a record that was to be written may be there all the same.
TriggerRaises(c) ==
  /\ "request_raises" \in faults
  /\ trigger = c /\ pc[c] # "sync"
  /\ MayBeSilent /\ silent' = silent \cup {c}
  /\ Reply(c, pc[c], "error")
  /\ doomed' = [doomed EXCEPT ![c] = {}]
  /\ UNCHANGED <<service, faults, now, records, keyed, message, retries, reopened>>

Trigger(c) ==
  \/ AcquireTrigger(c) \/ TriggerBusy(c)
  \/ LookupNothing(c) \/ LookupReplays(c) \/ LookupStale(c) \/ GiveUpKeyed(c) \/ Reread(c)
  \/ CheckConflict(c) \/ CheckFree(c) \/ MarkStale(c) \/ Reconciled(c)
  \/ AppendQueued(c) \/ Send(c) \/ SendFails(c) \/ RecordDispatchFailure(c)
  \/ RunsItself(c) \/ SyncCompletes(c) \/ SyncRaises(c)

-----------------------------------------------------------------------------
\* run_formal_materialize and the other tasks, as far as the stream shows them:
\* only the first appends a queued record of its own.
Pass(r, from, to) ==
  /\ message[r] = from
  /\ message' = [message EXCEPT ![r] = to]

\* The broker delivers the message of a worker that failed or died again.
Redeliver(r) ==
  /\ retries < MaxRetries
  /\ retries' = retries + 1
  /\ message' = [message EXCEPT ![r] = "waiting"]

\* A task that raises goes back to the request that runs it itself, or to the
\* broker, which gives the message up after the last retry.
Raise(r) ==
  \/ /\ pc[r] = "sync"
     /\ message' = [message EXCEPT ![r] = "raised"]
     /\ UNCHANGED retries
  \/ pc[r] # "sync" /\ Redeliver(r)
  \/ /\ pc[r] # "sync"
     /\ message' = [message EXCEPT ![r] = "gone"]
     /\ UNCHANGED retries

AtWorker == {"taken", "started", "running", "ended"}

\* What a worker does not end with its completed record, it or another may go on with.
Reopen(r) == reopened' = IF message[r] = "ended" THEN reopened \cup {r} ELSE reopened

Deliver(r) ==
  /\ Pass(r, "waiting", "taken")
  /\ UNCHANGED <<service, faults, now, trigger, pc, doomed, reply, records, keyed, retries, hist>>

WorkerQueued(r) ==
  /\ service = "formal"
  /\ Pass(r, "taken", "started")
  /\ Write(r, "queued", NoKey)
  /\ UNCHANGED <<service, faults, now, trigger, pc, doomed, reply, retries, hist>>

WorkerRunning(r) ==
  /\ Pass(r, IF service = "formal" THEN "started" ELSE "taken", "running")
  /\ Write(r, "running", NoKey)
  /\ UNCHANGED <<service, faults, now, trigger, pc, doomed, reply, retries, hist>>

WorkerCompletes(r) ==
  /\ Pass(r, "running", "ended")
  /\ Write(r, "completed", NoKey)
  /\ UNCHANGED <<service, faults, now, trigger, pc, doomed, reply, retries, hist>>

Acknowledge(r) ==
  /\ Pass(r, "ended", "gone")
  /\ UNCHANGED <<service, faults, now, trigger, pc, doomed, reply, records, keyed, retries, hist>>

\* The except branch records the failure; of the formal services and PnL it may
\* follow a completed record whose batch could neither be confirmed nor undone.
WorkerFails(r) ==
  /\ "worker_fails" \in faults
  /\ message[r] = "running" \/ (message[r] = "ended" /\ service \in {"formal", "pnl"})
  /\ Write(r, "failed", NoKey)
  /\ Raise(r) /\ Reopen(r)
  /\ UNCHANGED <<service, faults, now, trigger, pc, doomed, reply, silent>>

\* An exception outside of the try, or one of the except branch: a record that is
\* not written, the rollback of the product categories, of the previews also
\* the restore and the job states, the last of which follows the completed record.
WorkerRaises(r) ==
  /\ "worker_raises" \in faults
  /\ message[r] \in AtWorker
  /\ Raise(r) /\ Reopen(r)
  /\ IF message'[r] = "waiting" THEN UNCHANGED silent
     ELSE MayBeSilent /\ silent' = silent \cup {r}
  /\ UNCHANGED <<service, faults, now, trigger, pc, doomed, reply, records, keyed>>

\* A message no worker acknowledged is delivered again, unless the broker was in
\* memory and is gone with the worker.
WorkerDies(r) ==
  /\ "worker_dies" \in faults
  /\ message[r] \in AtWorker /\ pc[r] # "sync"
  /\ \/ Redeliver(r) /\ UNCHANGED silent
     \/ /\ MayBeSilent /\ silent' = silent \cup {r}
        /\ message' = [message EXCEPT ![r] = "gone"]
        /\ UNCHANGED retries
  /\ Reopen(r)
  /\ UNCHANGED <<service, faults, now, trigger, pc, doomed, reply, records, keyed>>

Worker(r) ==
  \/ Deliver(r) \/ WorkerQueued(r) \/ WorkerRunning(r) \/ WorkerCompletes(r) \/ Acknowledge(r)
  \/ WorkerFails(r)

Next ==
  \/ Tick
  \/ \E c \in Request : \/ Trigger(c) \/ RequestDies(c) \/ TriggerRaises(c)
                        \/ Worker(c) \/ WorkerRaises(c) \/ WorkerDies(c)

Spec == Init /\ [][Next]_vars

\* As long as a request that entered, or a worker with a message, can go on,
\* one of them does; no request has to enter and no failure has to happen.
FairSpec ==
  /\ Spec
  /\ WF_vars(\E c \in Request : (pc[c] # "idle" /\ Trigger(c)) \/ Worker(c))
-----------------------------------------------------------------------------
(***************************************************************************)
(* Properties                                                              *)
(***************************************************************************)
\* Every variable keeps its type; nothing is left to be given up by a request
\* that does not hold the trigger lock.
TypeOK ==
  /\ service \in Service /\ faults \subseteq FaultKind
  /\ now \in 0 .. MaxTime
  /\ trigger \in Request \cup {NoRequest}
  /\ pc \in [Request -> Place]
  /\ doomed \in [Request -> SUBSET Request]
  /\ \A c \in Request : doomed[c] # {} => trigger = c
  /\ reply \in [Request -> Answer]
  /\ records \in [Request -> Seq(Record)]
  /\ keyed \in Seq(Request)
  /\ message \in [Request -> Message]
  /\ retries \in 0 .. MaxRetries
  /\ silent \subseteq Request /\ reopened \subseteq Request

\* An idempotency key starts one run of a report date, however requests
\* interleave with each other, with workers and with the staleness of a run; of
\* PnL a second one only after the first got a terminal record, of previews
\* only after a worker wrote a record of the first.
OneRunPerKey ==
  \A i, j \in DOMAIN keyed :
    (i < j /\ Key[keyed[i]] = Key[keyed[j]]) =>
      \/ service = "pnl" /\ \E n \in DOMAIN records[keyed[i]] :
                              records[keyed[i]][n].status \in Terminal
      \/ service = "preview" /\ Len(records[keyed[i]]) > 1

\* Two runs of a report date are in flight together only if one of them came
\* back: it had been recorded as ended before, by a worker or as stale.
SingleFlightUnlessRevived ==
  \A q, r \in Request :
    (q # r /\ Fresh(q) /\ Fresh(r)) =>
      \E p \in {q, r} : \E i \in DOMAIN records[p] : records[p][i].status \in Terminal

\* The history of a run begins with the record of its request, which carries
\* the key: no worker gets to the stream first.
RequestRecordsFirst ==
  \A r \in Request :
    Recorded(r) => records[r][1].status = "queued" /\ records[r][1].key = Key[r]

\* The run of a request that was answered with an error has a failed record,
\* unless it ended, or the request did, on an exception that no record tells; the
\* run of one that was answered as completed has a completed record in any case.
AnswersAreRecordedUnlessSilent ==
  \A c \in Request :
    /\ reply[c] = "error" /\ c \notin silent =>
         \E n \in DOMAIN records[c] : records[c][n].status = "failed"
    /\ reply[c] = "completed" =>
         \E n \in DOMAIN records[c] : records[c][n].status = "completed"

\* The stream tells what became of every request, from its first record on, but
\* for exceptions that escape the records.
RequestsAreRecordedUnlessSilent == RequestRecordsFirst /\ AnswersAreRecordedUnlessSilent

\* A run whose request was answered with "queued" reaches a terminal record,
\* unless its last worker died with the broker or raised without a record.
AcceptedRunsSettleUnlessSilent ==
  \A c \in Request :
    (reply[c] = "queued") ~> (LastStatus(c) \in Terminal \/ c \in silent)

\* Once a run has its completed record, its status is completed for as long as
\* its request is not stale: a replay of its key judges it by that old record and
\* then appends a failed one to a completed run.  A run that was not acknowledged
\* after that record is another matter: it runs again, or is recorded as failed.
CompletedStaysWhileFreshUnlessReopened ==
  \A r \in Request \ reopened :
    (\E i \in DOMAIN records[r] : records[r][i].status = "completed")
      => LastStatus(r) = "completed" \/ now - records[r][1].at > StaleAfter
=============================================================================
