---------------------------- MODULE PnlByBusiness ----------------------------
(***************************************************************************)
(* PnL by business (backend/app/services/pnl_service.py) and the task that *)
(* writes the facts it shows (backend/app/tasks/pnl_materialize.py,        *)
(* backend/app/tasks/pnl_by_business_precompute.py).                       *)
(*                                                                         *)
(* Adjustments are an append-only stream of events under a maker-checker   *)
(* rule; a request reads the stream, composes the next event from the      *)
(* current one, stamps and appends it, then clears the caches of its       *)
(* process.  A run of the task replaces the facts of its report date and   *)
(* precomputes the pages of that date under the DuckDB writer lock, in     *)
(* transactions of their own.  A page reads facts, precomputed pages and   *)
(* the stream one after the other, under no lock; the year to date is kept *)
(* in an lru_cache, and so are the inputs of the monthly and the analysis  *)
(* page.  There is one web process; the worker is another one.             *)
(***************************************************************************)
EXTENDS Naturals, Sequences, FiniteSets, FiniteSetsExt

CONSTANTS
  Request,      \* requests that create, edit, approve, revoke or restore
  Adjustment,   \* adjustment_ids
  User,         \* authenticated users
  Nobody,       \* the empty user
  Months,       \* report dates of the year: the months 1 .. Months
  Draft,        \* [date, amount] of a create or an edit
  Stream,       \* what the stream may hold at the start
  Batch,        \* [detail, total] of the source rows of a report date
  NoRows,       \* no rows of the date
  Opening,      \* the facts there may be at the start
  Run,          \* refresh runs, each with one message
  NoRun,
  Orders,       \* [date, batch, sync] a run may be asked for
  Reader,       \* loads of a page
  Shift,        \* bound: which of them act together; the others are over
  MaxClock,     \* bound: the instants created_at tells apart
  Faults        \* the failures that may happen, a subset of FaultKind

Date == 1 .. Months
Approval == {"pending", "approved", "rejected"}
Kind == {"created", "edited", "approved", "revoked", "restored"}
Event == [id : Adjustment, kind : Kind, date : Date, amount : Nat,
          status : Approval, created_by : User, approved_by : User \cup {Nobody},
          at : 0 .. MaxClock]
Facts == [Date -> Batch \cup {NoRows}]
Order == [date : Date, batch : Batch \cup {NoRows}, sync : BOOLEAN]
FaultKind == {"source", "storage", "governance", "interrupt"}

ASSUME MonthsAssumption == Months \in Nat \ {0}
ASSUME ClockAssumption == MaxClock \in Nat
ASSUME NobodyAssumption == Nobody \notin User
ASSUME DraftAssumption == Draft \subseteq [date : Date, amount : Nat]
ASSUME BatchAssumption == \A c \in Batch : c.total \in Nat
ASSUME NoRowsAssumption == NoRows \notin Batch
ASSUME NoRunAssumption == NoRun \notin Run
ASSUME OpeningAssumption == Opening \subseteq Facts
ASSUME StreamAssumption == Stream \subseteq Seq(Event)
ASSUME MakerAssumption ==
  \A log \in Stream : \A i, j \in 1 .. Len(log) :
    /\ log[i].id = log[j].id => log[i].created_by = log[j].created_by
    /\ log[i].status = "approved" => log[i].approved_by \in User \ {log[i].created_by}
\* Made by requests that did not overlap: what is approved, revoked or restored
\* was submitted by the create or the edit before it.
ASSUME SubmittedAssumption ==
  \A log \in Stream : \A i \in 1 .. Len(log) :
    /\ log[i].at = 0
    /\ \E j \in 1 .. i :
         /\ log[j].id = log[i].id /\ log[j].kind \in {"created", "edited"}
         /\ log[j].date = log[i].date /\ log[j].amount = log[i].amount
         /\ \A k \in j + 1 .. i :
              log[k].id = log[i].id => log[k].kind \notin {"created", "edited"}
ASSUME OrdersAssumption == Orders \subseteq Order
ASSUME FaultAssumption == Faults \subseteq FaultKind

VARIABLES
  events,     \* the pnl_by_business_adjustments stream
  clock,      \* the wall clock, as far as created_at tells instants apart
  place,      \* where each request is
  composed,   \* the event each request is about to append, if any
  writer,     \* the run holding the DuckDB writer lock
  stage,      \* where each run is
  order,      \* what each run was asked for
  status,     \* the last cache_build_run record of each run
  draft,      \* the precomputed page each run is making
  facts,      \* fact_formal_pnl_fi and fact_nonstd_pnl_bridge
  precomputed,\* fact_pnl_by_business_precompute: at most one page a date
  ytd,        \* _cached_pnl_by_business_ytd_envelope of the web process
  inputs,     \* _cached_pnl_by_business_analysis_inputs of the web process
  page,       \* where each load of a page is
  load,       \* what it has read so far
  raced,      \* history: adjustments two requests of which overlapped
  author,     \* history: the run that wrote the facts of each date
  unstored,   \* history: runs whose pages were dropped without an error
  overtaken,  \* history: loads a cache_clear overtook
  torn,       \* history: loads a commit of facts overtook
  lagging     \* history: runs that committed facts since ytd was last cleared

requestVars == <<place, composed>>
runVars == <<writer, stage, order, status, draft, facts, precomputed, author, unstored>>
pageVars == <<page, load>>
cacheVars == <<ytd, inputs, overtaken, torn, lagging>>
vars == <<events, clock, raced, requestVars, runVars, pageVars, cacheVars>>

RequestPlace == {"idle", "composed", "stamped", "appended", "answered"}
Stage == {"waiting", "asked", "running", "locked", "committed", "read", "marked",
          "stored", "cleared", "over"}
Locked == {"locked", "committed", "read", "marked", "stored", "cleared"}
Status == {"queued", "running", "completed", "failed"}
PagePlace == {"idle", "year", "year listed", "year read", "period", "checked", "found",
              "rebuilding", "reading", "read", "adjusting", "precomputed", "answered",
              "failed"}
Effect == [Adjustment -> Nat]
None == [a \in Adjustment |-> 0]
Empty == [d \in Date |-> NoRows]
NoMark == <<{}, 0>>
NoPage == [dates |-> {}, rows |-> Empty, mark |-> NoMark]
NoLoad == [end |-> 1, manual |-> FALSE, mark |-> NoMark, dates |-> {}, rows |-> Empty,
           left |-> {}, total |-> None]

Init ==
  /\ events \in Stream
  /\ clock = 0
  /\ raced = {}
  /\ \E who \in Shift :
       /\ place = [q \in Request |-> IF q \in who THEN "idle" ELSE "answered"]
       /\ stage = [b \in Run |-> IF b \in who THEN "waiting" ELSE "over"]
       /\ page = [h \in Reader |-> IF h \in who THEN "idle" ELSE "failed"]
  /\ composed = [q \in Request |-> <<>>]
  /\ writer = NoRun
  /\ order = [b \in Run |-> [date |-> 1, batch |-> NoRows, sync |-> FALSE]]
  /\ status = [b \in Run |-> "queued"]
  /\ draft = [b \in Run |-> NoPage]
  /\ facts \in Opening
  /\ precomputed = [d \in Date |-> {}]
  /\ author = [d \in Date |-> NoRun]
  /\ unstored = {}
  /\ ytd = {}
  /\ inputs = {}
  /\ overtaken = {}
  /\ torn = {}
  /\ lagging = {}
  /\ load = [h \in Reader |-> NoLoad]

-----------------------------------------------------------------------------
(***************************************************************************)
(* Reading the stream and the facts                                        *)
(***************************************************************************)
Positions(a) == {i \in 1 .. Len(events) : events[i].id = a}
Known(a) == Positions(a) # {}

\* Mutant: `>` in place of `>=`, the first of two simultaneous events stays.
CurrentStrict(a) ==
  events[CHOOSE i \in Positions(a) : \A j \in Positions(a) :
           events[j].at < events[i].at \/ (events[j].at = events[i].at /\ i <= j)]

\* _reduce_latest_pnl_by_business_manual_adjustments: the latest by created_at,
\* the later of two simultaneous ones.
Current(a) ==
  events[CHOOSE i \in Positions(a) : \A j \in Positions(a) :
           events[j].at < events[i].at \/ (events[j].at = events[i].at /\ j <= i)]

\* Mutant: the approved events are selected before the latest is taken.
ActiveOfApproved(a, d) ==
  \E i \in Positions(a) : events[i].date = d /\ events[i].status = "approved"

\* _active_pnl_by_business_manual_adjustments: the latest event first, then
\* those of the date that are approved.
Active(a, d) == Known(a) /\ Current(a).date = d /\ Current(a).status = "approved"

Counted(d) == [a \in Adjustment |-> IF Active(a, d) THEN Current(a).amount ELSE 0]
Plus(t, u) == [a \in Adjustment |-> t[a] + u[a]]

\* list_union_report_dates, max_formal_or_nonstd_report_date_in_year.
DatesOf(f) == {d \in Date : f[d] # NoRows}
UpTo(f, d) == [e \in Date |-> IF e <= d THEN f[e] ELSE NoRows]

\* pnl_by_business_precompute_source_version: the report dates, and counts and
\* sums over all of them together.
SourceVersion(f) == <<DatesOf(f), MapThenSumSet(LAMBDA d : f[d].total, DatesOf(f))>>

\* ":unavailable", of no facts at all (0 is no report date): what it returns in
\* place of raising if the file cannot be opened.
Unavailable == <<{0}, 0>>
MarksOf(f) == {SourceVersion(f)} \cup IF "storage" \in Faults THEN {Unavailable} ELSE {}

-----------------------------------------------------------------------------
(***************************************************************************)
(* Requests                                                                *)
(***************************************************************************)
\* Everything up to created_at, which is not taken yet.
Compose(q, e) ==
  /\ place[q] = "idle"
  /\ place' = [place EXCEPT ![q] = "composed"]
  /\ composed' = [composed EXCEPT ![q] = <<[e EXCEPT !.at = 0]>>]
  /\ UNCHANGED <<events, clock, raced, runVars, pageVars, cacheVars>>

\* The request answers 403, 404 or the current record, and appends nothing.
Return(q) ==
  /\ place[q] = "idle"
  /\ place' = [place EXCEPT ![q] = "answered"]
  /\ UNCHANGED <<events, clock, raced, composed, runVars, pageVars, cacheVars>>

\* The id is a new uuid.  Whatever status the request asks for, it is pending.
Create(q, u, a, f) ==
  /\ ~Known(a)
  /\ \A p \in Request : composed[p] # <<>> => composed[p][1].id # a
  /\ Compose(q, [id |-> a, kind |-> "created", date |-> f.date, amount |-> f.amount,
                 status |-> "pending", created_by |-> u, approved_by |-> Nobody,
                 at |-> 0])

\* Mutant: the editor becomes the maker of the adjustment.
EditTakesOver(q, u, a, f) ==
  /\ Known(a)
  /\ Compose(q, [Current(a) EXCEPT !.kind = "edited", !.date = f.date,
                 !.amount = f.amount, !.status = "pending", !.created_by = u,
                 !.approved_by = Nobody])

\* The user who edits is not recorded.
Edit(q, u, a, f) ==
  /\ Known(a)
  /\ Compose(q, [Current(a) EXCEPT !.kind = "edited", !.date = f.date,
                 !.amount = f.amount, !.status = "pending", !.approved_by = Nobody])

Approve(q, u, a) ==
  /\ Known(a)
  /\ IF Current(a).created_by = u \/ Current(a).status = "approved"
     THEN Return(q)
     ELSE Compose(q, [Current(a) EXCEPT !.kind = "approved", !.status = "approved",
                      !.approved_by = u])

Revoke(q, a) ==
  /\ Known(a)
  /\ IF Current(a).status = "rejected"
     THEN Return(q)
     ELSE Compose(q, [Current(a) EXCEPT !.kind = "revoked", !.status = "rejected",
                      !.approved_by = Nobody])

\* Mutant: a restored adjustment counts again at once.
RestoreApproved(q, a) ==
  /\ Known(a)
  /\ IF Current(a).status \in {"approved", "pending"}
     THEN Return(q)
     ELSE Compose(q, [Current(a) EXCEPT !.kind = "restored", !.status = "approved",
                      !.approved_by = Nobody])

Restore(q, a) ==
  /\ Known(a)
  /\ IF Current(a).status \in {"approved", "pending"}
     THEN Return(q)
     ELSE Compose(q, [Current(a) EXCEPT !.kind = "restored", !.status = "pending",
                      !.approved_by = Nobody])

Unknown(q, a) == ~Known(a) /\ Return(q)

\* datetime.now(UTC): two requests may get the same instant.
Stamp(q) ==
  /\ place[q] = "composed"
  /\ place' = [place EXCEPT ![q] = "stamped"]
  /\ \E t \in {clock, clock + 1} \cap (0 .. MaxClock) :
       /\ clock' = t
       /\ composed' = [composed EXCEPT ![q] = <<[@[1] EXCEPT !.at = t]>>]
  /\ UNCHANGED <<events, raced, runVars, pageVars, cacheVars>>

Busy(a) == {p \in Request : place[p] \in {"composed", "stamped"} /\ composed[p][1].id = a}

\* GovernanceRepository.append.
AppendEvent(q) ==
  /\ place[q] = "stamped"
  /\ place' = [place EXCEPT ![q] = "appended"]
  /\ events' = Append(events, composed[q][1])
  /\ raced' = IF Busy(composed[q][1].id) = {q} THEN raced
              ELSE raced \cup {composed[q][1].id}
  /\ composed' = [composed EXCEPT ![q] = <<>>]
  /\ UNCHANGED <<clock, runVars, pageVars, cacheVars>>

\* cache_clear: a load under way has passed its lookup and will store later.
ClearYtd ==
  /\ ytd' = {}
  /\ overtaken' = Reader
  /\ lagging' = {}

\* _clear_pnl_by_business_manual_adjustment_caches.
ClearCaches(q) ==
  /\ place[q] = "appended"
  /\ place' = [place EXCEPT ![q] = "answered"]
  /\ ClearYtd
  /\ inputs' = {}
  /\ UNCHANGED <<events, clock, raced, composed, runVars, pageVars, torn>>

-----------------------------------------------------------------------------
(***************************************************************************)
(* Runs of the materialize task                                            *)
(***************************************************************************)
Step(b, from, to) ==
  /\ stage[b] = from
  /\ stage' = [stage EXCEPT ![b] = to]

\* refresh_pnl clears the inputs, reads the source and sends the message, or
\* runs the task itself when the broker is away.
Ask(b, o) ==
  /\ Step(b, "waiting", "asked")
  /\ order' = [order EXCEPT ![b] = o]
  /\ inputs' = {}
  /\ UNCHANGED <<events, clock, raced, requestVars, writer, status, draft, facts,
                 precomputed, author, unstored, pageVars, ytd, overtaken, torn, lagging>>

AppendRunning(b) ==
  /\ Step(b, "asked", "running")
  /\ status' = [status EXCEPT ![b] = "running"]
  /\ UNCHANGED <<events, clock, raced, requestVars, writer, order, draft, facts,
                 precomputed, author, unstored, pageVars, cacheVars>>

Acquire(b) ==
  /\ writer = NoRun
  /\ Step(b, "running", "locked")
  /\ writer' = b
  /\ UNCHANGED <<events, clock, raced, requestVars, order, status, draft, facts,
                 precomputed, author, unstored, pageVars, cacheVars>>

\* Mutant: the lock covers the facts and not the precomputation.
CommitFactsReleasing(b) ==
  /\ Step(b, "locked", "committed")
  /\ facts' = [facts EXCEPT ![order[b].date] = order[b].batch]
  /\ author' = [author EXCEPT ![order[b].date] = b]
  /\ lagging' = lagging \cup {b}
  /\ torn' = Reader
  /\ writer' = NoRun
  /\ UNCHANGED <<events, clock, raced, requestVars, order, status, draft,
                 precomputed, unstored, pageVars, ytd, inputs, overtaken>>

\* One transaction deletes and inserts the rows of the report date.
CommitFacts(b) ==
  /\ Step(b, "locked", "committed")
  /\ facts' = [facts EXCEPT ![order[b].date] = order[b].batch]
  /\ author' = [author EXCEPT ![order[b].date] = b]
  /\ lagging' = lagging \cup {b}
  /\ torn' = Reader
  /\ UNCHANGED <<events, clock, raced, requestVars, writer, order, status, draft,
                 precomputed, unstored, pageVars, ytd, inputs, overtaken>>

\* precompute_pnl_by_business_payloads reads the rows of the year up to the
\* last date that has any,
PrecomputeReads(b) ==
  LET f == UpTo(facts, order[b].date) IN
  /\ DatesOf(f) # {}
  /\ Step(b, "committed", "read")
  /\ draft' = [draft EXCEPT ![b] = [dates |-> DatesOf(f), rows |-> f, mark |-> NoMark]]
  /\ UNCHANGED <<events, clock, raced, requestVars, writer, order, status, facts,
                 precomputed, author, unstored, pageVars, cacheVars>>

\* asks for their source version over another connection,
PrecomputeMarks(b) ==
  /\ Step(b, "read", "marked")
  /\ \E mark \in MarksOf(UpTo(facts, Max(draft[b].dates))) :
       draft' = [draft EXCEPT ![b].mark = mark]
  /\ UNCHANGED <<events, clock, raced, requestVars, writer, order, status, facts,
                 precomputed, author, unstored, pageVars, cacheVars>>

\* Mutant: the pages are inserted and those of the date not deleted.
PrecomputeInserts(b) ==
  /\ Step(b, "marked", "stored")
  /\ precomputed' = [precomputed EXCEPT ![Max(draft[b].dates)] = @ \cup {draft[b]}]
  /\ UNCHANGED <<events, clock, raced, requestVars, writer, order, status, draft, facts,
                 author, unstored, pageVars, cacheVars>>

\* and replaces the pages of that date in a transaction of their own.
PrecomputeStores(b) ==
  /\ Step(b, "marked", "stored")
  /\ precomputed' = [precomputed EXCEPT ![Max(draft[b].dates)] = {draft[b]}]
  /\ UNCHANGED <<events, clock, raced, requestVars, writer, order, status, draft, facts,
                 author, unstored, pageVars, cacheVars>>

\* If the file cannot be opened for that, the error is dropped, the pages stay
\* what they were, and the run goes on.
PrecomputeDrops(b) ==
  /\ "storage" \in Faults
  /\ Step(b, "marked", "stored")
  /\ unstored' = unstored \cup {b}
  /\ UNCHANGED <<events, clock, raced, requestVars, writer, order, status, draft, facts,
                 precomputed, author, pageVars, cacheVars>>

\* Mutant: the inputs are cleared and not the year to date.
ClearInputsOnly(b) ==
  /\ Step(b, "stored", "cleared")
  /\ IF order[b].sync THEN inputs' = {} /\ lagging' = {} ELSE UNCHANGED <<inputs, lagging>>
  /\ UNCHANGED <<events, clock, raced, requestVars, writer, order, status, draft, facts,
                 precomputed, author, unstored, pageVars, ytd, overtaken, torn>>

\* _clear_pnl_page_runtime_caches clears the year to date of its own process.
ClearPageCaches(b) ==
  /\ Step(b, "stored", "cleared")
  /\ IF order[b].sync THEN ClearYtd ELSE UNCHANGED <<ytd, overtaken, lagging>>
  /\ UNCHANGED <<events, clock, raced, requestVars, writer, order, status, draft, facts,
                 precomputed, author, unstored, pageVars, inputs, torn>>

\* The manifest and the completed record, in one append; the lock is released.
AppendCompleted(b) ==
  /\ Step(b, "cleared", "over")
  /\ status' = [status EXCEPT ![b] = "completed"]
  /\ writer' = NoRun
  /\ draft' = [draft EXCEPT ![b] = NoPage]
  /\ UNCHANGED <<events, clock, raced, requestVars, order, facts, precomputed, author, unstored,
                 pageVars, cacheVars>>

\* The stages in which the run may raise, and why.
MayRaise(b) ==
  \/ stage[b] = "running" /\ writer # NoRun                     \* lock timeout
  \/ stage[b] = "locked" /\ Faults \cap {"source", "storage"} # {}
  \/ stage[b] = "committed" /\ DatesOf(UpTo(facts, order[b].date)) = {}
  \/ stage[b] \in {"committed", "read", "marked"} /\ "storage" \in Faults
  \/ stage[b] = "cleared" /\ "governance" \in Faults

\* Mutant: an exception leaves the lock taken.
KeepLock(b) ==
  /\ UNCHANGED writer
  /\ draft' = [draft EXCEPT ![b] = NoPage]

LeaveLock(b) ==
  /\ writer' = IF writer = b THEN NoRun ELSE writer
  /\ draft' = [draft EXCEPT ![b] = NoPage]

\* Mutant: a precomputation that cannot be stored is no failure of the run.
RunFailsUnlessCommitted(b) ==
  /\ MayRaise(b)
  /\ stage' = [stage EXCEPT ![b] = "over"]
  /\ status' = [status EXCEPT ![b] = IF stage[b] = "marked" THEN "completed" ELSE "failed"]
  /\ LeaveLock(b)
  /\ UNCHANGED <<events, clock, raced, requestVars, order, facts, precomputed, author, unstored,
                 pageVars, cacheVars>>

\* Any exception is recorded, also one after the facts were committed.
RunFails(b) ==
  /\ MayRaise(b)
  /\ stage' = [stage EXCEPT ![b] = "over"]
  /\ status' = [status EXCEPT ![b] = "failed"]
  /\ LeaveLock(b)
  /\ UNCHANGED <<events, clock, raced, requestVars, order, facts, precomputed, author, unstored,
                 pageVars, cacheVars>>

\* The running record cannot be appended, or the failed one cannot.
AppendRaises(b) ==
  /\ "governance" \in Faults
  /\ stage[b] = "asked" \/ MayRaise(b)
  /\ stage' = [stage EXCEPT ![b] = "over"]
  /\ LeaveLock(b)
  /\ UNCHANGED <<events, clock, raced, requestVars, order, status, facts, precomputed,
                 author, unstored, pageVars, cacheVars>>

\* The worker dies: the lock and an open transaction go with it.
Interrupt(b) ==
  /\ "interrupt" \in Faults
  /\ ~order[b].sync
  /\ stage[b] \notin {"waiting", "over"}
  /\ stage' = [stage EXCEPT ![b] = "over"]
  /\ LeaveLock(b)
  /\ UNCHANGED <<events, clock, raced, requestVars, order, status, facts, precomputed,
                 author, unstored, pageVars, cacheVars>>

-----------------------------------------------------------------------------
(***************************************************************************)
(* The pages                                                               *)
(***************************************************************************)
\* The last report date that has rows: as_cap of the year to date, period_end
\* of the monthly and the analysis page.  A year to date found in the cache is
\* the answer and changes nothing; one without facts is another path.
Begins(h, to) ==
  /\ page[h] = "idle"
  /\ DatesOf(facts) # {}
  /\ page' = [page EXCEPT ![h] = to]
  /\ load' = [load EXCEPT ![h].end = Max(DatesOf(facts))]
  /\ UNCHANGED <<events, clock, raced, requestVars, runVars, ytd, inputs, lagging>>

YtdBegins(h) ==
  /\ ytd = {}
  /\ Begins(h, "year")
  /\ overtaken' = overtaken \ {h}
  /\ torn' = torn \ {h}

PeriodBegins(h) == Begins(h, "period") /\ UNCHANGED <<overtaken, torn>>

\* list_union_report_dates, up to that date.
YtdLists(h) ==
  LET dates == DatesOf(UpTo(facts, load[h].end)) IN
  /\ page[h] = "year"
  /\ dates # {}
  /\ page' = [page EXCEPT ![h] = "year listed"]
  /\ load' = [load EXCEPT ![h].dates = dates, ![h].left = dates]
  /\ UNCHANGED <<events, clock, raced, requestVars, runVars, cacheVars>>

\* fetch_by_business_analysis_pnl_rows.
YtdReads(h) ==
  LET rows == UpTo(facts, load[h].end) IN
  /\ page[h] = "year listed"
  /\ DatesOf(rows) # {}
  /\ page' = [page EXCEPT ![h] = "year read"]
  /\ load' = [load EXCEPT ![h].rows = rows]
  /\ UNCHANGED <<events, clock, raced, requestVars, runVars, cacheVars>>

\* One turn of `for report_date in loaded_dates`, which reads the stream again.
Adjust(h) ==
  LET d == Min(load[h].left) IN
  /\ page[h] \in {"year read", "adjusting"}
  /\ load[h].left # {}
  /\ load' = [load EXCEPT ![h].left = @ \ {d}, ![h].total = Plus(@, Counted(d))]
  /\ UNCHANGED <<events, clock, raced, requestVars, runVars, page, cacheVars>>

YtdAnswer(h) ==
  [dates |-> load[h].dates, rows |-> load[h].rows, total |-> load[h].total,
   overtaken |-> h \in overtaken, torn |-> h \in torn]

\* lru_cache keeps what another load has stored meanwhile.
YtdStores(h) ==
  /\ page[h] = "year read"
  /\ load[h].left = {}
  /\ page' = [page EXCEPT ![h] = "answered"]
  /\ ytd' = IF ytd = {} THEN {YtdAnswer(h)} ELSE ytd
  /\ UNCHANGED <<events, clock, raced, requestVars, runVars, load, inputs, overtaken,
                 torn, lagging>>

\* _has_pnl_by_business_manual_adjustments_in_period.
PeriodChecks(h) ==
  /\ page[h] = "period"
  /\ page' = [page EXCEPT ![h] = "checked"]
  /\ load' = [load EXCEPT ![h].manual =
                \E a \in Adjustment, d \in 1 .. load[h].end : Active(a, d)]
  /\ UNCHANGED <<events, clock, raced, requestVars, runVars, cacheVars>>

\* fetch_pnl_by_business_precompute: the page of the date, if there is one and
\* the file can be opened,
PeriodFinds(h) ==
  /\ page[h] = "checked"
  /\ \/ /\ precomputed[load[h].end] = {} \/ "storage" \in Faults
        /\ page' = [page EXCEPT ![h] = "rebuilding"]
        /\ UNCHANGED load
     \/ /\ page' = [page EXCEPT ![h] = "found"]
        /\ \E p \in precomputed[load[h].end] :
             load' = [load EXCEPT ![h].rows = p.rows, ![h].mark = p.mark]
  /\ UNCHANGED <<events, clock, raced, requestVars, runVars, cacheVars>>

\* and its source version must be the one of the facts of now, or both unavailable.
PeriodMatches(h) ==
  /\ page[h] = "found"
  /\ \E mark \in MarksOf(UpTo(facts, load[h].end)) :
       page' = [page EXCEPT ![h] = IF load[h].mark = mark /\ ~load[h].manual
                                   THEN "precomputed" ELSE "rebuilding"]
  /\ UNCHANGED <<events, clock, raced, requestVars, runVars, load, cacheVars>>

\* The report dates; _cached_pnl_by_business_analysis_inputs is looked up by
\* the first and the last of the period.
Span(h, dates) == <<Min(dates), load[h].end>>

\* No rows at all are cached too, and refused.
Served(rows) == IF DatesOf(rows) = {} THEN "failed" ELSE "adjusting"

PeriodLists(h) ==
  LET dates == DatesOf(UpTo(facts, load[h].end))
      cached == {x \in inputs : x.span = Span(h, dates)}
  IN
  /\ page[h] = "rebuilding"
  /\ dates # {}
  /\ \E rows \in IF cached = {} THEN {Empty} ELSE {x.rows : x \in cached} :
       /\ load' = [load EXCEPT ![h].dates = dates, ![h].left = dates, ![h].rows = rows]
       /\ page' = [page EXCEPT ![h] = IF cached = {} THEN "reading" ELSE Served(rows)]
  /\ UNCHANGED <<events, clock, raced, requestVars, runVars, cacheVars>>

PeriodReads(h) ==
  /\ page[h] = "reading"
  /\ page' = [page EXCEPT ![h] = "read"]
  /\ load' = [load EXCEPT ![h].rows = UpTo(facts, load[h].end)]
  /\ UNCHANGED <<events, clock, raced, requestVars, runVars, cacheVars>>

PeriodStores(h) ==
  LET span == Span(h, load[h].dates) IN
  /\ page[h] = "read"
  /\ page' = [page EXCEPT ![h] = Served(load[h].rows)]
  /\ inputs' = IF \E x \in inputs : x.span = span THEN inputs
               ELSE inputs \cup {[span |-> span, rows |-> load[h].rows]}
  /\ UNCHANGED <<events, clock, raced, requestVars, runVars, load, ytd, overtaken, torn,
                 lagging>>

PeriodAnswers(h) ==
  /\ page[h] = "adjusting"
  /\ load[h].left = {}
  /\ page' = [page EXCEPT ![h] = "answered"]
  /\ UNCHANGED <<events, clock, raced, requestVars, runVars, load, cacheVars>>

\* Facts that are gone, or a file another connection holds: 404 or 503.
Fails(h) ==
  /\ \/ page[h] \in {"year", "year listed", "rebuilding"}
        /\ DatesOf(UpTo(facts, load[h].end)) = {}
     \/ page[h] \in {"year", "year listed", "checked", "found", "rebuilding", "reading"}
        /\ "storage" \in Faults
  /\ page' = [page EXCEPT ![h] = "failed"]
  /\ UNCHANGED <<events, clock, raced, requestVars, runVars, load, cacheVars>>

-----------------------------------------------------------------------------
RequestNext(q) ==
  \/ \E a \in Adjustment :
       \/ \E u \in User, f \in Draft : Create(q, u, a, f) \/ Edit(q, u, a, f)
       \/ \E u \in User : Approve(q, u, a)
       \/ Revoke(q, a) \/ Restore(q, a) \/ Unknown(q, a)
  \/ Stamp(q) \/ AppendEvent(q) \/ ClearCaches(q)

RunNext(b) ==
  \/ \E o \in Orders : Ask(b, o)
  \/ AppendRunning(b) \/ Acquire(b) \/ CommitFacts(b)
  \/ PrecomputeReads(b) \/ PrecomputeMarks(b) \/ PrecomputeStores(b) \/ PrecomputeDrops(b)
  \/ ClearPageCaches(b) \/ AppendCompleted(b)
  \/ RunFails(b) \/ AppendRaises(b) \/ Interrupt(b)

PageNext(h) ==
  \/ YtdBegins(h) \/ YtdLists(h) \/ YtdReads(h) \/ YtdStores(h)
  \/ PeriodBegins(h) \/ PeriodChecks(h) \/ PeriodFinds(h) \/ PeriodMatches(h)
  \/ PeriodLists(h) \/ PeriodReads(h) \/ PeriodStores(h) \/ PeriodAnswers(h)
  \/ Adjust(h) \/ Fails(h)

Next ==
  \/ \E q \in Request : RequestNext(q)
  \/ \E b \in Run : RunNext(b)
  \/ \E h \in Reader : PageNext(h)

Spec == Init /\ [][Next]_vars

-----------------------------------------------------------------------------
(***************************************************************************)
(* Properties                                                              *)
(***************************************************************************)
Mark == {SourceVersion(f) : f \in Facts} \cup {NoMark, Unavailable}
Page == [dates : SUBSET Date, rows : Facts, mark : Mark]
Load == [end : Date, manual : BOOLEAN, mark : Mark, dates : SUBSET Date, rows : Facts,
         left : SUBSET Date, total : Effect]
Answer == [dates : SUBSET Date, rows : Facts, total : Effect, overtaken : BOOLEAN,
           torn : BOOLEAN]
Inputs == [span : Date \X Date, rows : Facts]

\* Every variable keeps its type; a request holds an event exactly between its
\* reads and its append, and a run the writer lock only while it writes.
TypeOK ==
  /\ events \in Seq(Event)
  /\ clock \in 0 .. MaxClock
  /\ raced \subseteq Adjustment
  /\ place \in [Request -> RequestPlace]
  /\ composed \in [Request -> Seq(Event)]
  /\ \A q \in Request : (Len(composed[q]) = 1) = (place[q] \in {"composed", "stamped"})
  /\ writer \in Run \cup {NoRun}
  /\ \A b \in Run : (writer = b) = (stage[b] \in Locked)
  /\ stage \in [Run -> Stage]
  /\ order \in [Run -> Order]
  /\ status \in [Run -> Status]
  /\ draft \in [Run -> Page]
  /\ facts \in Facts
  /\ precomputed \in [Date -> SUBSET Page]
  /\ author \in [Date -> Run \cup {NoRun}] /\ unstored \subseteq Run
  /\ ytd \subseteq Answer
  /\ inputs \subseteq Inputs
  /\ page \in [Reader -> PagePlace]
  /\ load \in [Reader -> Load]
  /\ overtaken \subseteq Reader /\ torn \subseteq Reader /\ lagging \subseteq Run

\* The user who created an adjustment is never the one who approved it, and
\* what is approved has been approved by somebody, whatever edits, revocations
\* and restorations lie between the two events and in whatever order requests
\* read and appended.
MakerNeverApproves ==
  \A i, j \in 1 .. Len(events) :
    (events[i].id = events[j].id /\ events[i].status = "approved"
       /\ events[j].kind = "created")
      => events[i].approved_by \in User \ {events[j].created_by}

Fields(e) == <<e.date, e.amount>>

\* As long as the requests about an adjustment did not overlap, its current
\* record is the last event appended, with the fields last submitted, however
\* coarse the clock: an approval approves what was last submitted.
CurrentIsLastUnlessRaced ==
  \A a \in Adjustment \ raced : Known(a) =>
    LET submitted == {i \in Positions(a) : events[i].kind \in {"created", "edited"}} IN
    /\ Current(a) = events[Max(Positions(a))]
    /\ Fields(Current(a)) = Fields(events[Max(submitted)])

\* A year to date in the cache counts each adjustment as the stream does now,
\* once, unless a cache_clear overtook its load: an event is in the stream
\* before the caches are cleared.
CachedYtdCountsUnlessOvertaken ==
  \A x \in ytd : \A a \in Adjustment :
    (~x.overtaken /\ \A q \in Request : place[q] # "appended")
      => x.total[a] = IF Known(a) /\ Current(a).status = "approved"
                         /\ Current(a).date \in x.dates
                      THEN Current(a).amount ELSE 0

\* A year to date in the cache has the rows of the facts of now, unless a commit
\* overtook its load, or a run has committed facts and not cleared the cache
\* since: a run in the web process clears it after its commit.  (A run in the
\* worker never does.)
CachedYtdShowsFactsUnlessLagging ==
  \A x \in ytd :
    (~x.torn /\ lagging = {})
      => x.dates = DatesOf(facts) /\ x.rows = facts

\* A precomputed page that is answered has the report dates and the totals of
\* the facts of that moment, whatever runs, failures and restarts lie between
\* the reads it was made from: they are all under the writer lock.  An old page
\* a run has failed to replace is not answered.  (Two marks that are unavailable
\* are equal, though, whatever the facts: a page marked so is excepted.)
AnswersPrecomputedOfSameTotalsUnlessUnmarked ==
  [][\A h \in Reader :
       (page[h] = "found" /\ page'[h] = "precomputed" /\ load[h].mark # Unavailable)
         => SourceVersion(load[h].rows) = SourceVersion(UpTo(facts, load[h].end))]_vars

\* A run that is recorded as completed left a precomputed page with its rows,
\* as long as no other run wrote its report date, unless the file could not be
\* opened to store it, which no record tells.
CompletedRunIsPrecomputedUnlessUnstored ==
  \A b \in Run \ unstored :
    LET d == order[b].date IN
    (status[b] = "completed" /\ author[d] = b /\ order[b].batch # NoRows)
      => \E p \in precomputed[d] : p.rows[d] = facts[d] /\ Cardinality(precomputed[d]) = 1
=============================================================================
