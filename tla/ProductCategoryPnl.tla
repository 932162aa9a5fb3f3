-------------------------- MODULE ProductCategoryPnl --------------------------
(***************************************************************************)
(* The manual adjustments of product-category PnL and the formal facts     *)
(* they enter (backend/app/services/product_category_pnl_service.py and    *)
(* backend/app/tasks/product_category_pnl.py).                             *)
(*                                                                         *)
(* The adjustments are an append-only stream of events.  A request reads   *)
(* the stream, takes the latest event of its adjustment, composes the next *)
(* one from it, stamps it with the wall clock and appends it: three steps  *)
(* no lock holds together.  A build runs under the DuckDB writer lock and  *)
(* rewrites all report dates in one transaction, reading the stream once   *)
(* per date; its manifest and its completed record follow outside the      *)
(* lock.  The home page reads the year to date from the formal read model  *)
(* and, when that cannot be had, rebuilds it from the canonical facts.     *)
(*                                                                         *)
(* An adjustment is a DELTA on an account of its own: a fact row is        *)
(* described by how much each adjustment added to it.                      *)
(***************************************************************************)
EXTENDS Naturals, Sequences, FiniteSets

CONSTANTS
  Request,      \* requests that create, edit, revoke or restore
  Adjustment,   \* adjustment_ids
  Months,       \* report dates of the source pairs: the months 1 .. Months
  Amount,       \* monthly_pnl of a request
  Draft,        \* the fields a create or an edit submits
  Build,        \* deliveries of refresh messages; a redelivery is a build too
  NoBuild,
  Reader,       \* loads of the home page
  Stream,       \* what the stream may hold at the start
  MaxClock,     \* bound: the instants created_at tells apart
  Faults        \* the failures that may happen, a subset of FaultKind

Date == 1 .. Months
Approval == {"approved", "pending", "rejected"}
Kind == {"created", "edited", "revoked", "restored"}
Event == [id : Adjustment, kind : Kind, date : Date, amount : Amount,
          status : Approval, at : 0 .. MaxClock]
FaultKind == {"source", "commit", "governance", "interrupt"}

ASSUME ClockAssumption == MaxClock \in Nat
ASSUME MonthsAssumption == Months \in Nat \ {0}
ASSUME AmountAssumption == Amount \subseteq Nat
ASSUME DraftAssumption == Draft \subseteq [date : Date, amount : Amount, status : Approval]
\* Nothing yet, or an adjustment that was created.
ASSUME StreamAssumption ==
  Stream \subseteq {<<>>} \cup {<<e>> : e \in {f \in Event : f.kind = "created" /\ f.at = 0}}
ASSUME NoBuildAssumption == NoBuild \notin Build
ASSUME FaultAssumption == Faults \subseteq FaultKind

VARIABLES
  events,     \* the product_category_pnl_adjustments stream
  clock,      \* the wall clock, as far as created_at tells instants apart
  place,      \* where each request is
  composed,   \* the event each request is about to append, if any
  writer,     \* the build holding the DuckDB writer lock
  stage,      \* where each build is
  status,     \* the last cache_build_run record of each build
  manifest,   \* the builds that appended a cache_manifest record
  staged,     \* the open transaction: the facts of the dates inserted so far
  facts,      \* product_category_pnl_canonical_fact, empty before any build
  page,       \* where each load of the home page is
  anchor,     \* the report date it asks for
  rebuilt,    \* facts_by: the rows it has rebuilt so far
  asked,      \* history: length of the stream when a build was delivered
  stagedFrom, \* history: length of the stream when each date was staged
  factsFrom,  \* history: the same for the facts
  raced       \* history: adjustments two requests of which overlapped

requestVars == <<place, composed>>
buildVars == <<writer, stage, status, manifest, staged, facts, asked, stagedFrom,
               factsFrom>>
pageVars == <<page, anchor, rebuilt>>
vars == <<events, clock, raced, requestVars, buildVars, pageVars>>

Effect == [Adjustment -> Nat]
RequestPlace == {"idle", "composed", "stamped", "answered"}
Stage == {"waiting", "blocked", "running", "loading", "committed", "certified", "over"}
Status == {"queued", "running", "completed", "failed"}
PagePlace == {"idle", "fallback", "rebuilding"}

Init ==
  /\ events \in Stream
  /\ clock = 0
  /\ raced = {}
  /\ place = [q \in Request |-> "idle"]
  /\ composed = [q \in Request |-> <<>>]
  /\ writer = NoBuild
  /\ stage = [b \in Build |-> "waiting"]
  /\ status = [b \in Build |-> "queued"]
  /\ manifest = {}
  /\ staged = <<>>
  /\ facts = <<>>
  /\ asked = [b \in Build |-> 0]
  /\ stagedFrom = <<>>
  /\ factsFrom = <<>>
  /\ page = [h \in Reader |-> "idle"]
  /\ anchor = [h \in Reader |-> 1]
  /\ rebuilt = [h \in Reader |-> <<>>]

-----------------------------------------------------------------------------
(***************************************************************************)
(* Reading the stream                                                      *)
(***************************************************************************)
Positions(log, a) == {i \in 1 .. Len(log) : log[i].id = a}

\* Mutant: `>` in place of `>=`, the first of two simultaneous events stays.
LatestStrict(log, S) ==
  log[CHOOSE i \in S : \A j \in S :
        log[j].at < log[i].at \/ (log[j].at = log[i].at /\ i <= j)]

\* The latest by created_at, the later of two simultaneous ones.
Latest(log, S) ==
  log[CHOOSE i \in S : \A j \in S :
        log[j].at < log[i].at \/ (log[j].at = log[i].at /\ j <= i)]

\* _reduce_latest_adjustments: the current record of an adjustment.
Current(log, a) == Latest(log, Positions(log, a))

Contribution(e) == IF e.status = "approved" THEN e.amount ELSE 0

\* Mutant: approved events are selected before the latest is taken.
LoadedApproved(log, d) ==
  [a \in Adjustment |->
     LET S == {i \in Positions(log, a) : log[i].date = d /\ log[i].status = "approved"} IN
     IF S = {} THEN 0 ELSE Contribution(Latest(log, S))]

\* _load_manual_adjustments, then apply_manual_adjustments: the events of the
\* date first, then the latest of each adjustment among them, if approved.
Loaded(log, d) ==
  [a \in Adjustment |->
     LET S == {i \in Positions(log, a) : log[i].date = d} IN
     IF S = {} THEN 0 ELSE Contribution(Latest(log, S))]

Plus(row, more) == [a \in Adjustment |-> row[a] + more[a]]

-----------------------------------------------------------------------------
(***************************************************************************)
(* Requests                                                                *)
(***************************************************************************)
\* Everything up to created_at, which is not taken yet.
Compose(q, e) ==
  /\ place[q] = "idle"
  /\ place' = [place EXCEPT ![q] = "composed"]
  /\ composed' = [composed EXCEPT ![q] = <<[e EXCEPT !.at = 0]>>]
  /\ UNCHANGED <<events, clock, raced, buildVars, pageVars>>

\* The request answers 404 or the current record, and appends nothing.
Return(q) ==
  /\ place[q] = "idle"
  /\ place' = [place EXCEPT ![q] = "answered"]
  /\ UNCHANGED <<events, clock, raced, composed, buildVars, pageVars>>

Known(a) == Positions(events, a) # {}
Submitted(a, kind, f) ==
  [id |-> a, kind |-> kind, date |-> f.date, amount |-> f.amount,
   status |-> f.status, at |-> 0]

\* The id is a new uuid.
Create(q, a, f) ==
  /\ ~Known(a)
  /\ \A p \in Request : composed[p] # <<>> => composed[p][1].id # a
  /\ Compose(q, Submitted(a, "created", f))

\* The request names every field, the report date and the status included.
Edit(q, a, f) == Known(a) /\ Compose(q, Submitted(a, "edited", f))

Revoke(q, a) ==
  LET e == Current(events, a) IN
  /\ Known(a)
  /\ IF e.status = "rejected" THEN Return(q)
     ELSE Compose(q, [e EXCEPT !.kind = "revoked", !.status = "rejected"])

Restore(q, a) ==
  LET e == Current(events, a) IN
  /\ Known(a)
  /\ IF e.status = "approved" THEN Return(q)
     ELSE Compose(q, [e EXCEPT !.kind = "restored", !.status = "approved"])

Unknown(q, a) == ~Known(a) /\ Return(q)

\* datetime.now(UTC): two requests may get the same instant.
Stamp(q) ==
  /\ place[q] = "composed"
  /\ place' = [place EXCEPT ![q] = "stamped"]
  /\ \E t \in {clock, clock + 1} \cap (0 .. MaxClock) :
       /\ clock' = t
       /\ composed' = [composed EXCEPT ![q] = <<[@[1] EXCEPT !.at = t]>>]
  /\ UNCHANGED <<events, raced, buildVars, pageVars>>

Busy(a) == {p \in Request : place[p] \in {"composed", "stamped"} /\ composed[p][1].id = a}

\* GovernanceRepository.append.
AppendEvent(q) ==
  LET e == composed[q][1] IN
  /\ place[q] = "stamped"
  /\ place' = [place EXCEPT ![q] = "answered"]
  /\ events' = Append(events, e)
  /\ raced' = IF Busy(e.id) = {q} THEN raced ELSE raced \cup {e.id}
  /\ composed' = [composed EXCEPT ![q] = <<>>]
  /\ UNCHANGED <<clock, buildVars, pageVars>>

-----------------------------------------------------------------------------
(***************************************************************************)
(* Builds                                                                  *)
(***************************************************************************)
Step(b, from, to) ==
  /\ stage[b] = from
  /\ stage' = [stage EXCEPT ![b] = to]

\* DuckDB refuses a connection while another one of the other kind is open.
FileWritten == \E b \in Build : stage[b] = "loading"
FileRead == \E h \in Reader : page[h] = "rebuilding"

\* The message reaches a worker, which waits for the lock.
Deliver(b) ==
  /\ Step(b, "waiting", "blocked")
  /\ asked' = [asked EXCEPT ![b] = Len(events)]
  /\ UNCHANGED <<events, clock, raced, requestVars, writer, status, manifest, staged,
                 facts, stagedFrom, factsFrom, pageVars>>

\* acquire_lock raises: nothing is recorded.
LockTimeout(b) ==
  /\ writer # NoBuild
  /\ Step(b, "blocked", "over")
  /\ UNCHANGED <<events, clock, raced, requestVars, writer, status, manifest, staged,
                 facts, asked, stagedFrom, factsFrom, pageVars>>

AppendRunning(b) ==
  /\ writer = NoBuild
  /\ Step(b, "blocked", "running")
  /\ writer' = b
  /\ status' = [status EXCEPT ![b] = "running"]
  /\ UNCHANGED <<events, clock, raced, requestVars, manifest, staged, facts, asked,
                 stagedFrom, factsFrom, pageVars>>

\* duckdb.connect, begin and the deletes.
Connect(b) ==
  /\ ~FileRead
  /\ Step(b, "running", "loading")
  /\ UNCHANGED <<events, clock, raced, requestVars, writer, status, manifest, staged,
                 facts, asked, stagedFrom, factsFrom, pageVars>>

\* A reader has the file open.  duckdb.connect stands before the `try`: the
\* exception passes it and the run stays recorded as running.
ConnectFails(b) ==
  /\ FileRead
  /\ Step(b, "running", "over")
  /\ writer' = NoBuild
  /\ UNCHANGED <<events, clock, raced, requestVars, status, manifest, staged, facts,
                 asked, stagedFrom, factsFrom, pageVars>>

\* Mutant: the adjustments are read when the message arrives.
LoadAtDelivery(b) ==
  /\ stage[b] = "loading"
  /\ Len(staged) < Months
  /\ staged' = Append(staged, Loaded(SubSeq(events, 1, asked[b]), Len(staged) + 1))
  /\ stagedFrom' = Append(stagedFrom, asked[b])
  /\ UNCHANGED <<events, clock, raced, requestVars, writer, stage, status, manifest,
                 facts, asked, factsFrom, pageVars>>

\* One turn of `for pair in pairs`: load, apply and insert.
Load(b) ==
  /\ stage[b] = "loading"
  /\ Len(staged) < Months
  /\ staged' = Append(staged, Loaded(events, Len(staged) + 1))
  /\ stagedFrom' = Append(stagedFrom, Len(events))
  /\ UNCHANGED <<events, clock, raced, requestVars, writer, stage, status, manifest,
                 facts, asked, factsFrom, pageVars>>

\* The connection closes, the lock is released.
LeaveFile ==
  /\ writer' = NoBuild
  /\ staged' = <<>>
  /\ stagedFrom' = <<>>

\* The read model is computed from the same facts and the transaction commits.
Commit(b) ==
  /\ Len(staged) = Months
  /\ Step(b, "loading", "committed")
  /\ facts' = staged
  /\ factsFrom' = stagedFrom
  /\ LeaveFile
  /\ UNCHANGED <<events, clock, raced, requestVars, status, manifest, asked, pageVars>>

\* The commit raises and has ended the transaction: the rollback raises too,
\* before the failure is recorded.
CommitFails(b) ==
  /\ "commit" \in Faults
  /\ Len(staged) = Months
  /\ Step(b, "loading", "over")
  /\ LeaveFile
  /\ UNCHANGED <<events, clock, raced, requestVars, status, manifest, facts, asked,
                 factsFrom, pageVars>>

\* No source pairs, or any other exception: rolled back and recorded.
BuildFails(b) ==
  /\ "source" \in Faults
  /\ Step(b, "loading", "over")
  /\ status' = [status EXCEPT ![b] = "failed"]
  /\ LeaveFile
  /\ UNCHANGED <<events, clock, raced, requestVars, manifest, facts, asked, factsFrom,
                 pageVars>>

AppendManifest(b) ==
  /\ Step(b, "committed", "certified")
  /\ manifest' = manifest \cup {b}
  /\ UNCHANGED <<events, clock, raced, requestVars, writer, status, staged, facts,
                 asked, stagedFrom, factsFrom, pageVars>>

AppendCompleted(b) ==
  /\ Step(b, "certified", "over")
  /\ status' = [status EXCEPT ![b] = "completed"]
  /\ UNCHANGED <<events, clock, raced, requestVars, writer, manifest, staged, facts,
                 asked, stagedFrom, factsFrom, pageVars>>

\* An append outside every `try` raises: the running record, as soon as the
\* lock is held, or one of the two of a build that has committed.
AppendRaises(b) ==
  /\ "governance" \in Faults
  /\ stage[b] \in {"committed", "certified"} \/ (stage[b] = "blocked" /\ writer = NoBuild)
  /\ stage' = [stage EXCEPT ![b] = "over"]
  /\ UNCHANGED <<events, clock, raced, requestVars, writer, status, manifest, staged,
                 facts, asked, stagedFrom, factsFrom, pageVars>>

\* The worker dies: the lock, the connection and the transaction go with it.
Interrupt(b) ==
  /\ "interrupt" \in Faults
  /\ stage[b] \notin {"waiting", "over"}
  /\ stage' = [stage EXCEPT ![b] = "over"]
  /\ IF writer = b THEN LeaveFile ELSE UNCHANGED <<writer, staged, stagedFrom>>
  /\ UNCHANGED <<events, clock, raced, requestVars, status, manifest, facts, asked,
                 factsFrom, pageVars>>

-----------------------------------------------------------------------------
(***************************************************************************)
(* The year to date of the home page                                       *)
(***************************************************************************)
\* What the read model holds for the year to date at a report date.
YearToDate(d) == SubSeq(facts, 1, d)

\* The read model "is temporarily unavailable; refresh may be running", or has
\* no rows.  (When it can be read it is the answer, and nothing changes.)
ReadUnavailable(h) ==
  /\ page[h] = "idle"
  /\ FileWritten \/ facts = <<>>
  /\ page' = [page EXCEPT ![h] = "fallback"]
  /\ UNCHANGED <<events, clock, raced, requestVars, buildVars, anchor, rebuilt>>

\* product_category_pnl_payload_from_canonical_ytd_anchor has connected.
RebuildBegins(h, d) ==
  /\ page[h] = "fallback"
  /\ ~FileWritten
  /\ facts # <<>>
  /\ page' = [page EXCEPT ![h] = "rebuilding"]
  /\ anchor' = [anchor EXCEPT ![h] = d]
  /\ UNCHANGED <<events, clock, raced, requestVars, buildVars, rebuilt>>

\* duckdb.Error, or no facts of the date: the page has no headline.
RebuildGivesUp(h) ==
  /\ page[h] = "fallback"
  /\ FileWritten \/ facts = <<>>
  /\ page' = [page EXCEPT ![h] = "idle"]
  /\ UNCHANGED <<events, clock, raced, requestVars, buildVars, anchor, rebuilt>>

\* One turn of `for ds in date_strings`: the canonical facts of the date, which
\* hold the adjustments the build applied, and the adjustments of now.
RebuildDate(h) ==
  LET d == Len(rebuilt[h]) + 1 IN
  /\ page[h] = "rebuilding"
  /\ d <= anchor[h]
  /\ rebuilt' = [rebuilt EXCEPT ![h] = Append(@, Plus(facts[d], Loaded(events, d)))]
  /\ UNCHANGED <<events, clock, raced, requestVars, buildVars, page, anchor>>

\* The connection closes and the read model of the rebuilt facts is answered.
RebuildEnds(h) ==
  /\ page[h] = "rebuilding"
  /\ Len(rebuilt[h]) = anchor[h]
  /\ page' = [page EXCEPT ![h] = "idle"]
  /\ anchor' = [anchor EXCEPT ![h] = 1]
  /\ rebuilt' = [rebuilt EXCEPT ![h] = <<>>]
  /\ UNCHANGED <<events, clock, raced, requestVars, buildVars>>

-----------------------------------------------------------------------------
RequestNext(q) ==
  \/ \E a \in Adjustment :
       \/ \E f \in Draft : Create(q, a, f) \/ Edit(q, a, f)
       \/ Revoke(q, a) \/ Restore(q, a) \/ Unknown(q, a)
  \/ Stamp(q) \/ AppendEvent(q)

BuildNext(b) ==
  \/ Deliver(b) \/ LockTimeout(b) \/ AppendRunning(b)
  \/ Connect(b) \/ ConnectFails(b) \/ Load(b)
  \/ Commit(b) \/ CommitFails(b) \/ BuildFails(b)
  \/ AppendManifest(b) \/ AppendCompleted(b) \/ AppendRaises(b) \/ Interrupt(b)

PageNext(h) ==
  \/ ReadUnavailable(h) \/ RebuildGivesUp(h) \/ RebuildDate(h) \/ RebuildEnds(h)
  \/ \E d \in Date : RebuildBegins(h, d)

Next ==
  \/ \E q \in Request : RequestNext(q)
  \/ \E b \in Build : BuildNext(b)
  \/ \E h \in Reader : PageNext(h)

Spec == Init /\ [][Next]_vars

-----------------------------------------------------------------------------
(***************************************************************************)
(* Properties                                                              *)
(***************************************************************************)
TypeOK ==
  /\ events \in Seq(Event)
  /\ clock \in 0 .. MaxClock
  /\ place \in [Request -> RequestPlace]
  /\ composed \in [Request -> Seq(Event)]
  /\ writer \in Build \cup {NoBuild}
  /\ stage \in [Build -> Stage]
  /\ status \in [Build -> Status]
  /\ manifest \subseteq Build
  /\ staged \in Seq(Effect)
  /\ facts \in Seq(Effect)
  /\ page \in [Reader -> PagePlace]
  /\ anchor \in [Reader -> Date]
  /\ rebuilt \in [Reader -> Seq(Effect)]
  /\ asked \in [Build -> Nat]
  /\ stagedFrom \in Seq(Nat)
  /\ factsFrom \in Seq(Nat)
  /\ raced \subseteq Adjustment

Fields(e) == [date |-> e.date, amount |-> e.amount]

\* As long as the requests about an adjustment did not overlap, its current
\* record is the last event appended, with the fields last submitted, however
\* coarse the clock: _reduce_latest_adjustments loses no edit.
CurrentIsLastUnlessRaced ==
  \A a \in Adjustment \ raced : Known(a) =>
    LET P == Positions(events, a)
        submitted == {i \in P : events[i].kind \in {"created", "edited"}}
        last(S) == events[CHOOSE i \in S : \A j \in S : j <= i]
    IN /\ Current(events, a) = last(P)
       /\ Fields(last(P)) = Fields(last(submitted))

Moved(log, a) == \E i, j \in Positions(log, a) : log[i].date # log[j].date

\* The formal facts hold exactly the adjustments the list of the same instant
\* shows as approved for the date, except those an edit moved to another date:
\* two functions reduce the stream, in different orders.
FormalIsListedUnlessMoved ==
  \A d \in 1 .. Len(facts) : \A a \in Adjustment :
    LET log == SubSeq(events, 1, factsFrom[d]) IN
    ~Moved(log, a) =>
      facts[d][a] = IF Positions(log, a) # {} /\ Current(log, a).date = d
                    THEN Contribution(Current(log, a)) ELSE 0

\* A refresh that is recorded as completed shows every adjustment that was in
\* the stream when it was asked for, also after later builds and whichever
\* build waited for the lock first: the stream is read inside the lock.
CompletedRefreshReflectsEdits ==
  \A b \in Build : status[b] = "completed" =>
    /\ Len(facts) = Months
    /\ \A d \in Date : factsFrom[d] >= asked[b]

\* A completed record has its manifest, though the two are appended one after
\* the other and a worker may die between them.
CompletedHasManifest == \A b \in Build : status[b] = "completed" => b \in manifest

\* The year to date the home page rebuilds is the one of the formal read model.
RebuiltMatchesPersisted ==
  \A h \in Reader :
    (page[h] = "rebuilding" /\ Len(rebuilt[h]) = anchor[h])
      => rebuilt[h] = YearToDate(anchor[h])
=============================================================================
