----------------------- MODULE ProductCategoryPnlProofs -----------------------
(***************************************************************************)
(* Proofs about ProductCategoryPnl for any number of requests, builds,     *)
(* readers and report dates.  The stream only grows, so what a build reads *)
(* of it under the writer lock is at least as long as at the delivery of   *)
(* every build known by then; and since one transaction is open at a time, *)
(* no build can commit between what another one staged and its own commit. *)
(* The current event of an adjustment exists because instants and positions*)
(* are bounded sets of naturals, and is the last one because an event takes*)
(* its instant after all that is in the stream.                            *)
(***************************************************************************)
EXTENDS ProductCategoryPnl, SequenceTheorems, WellFoundedInduction, TLAPS

\* A sequence of whatever elements.
IsSeq(s) == s \in Seq({s[i] : i \in DOMAIN s})

ProofType ==
  /\ IsSeq(events)
  /\ writer \in Build \cup {NoBuild}
  /\ stage \in [Build -> Stage]
  /\ status \in [Build -> Status]
  /\ manifest \subseteq Build
  /\ asked \in [Build -> Nat]
  /\ IsSeq(staged)
  /\ IsSeq(facts)
  /\ stagedFrom \in Seq(Nat)
  /\ factsFrom \in Seq(Nat)
  /\ Len(stagedFrom) = Len(staged)
  /\ Len(factsFrom) = Len(facts)

\* The open transaction belongs to the holder of the writer lock.
LockInv ==
  /\ writer = NoBuild => stagedFrom = <<>>
  /\ \A b \in Build : stage[b] \in {"running", "loading"} => writer = b
  /\ \A b \in Build : stage[b] = "running" => stagedFrom = <<>>

\* A completed build is over, and appended its manifest before.
RecordInv ==
  /\ \A b \in Build : status[b] = "completed" => stage[b] = "over"
  /\ \A b \in Build : stage[b] = "certified" \/ status[b] = "completed" => b \in manifest

\* No build was asked for after the end of the stream.
AskedInv == \A b \in Build : asked[b] <= Len(events)

\* The builds whose facts were committed and are, or may yet be, recorded.
Shown(b) == stage[b] \in {"committed", "certified"} \/ status[b] = "completed"

\* What is staged reflects what those builds were asked for, and the open one.
StagedInv ==
  \A b \in Build : Shown(b) \/ stage[b] = "loading" =>
    \A d \in 1 .. Len(stagedFrom) : asked[b] <= stagedFrom[d]

\* So do the facts.
FactsInv ==
  \A b \in Build : Shown(b) =>
    /\ Len(facts) = Months
    /\ \A d \in Date : asked[b] <= factsFrom[d]

IInv == ProofType /\ LockInv /\ RecordInv /\ AskedInv /\ StagedInv /\ FactsInv

-----------------------------------------------------------------------------
LEMMA SeqIsSeq ==
  ASSUME NEW S, NEW t \in Seq(S)
  PROVE  IsSeq(t)
<1>. DEFINE R == {t[i] : i \in DOMAIN t}
<1>1. Len(t) \in Nat /\ DOMAIN t = 1 .. Len(t) /\ t = [i \in 1 .. Len(t) |-> t[i]]
  OBVIOUS
<1>2. t \in [1 .. Len(t) -> R]
  BY <1>1
<1>3. t \in Seq(R)
  BY <1>1, <1>2
<1>. QED
  BY <1>3 DEF IsSeq

LEMMA AppendIsSeq ==
  ASSUME NEW s, NEW e, IsSeq(s)
  PROVE  /\ IsSeq(Append(s, e))
         /\ Len(s) \in Nat
         /\ Len(Append(s, e)) = Len(s) + 1
<1>. DEFINE S == {s[i] : i \in DOMAIN s} \cup {e}
<1>1. s \in Seq(S) /\ e \in S
  BY DEF IsSeq
<1>2. /\ Append(s, e) \in Seq(S)
      /\ Len(s) \in Nat
      /\ Len(Append(s, e)) = Len(s) + 1
  BY <1>1
<1>. HIDE DEF S
<1>. QED
  BY <1>2, SeqIsSeq

LEMMA EmptyIsSeq == IsSeq(<<>>) /\ Len(<<>>) = 0
BY DEF IsSeq

\* The steps a proof has to look at one by one, and the variables the
\* invariant reads.
ProofVars == <<events, writer, stage, status, manifest, staged, facts, asked,
               stagedFrom, factsFrom>>

LEMMA NextCases ==
  ASSUME [Next]_vars
  PROVE  \/ UNCHANGED ProofVars
         \/ \E q \in Request : AppendEvent(q)
         \/ \E b \in Build : BuildNext(b)
<1>1. CASE UNCHANGED vars
  BY <1>1 DEF vars, buildVars, ProofVars
<1>2. ASSUME NEW q \in Request, RequestNext(q)
      PROVE  UNCHANGED ProofVars \/ AppendEvent(q)
  <2>1. ASSUME NEW e, Compose(q, e)
        PROVE  UNCHANGED ProofVars
    BY <2>1 DEF Compose, buildVars, ProofVars
  <2>2. ASSUME Return(q) \/ Stamp(q)
        PROVE  UNCHANGED ProofVars
    BY <2>2 DEF Return, Stamp, buildVars, ProofVars
  <2>3. ASSUME NEW a \in Adjustment, NEW f \in Draft, Create(q, a, f) \/ Edit(q, a, f)
        PROVE  UNCHANGED ProofVars
    BY <2>1, <2>3, Zenon DEF Create, Edit
  <2>4. ASSUME NEW a \in Adjustment, Revoke(q, a) \/ Restore(q, a) \/ Unknown(q, a)
        PROVE  UNCHANGED ProofVars
    BY <2>1, <2>2, <2>4, Zenon DEF Revoke, Restore, Unknown
  <2>. QED
    BY <1>2, <2>2, <2>3, <2>4 DEF RequestNext
<1>3. ASSUME NEW h \in Reader, PageNext(h)
      PROVE  UNCHANGED ProofVars
  BY <1>3 DEF PageNext, ReadUnavailable, RebuildBegins, RebuildGivesUp, RebuildDate,
              RebuildEnds, buildVars, ProofVars
<1>. QED
  BY <1>1, <1>2, <1>3 DEF Next

-----------------------------------------------------------------------------
LEMMA InitInv == Init => IInv
<1>. SUFFICES ASSUME Init
              PROVE  IInv
  OBVIOUS
<1>1. IsSeq(events)
  <2>1. CASE events = <<>>
    BY <2>1, EmptyIsSeq
  <2>2. ASSUME NEW e \in Event, events = <<e>>
        PROVE  IsSeq(events)
    <3>1. <<e>> \in Seq(Event)
      OBVIOUS
    <3>. QED
      BY <2>2, <3>1, SeqIsSeq
  <2>. QED
    BY <2>1, <2>2, StreamAssumption DEF Init
<1>2. Len(events) \in Nat
  BY <1>1 DEF IsSeq
<1>3. ProofType
  BY <1>1, EmptyIsSeq DEF Init, ProofType, Stage, Status
<1>4. LockInv /\ RecordInv /\ FactsInv /\ StagedInv
  BY DEF Init, LockInv, RecordInv, FactsInv, StagedInv, Shown
<1>5. AskedInv
  BY <1>2 DEF Init, AskedInv
<1>. QED
  BY <1>3, <1>4, <1>5 DEF IInv

\* A request's append changes nothing but the stream, which grows by one.
LEMMA AppendEventStep ==
  ASSUME ProofType, NEW q \in Request, AppendEvent(q)
  PROVE  /\ IsSeq(events')
         /\ Len(events) \in Nat
         /\ Len(events') = Len(events) + 1
         /\ UNCHANGED <<writer, stage, status, manifest, staged, facts, asked,
                        stagedFrom, factsFrom>>
<1>. DEFINE e == composed[q][1]
<1>1. events' = Append(events, e)
  BY DEF AppendEvent
<1>2. UNCHANGED <<writer, stage, status, manifest, staged, facts, asked,
                  stagedFrom, factsFrom>>
  BY DEF AppendEvent, buildVars
<1>. HIDE DEF e
<1>. QED
  BY <1>1, <1>2, AppendIsSeq DEF ProofType

LEMMA StepType ==
  ASSUME ProofType, [Next]_vars
  PROVE  ProofType'
<1>1. CASE UNCHANGED ProofVars
  BY <1>1 DEF ProofVars, ProofType
<1>2. ASSUME NEW q \in Request, AppendEvent(q)
      PROVE  ProofType'
  BY <1>2, AppendEventStep DEF ProofType
<1>3. ASSUME NEW b \in Build, Load(b)
      PROVE  ProofType'
  <2>. DEFINE e == Loaded(events, Len(staged) + 1)
  <2>1. staged' = Append(staged, e) /\ stagedFrom' = Append(stagedFrom, Len(events))
    BY <1>3 DEF Load
  <2>2. UNCHANGED <<events, writer, stage, status, manifest, facts, asked, factsFrom>>
    BY <1>3 DEF Load
  <2>. HIDE DEF e
  <2>3. IsSeq(staged') /\ Len(staged') = Len(staged) + 1
    BY <2>1, AppendIsSeq DEF ProofType
  <2>4. Len(events) \in Nat
    BY DEF ProofType, IsSeq
  <2>5. stagedFrom' \in Seq(Nat) /\ Len(stagedFrom') = Len(stagedFrom) + 1
    BY <2>1, <2>4 DEF ProofType
  <2>. QED
    BY <2>2, <2>3, <2>5 DEF ProofType
<1>4. ASSUME NEW b \in Build, Commit(b)
      PROVE  ProofType'
  <2>1. staged' = <<>> /\ stagedFrom' = <<>> /\ facts' = staged /\ factsFrom' = stagedFrom
    BY <1>4 DEF Commit, LeaveFile
  <2>2. UNCHANGED <<events, status, manifest, asked>> /\ writer' = NoBuild
    BY <1>4 DEF Commit, LeaveFile
  <2>3. stage' \in [Build -> Stage]
    BY <1>4 DEF Commit, Step, ProofType, Stage
  <2>4. IsSeq(staged') /\ Len(staged') = Len(stagedFrom') /\ stagedFrom' \in Seq(Nat)
    BY <2>1, EmptyIsSeq
  <2>. QED
    BY <2>1, <2>2, <2>3, <2>4 DEF ProofType
<1>5. ASSUME NEW b \in Build, CommitFails(b) \/ BuildFails(b) \/ Interrupt(b)
      PROVE  ProofType'
  <2>1. UNCHANGED <<events, manifest, asked, facts, factsFrom>>
    BY <1>5 DEF CommitFails, BuildFails, Interrupt
  <2>2. stage' \in [Build -> Stage] /\ status' \in [Build -> Status]
    BY <1>5 DEF CommitFails, BuildFails, Interrupt, Step, ProofType, Stage, Status
  <2>3. \/ staged' = <<>> /\ stagedFrom' = <<>> /\ writer' = NoBuild
        \/ UNCHANGED <<staged, stagedFrom, writer>>
    BY <1>5 DEF CommitFails, BuildFails, Interrupt, LeaveFile
  <2>4. /\ IsSeq(staged') /\ Len(staged') = Len(stagedFrom') /\ stagedFrom' \in Seq(Nat)
        /\ writer' \in Build \cup {NoBuild}
    <3>1. CASE staged' = <<>> /\ stagedFrom' = <<>> /\ writer' = NoBuild
      BY <3>1, EmptyIsSeq
    <3>2. CASE UNCHANGED <<staged, stagedFrom, writer>>
      BY <3>2 DEF ProofType
    <3>. QED
      BY <2>3, <3>1, <3>2
  <2>. QED
    BY <2>1, <2>2, <2>4 DEF ProofType
<1>6. ASSUME NEW b \in Build, Deliver(b)
      PROVE  ProofType'
  <2>1. Len(events) \in Nat
    BY DEF ProofType, IsSeq
  <2>. QED
    BY <1>6, <2>1 DEF Deliver, Step, Stage, ProofType
<1>7. ASSUME NEW b \in Build,
             LockTimeout(b) \/ AppendRunning(b) \/ Connect(b) \/ ConnectFails(b)
               \/ AppendManifest(b) \/ AppendCompleted(b) \/ AppendRaises(b)
      PROVE  ProofType'
  BY <1>7 DEF LockTimeout, AppendRunning, Connect, ConnectFails, AppendManifest,
              AppendCompleted, AppendRaises, Step, Stage, Status, LeaveFile, ProofType
<1>. QED
  BY <1>1, <1>2, <1>3, <1>4, <1>5, <1>6, <1>7, NextCases DEF BuildNext

LEMMA StepLock ==
  ASSUME ProofType, LockInv, [Next]_vars
  PROVE  LockInv'
<1>. USE NoBuildAssumption DEF Step, LeaveFile, ProofType, LockInv
<1>1. ASSUME UNCHANGED <<writer, stage, stagedFrom>>
      PROVE  LockInv'
  BY <1>1
<1>2. ASSUME NEW q \in Request, AppendEvent(q)
      PROVE  LockInv'
  BY <1>2, AppendEventStep
<1>3. ASSUME NEW b \in Build, Load(b)
      PROVE  LockInv'
  <2>1. writer = b /\ UNCHANGED <<writer, stage>> /\ stage[b] = "loading"
    BY <1>3 DEF Load
  <2>2. \A c \in Build : stage[c] # "running"
    BY <2>1
  <2>. QED
    BY <2>1, <2>2
<1>4. ASSUME NEW b \in Build,
             AppendRunning(b) \/ Connect(b) \/ ConnectFails(b) \/ Commit(b)
               \/ CommitFails(b) \/ BuildFails(b) \/ Interrupt(b)
      PROVE  LockInv'
  BY <1>4 DEF AppendRunning, Connect, ConnectFails, Commit, CommitFails, BuildFails,
              Interrupt
<1>5. ASSUME NEW b \in Build,
             Deliver(b) \/ LockTimeout(b) \/ AppendManifest(b) \/ AppendCompleted(b)
               \/ AppendRaises(b)
      PROVE  LockInv'
  BY <1>5 DEF Deliver, LockTimeout, AppendManifest, AppendCompleted, AppendRaises
<1>. QED
  BY <1>1, <1>2, <1>3, <1>4, <1>5, NextCases DEF BuildNext, ProofVars

LEMMA StepRecord ==
  ASSUME ProofType, RecordInv, [Next]_vars
  PROVE  RecordInv'
<1>. USE DEF Step, ProofType, RecordInv
<1>1. ASSUME UNCHANGED <<stage, status, manifest>>
      PROVE  RecordInv'
  BY <1>1
<1>2. ASSUME NEW q \in Request, AppendEvent(q)
      PROVE  RecordInv'
  BY <1>2, AppendEventStep
<1>3. ASSUME NEW b \in Build,
             Deliver(b) \/ LockTimeout(b) \/ AppendRunning(b) \/ Connect(b)
               \/ ConnectFails(b) \/ Commit(b) \/ CommitFails(b) \/ BuildFails(b)
      PROVE  RecordInv'
  BY <1>3 DEF Deliver, LockTimeout, AppendRunning, Connect, ConnectFails, Commit,
              CommitFails, BuildFails
<1>4. ASSUME NEW b \in Build,
             Load(b) \/ AppendManifest(b) \/ AppendCompleted(b) \/ AppendRaises(b)
               \/ Interrupt(b)
      PROVE  RecordInv'
  BY <1>4 DEF Load, AppendManifest, AppendCompleted, AppendRaises, Interrupt
<1>. QED
  BY <1>1, <1>2, <1>3, <1>4, NextCases DEF BuildNext, ProofVars

LEMMA StepAsked ==
  ASSUME ProofType, AskedInv, [Next]_vars
  PROVE  AskedInv'
<1>. USE DEF Step, ProofType, AskedInv
<1>1. Len(events) \in Nat
  BY DEF IsSeq
<1>2. ASSUME UNCHANGED <<events, asked>>
      PROVE  AskedInv'
  BY <1>2
<1>3. ASSUME NEW q \in Request, AppendEvent(q)
      PROVE  AskedInv'
  BY <1>3, AppendEventStep
<1>4. ASSUME NEW b \in Build, Deliver(b)
      PROVE  AskedInv'
  BY <1>1, <1>4 DEF Deliver
<1>5. ASSUME NEW b \in Build, BuildNext(b)
      PROVE  Deliver(b) \/ UNCHANGED <<events, asked>>
  BY <1>5 DEF BuildNext, LockTimeout, AppendRunning, Connect, ConnectFails, Load,
              Commit, CommitFails, BuildFails, AppendManifest, AppendCompleted,
              AppendRaises, Interrupt
<1>. QED
  BY <1>2, <1>3, <1>4, <1>5, NextCases DEF ProofVars

\* Who may yet be shown was asked for already, and nobody is shown anew except
\* by a commit.
LEMMA ShownFrame ==
  ASSUME ProofType, RecordInv, NEW b \in Build, BuildNext(b), ~Commit(b),
         NEW c \in Build, Shown(c)'
  PROVE  Shown(c) /\ asked'[c] = asked[c]
<1>. USE DEF Step, Shown, ProofType, RecordInv
<1>1. CASE Deliver(b)
  BY <1>1 DEF Deliver
<1>2. CASE \/ LockTimeout(b) \/ AppendRunning(b) \/ Connect(b) \/ ConnectFails(b)
           \/ CommitFails(b) \/ BuildFails(b)
  BY <1>2 DEF LockTimeout, AppendRunning, Connect, ConnectFails, CommitFails, BuildFails
<1>3. CASE \/ Load(b) \/ AppendManifest(b) \/ AppendCompleted(b) \/ AppendRaises(b)
           \/ Interrupt(b)
  BY <1>3 DEF Load, AppendManifest, AppendCompleted, AppendRaises, Interrupt
<1>. QED
  BY <1>1, <1>2, <1>3 DEF BuildNext

LEMMA StepStaged ==
  ASSUME ProofType, LockInv, RecordInv, AskedInv, StagedInv, [Next]_vars
  PROVE  StagedInv'
<1>. USE DEF Step, LeaveFile
<1>1. CASE UNCHANGED ProofVars
  BY <1>1 DEF ProofVars, StagedInv, Shown
<1>2. ASSUME NEW q \in Request, AppendEvent(q)
      PROVE  StagedInv'
  BY <1>2, AppendEventStep DEF StagedInv, Shown
<1>3. ASSUME stagedFrom' = <<>>
      PROVE  StagedInv'
  BY <1>3 DEF StagedInv
<1>4. ASSUME NEW b \in Build, Load(b)
      PROVE  StagedInv'
  <2>1. /\ stagedFrom' = Append(stagedFrom, Len(events))
        /\ UNCHANGED <<stage, status, asked>>
    BY <1>4 DEF Load
  <2>2. Len(events) \in Nat /\ stagedFrom \in Seq(Nat)
    BY DEF ProofType, IsSeq
  <2>3. ASSUME NEW c \in Build, Shown(c) \/ stage[c] = "loading",
               NEW d \in 1 .. Len(stagedFrom')
        PROVE  asked[c] <= stagedFrom'[d]
    <3>1. CASE d \in 1 .. Len(stagedFrom)
      BY <2>1, <2>2, <2>3, <3>1 DEF StagedInv
    <3>2. CASE d = Len(stagedFrom) + 1
      BY <2>1, <2>2, <3>2 DEF AskedInv
    <3>. QED
      BY <2>1, <2>2, <3>1, <3>2
  <2>. QED
    BY <2>1, <2>3 DEF StagedInv, Shown
<1>5. ASSUME NEW b \in Build, Connect(b)
      PROVE  StagedInv'
  <2>1. stagedFrom' = <<>>
    BY <1>5 DEF Connect, LockInv
  <2>. QED
    BY <2>1, <1>3
<1>6. ASSUME NEW b \in Build, Commit(b) \/ CommitFails(b) \/ BuildFails(b)
      PROVE  StagedInv'
  BY <1>3, <1>6 DEF Commit, CommitFails, BuildFails
<1>7. ASSUME NEW b \in Build, BuildNext(b), ~Commit(b), ~Connect(b),
             stagedFrom' = stagedFrom
      PROVE  StagedInv'
  <2>1. ASSUME NEW c \in Build, stage'[c] = "loading"
        PROVE  stage[c] = "loading" /\ asked'[c] = asked[c]
    BY <1>7, <2>1 DEF BuildNext, Deliver, LockTimeout, AppendRunning, ConnectFails, Load,
                      CommitFails, BuildFails, AppendManifest, AppendCompleted,
                      AppendRaises, Interrupt, ProofType
  <2>. QED
    BY <1>7, <2>1, ShownFrame DEF StagedInv
<1>8. ASSUME NEW b \in Build, BuildNext(b)
      PROVE  \/ Load(b) \/ Connect(b) \/ Commit(b) \/ CommitFails(b) \/ BuildFails(b)
             \/ stagedFrom' = <<>>
             \/ ~Commit(b) /\ ~Connect(b) /\ stagedFrom' = stagedFrom
  BY <1>8 DEF BuildNext, Deliver, LockTimeout, AppendRunning, ConnectFails, AppendManifest,
              AppendCompleted, AppendRaises, Interrupt
<1>. QED
  BY <1>1, <1>2, <1>3, <1>4, <1>5, <1>6, <1>7, <1>8, NextCases

LEMMA StepFacts ==
  ASSUME ProofType, LockInv, RecordInv, StagedInv, FactsInv, [Next]_vars
  PROVE  FactsInv'
<1>. USE DEF Step
<1>1. CASE UNCHANGED ProofVars
  BY <1>1 DEF ProofVars, FactsInv, Shown
<1>2. ASSUME NEW q \in Request, AppendEvent(q)
      PROVE  FactsInv'
  BY <1>2, AppendEventStep DEF FactsInv, Shown
<1>3. ASSUME NEW b \in Build, Commit(b)
      PROVE  FactsInv'
  <2>1. /\ facts' = staged /\ factsFrom' = stagedFrom
        /\ Len(staged) = Months
        /\ UNCHANGED <<status, asked>>
        /\ stage[b] = "loading"
        /\ stage' = [stage EXCEPT ![b] = "committed"]
    BY <1>3 DEF Commit
  <2>2. Len(stagedFrom) = Months
    BY <2>1 DEF ProofType
  <2>3. ASSUME NEW c \in Build, Shown(c)'
        PROVE  Shown(c) \/ stage[c] = "loading"
    BY <2>1, <2>3 DEF Shown, ProofType
  <2>. QED
    BY <2>1, <2>2, <2>3 DEF FactsInv, StagedInv, Date
<1>4. ASSUME NEW b \in Build, BuildNext(b), ~Commit(b)
      PROVE  UNCHANGED <<facts, factsFrom>>
  BY <1>4 DEF BuildNext, Deliver, LockTimeout, AppendRunning, Connect, ConnectFails, Load,
              CommitFails, BuildFails, AppendManifest, AppendCompleted, AppendRaises,
              Interrupt
<1>5. ASSUME NEW b \in Build, BuildNext(b), ~Commit(b)
      PROVE  FactsInv'
  BY <1>4, <1>5, ShownFrame DEF FactsInv
<1>. QED
  BY <1>1, <1>2, <1>3, <1>5, NextCases

-----------------------------------------------------------------------------
(***************************************************************************)
(* The latest event                                                        *)
(***************************************************************************)
LEMMA LeastNatural ==
  ASSUME NEW T \in SUBSET Nat, T # {}
  PROVE  \E n \in T : \A m \in T : n <= m
<1> DEFINE Lt == OpToRel(<, Nat)
<1>1. IsWellFoundedOn(Lt, Nat)
  BY NatLessThanWellFounded
<1>2. \E n \in T : \A m \in T : <<m, n>> \notin Lt
  <2> HIDE DEF Lt
  <2> QED BY <1>1, WFMin
<1>3. \A n, m \in Nat : <<m, n>> \notin Lt => n <= m
  BY DEF OpToRel
<1> QED BY <1>2, <1>3

LEMMA LastNatural ==
  ASSUME NEW k \in Nat, NEW T \in SUBSET (0 .. k), T # {}
  PROVE  \E n \in T : \A m \in T : m <= n
<1> DEFINE U == {n \in 0 .. k : k - n \in T}
<1>1. U \in SUBSET Nat /\ U # {}
  <2>1. PICK m \in T : TRUE
    OBVIOUS
  <2>2. m \in 0 .. k /\ k - m \in 0 .. k /\ k - (k - m) = m
    OBVIOUS
  <2>3. k - m \in U
    BY <2>1, <2>2
  <2> QED BY <2>3
<1>2. PICK u \in U : \A v \in U : u <= v
  <2> HIDE DEF U
  <2> QED BY <1>1, LeastNatural
<1>3. ASSUME NEW m \in T PROVE m <= k - u
  <2>1. m \in 0 .. k /\ k - m \in 0 .. k /\ k - (k - m) = m
    OBVIOUS
  <2>2. k - m \in U
    BY <2>1
  <2>3. u <= k - m
    BY <1>2, <2>2
  <2> QED BY <2>1, <2>3, <1>2
<1> QED BY <1>2, <1>3

\* Among events there is a latest one.
LEMMA LatestIsThere ==
  ASSUME NEW log \in Seq(Event), NEW S \in SUBSET (1 .. Len(log)), S # {}
  PROVE  \E i \in S : Latest(log, S) = log[i]
<1> DEFINE Least(i) == \A j \in S :
             log[j].at < log[i].at \/ (log[j].at = log[i].at /\ j <= i)
           Ats == {log[i].at : i \in S}
<1>1. Len(log) \in Nat /\ \A i \in S : log[i] \in Event /\ log[i].at \in 0 .. MaxClock
  <2>1. Len(log) \in Nat /\ \A i \in 1 .. Len(log) : log[i] \in Event
    BY LenProperties, ElementOfSeq
  <2> QED BY <2>1 DEF Event
<1>2. PICK t \in Ats : \A u \in Ats : u <= t
  <2>1. Ats \subseteq 0 .. MaxClock /\ Ats # {}
    BY <1>1
  <2> HIDE DEF Ats
  <2> QED BY <2>1, LastNatural, ClockAssumption
<1> DEFINE Q == {i \in S : log[i].at = t}
<1>3. PICK i \in Q : \A j \in Q : j <= i
  <2>1. PICK k \in S : log[k].at = t
    BY <1>2
  <2>2. k \in Q
    BY <2>1
  <2>3. S \subseteq 0 .. Len(log) /\ Q \subseteq S
    BY <1>1
  <2> HIDE DEF Q
  <2> QED BY <2>2, <2>3, <1>1, LastNatural
<1>4. Least(i)
  <2>1. ASSUME NEW j \in S
        PROVE log[j].at < log[i].at \/ (log[j].at = log[i].at /\ j <= i)
    <3>1. log[j].at \in Nat /\ t \in Nat /\ log[j].at <= t /\ log[i].at = t
      BY <1>1, <1>2, <1>3, ClockAssumption
    <3>2. CASE log[j].at = t
      BY <3>1, <3>2, <1>3
    <3>3. CASE log[j].at # t
      BY <3>1, <3>3
    <3> QED BY <3>2, <3>3
  <2> QED BY <2>1
<1> DEFINE c == CHOOSE k \in S : Least(k)
<1>5. c \in S
  BY <1>3, <1>4
<1>6. Latest(log, S) = log[c]
  BY DEF Latest
<1> QED BY <1>5, <1>6

\* What the requests keep of their variables.
RequestType ==
  /\ events \in Seq(Event)
  /\ clock \in 0 .. MaxClock
  /\ raced \subseteq Adjustment
  /\ place \in [Request -> RequestPlace]
  /\ composed \in [Request -> Seq(Event)]
  /\ \A q \in Request : (Len(composed[q]) = 1) = (place[q] \in {"composed", "stamped"})

Of(a) == Positions(events, a)
Pending(q) == place[q] \in {"composed", "stamped"}

LEMMA CurrentIsKnown ==
  ASSUME RequestType, NEW a \in Adjustment, Known(a)
  PROVE  Current(events, a) \in Event /\ Current(events, a).id = a
<1>1. Of(a) \in SUBSET (1 .. Len(events)) /\ Of(a) # {} /\ \A i \in Of(a) : events[i].id = a
  BY DEF Of, Positions, Known
<1>2. PICK i \in Of(a) : Latest(events, Of(a)) = events[i]
  BY <1>1, LatestIsThere DEF RequestType
<1>3. events[i] \in Event
  BY <1>1, ElementOfSeq DEF RequestType
<1> QED BY <1>1, <1>2, <1>3 DEF Current, Of

LEMMA PendingHolds ==
  ASSUME RequestType, NEW q \in Request
  PROVE  /\ Pending(q) => composed[q][1] \in Event /\ Len(composed[q]) = 1
         /\ composed[q] = <<>> => ~Pending(q)
<1>1. composed[q] \in Seq(Event)
  BY DEF RequestType
<1>2. Pending(q) <=> Len(composed[q]) = 1
  BY DEF RequestType, Pending
<1>3. Len(composed[q]) = 1 => composed[q][1] \in Event
  BY <1>1, ElementOfSeq
<1>4. composed[q] = <<>> => Len(composed[q]) = 0
  OBVIOUS
<1> QED BY <1>2, <1>3, <1>4

-----------------------------------------------------------------------------
(***************************************************************************)
(* The current event is the last one                                       *)
(***************************************************************************)
Submits(e) == e.kind \in {"created", "edited"}
Greatest(a, i) == i \in Of(a) /\ \A j \in Of(a) : j <= i

\* The fields of an event are those of the create or the edit before it.
Founded(a, i) ==
  \E j \in Of(a) :
    /\ j <= i /\ Submits(events[j]) /\ Fields(events[j]) = Fields(events[i])
    /\ \A k \in Of(a) : (j < k /\ k <= i) => ~Submits(events[k])

Ordered(a) ==
  /\ \A i, j \in Of(a) : i < j => events[i].at <= events[j].at
  /\ \A i \in Of(a) : Founded(a, i)

\* An event that waits to be appended was composed from the last one.
EventFollows(e, stamped) ==
  /\ stamped => \A i \in Of(e.id) : events[i].at <= e.at
  /\ Submits(e) \/ \E i \in Of(e.id) : Greatest(e.id, i) /\ Fields(e) = Fields(events[i])
Follows(q) == EventFollows(composed[q][1], place[q] = "stamped")

\* As long as the requests about an adjustment did not overlap.
InTurn ==
  /\ \A i \in 1 .. Len(events) : events[i].at <= clock
  /\ \A a \in Adjustment \ raced : Ordered(a)
  /\ \A q \in Request : Pending(q) =>
       composed[q][1].at <= clock /\ (composed[q][1].id \notin raced => Follows(q))

LEMMA PositionsHold ==
  ASSUME RequestType, NEW a
  PROVE  /\ Len(events) \in Nat /\ Of(a) \subseteq 1 .. Len(events)
         /\ \A i \in 1 .. Len(events) : events[i] \in Event /\ events[i].at \in Nat
         /\ clock \in Nat
<1>1. Len(events) \in Nat /\ \A i \in 1 .. Len(events) : events[i] \in Event
  BY LenProperties, ElementOfSeq DEF RequestType
<1> QED BY <1>1, ClockAssumption DEF Of, Positions, Event, RequestType

LEMMA GreatestIsThere ==
  ASSUME RequestType, NEW a \in Adjustment, Known(a)
  PROVE  \E i \in Of(a) : Greatest(a, i)
<1>1. Of(a) \subseteq 0 .. Len(events) /\ Len(events) \in Nat /\ Of(a) # {}
  BY PositionsHold DEF Known, Of
<1> QED BY <1>1, LastNatural DEF Greatest

LEMMA CurrentIsGreatest ==
  ASSUME RequestType, NEW a \in Adjustment, Known(a), Ordered(a), NEW i, Greatest(a, i)
  PROVE  Current(events, a) = events[i]
<1> DEFINE P == Of(a)
           Least(k) == \A j \in P :
             events[j].at < events[k].at \/ (events[j].at = events[k].at /\ j <= k)
<1>1. i \in P /\ \A j \in P : j \in Nat /\ events[j].at \in Nat
  BY PositionsHold DEF Greatest
<1>2. Least(i)
  <2>1. ASSUME NEW j \in P
        PROVE events[j].at < events[i].at \/ (events[j].at = events[i].at /\ j <= i)
    <3>1. j <= i /\ (j = i \/ events[j].at <= events[i].at)
      BY <1>1 DEF Greatest, Ordered
    <3> QED BY <1>1, <3>1
  <2> QED BY <2>1
<1>3. ASSUME NEW k \in P, Least(k) PROVE k = i
  <2>1. events[i].at < events[k].at \/ i <= k
    BY <1>1, <1>3
  <2>2. events[k].at < events[i].at \/ (events[k].at = events[i].at /\ k <= i)
    BY <1>2, <1>3
  <2> QED BY <1>1, <1>3, <2>1, <2>2
<1> HIDE DEF Least
<1>4. (CHOOSE k \in P : Least(k)) = i
  BY <1>1, <1>2, <1>3
<1> QED BY <1>4 DEF Current, Latest, Of, Least

\* What a request may do to the stream and to what waits to be appended.
LEMMA RequestForms ==
  ASSUME RequestType, NEW q \in Request, RequestNext(q)
  PROVE  \/ /\ UNCHANGED <<events, clock, raced, composed>>
            /\ ~Pending(q) /\ place' = [place EXCEPT ![q] = "answered"]
         \/ \E e \in Event :
              /\ Compose(q, e)
              /\ Submits(e) \/ (Known(e.id) /\ Fields(e) = Fields(Current(events, e.id)))
         \/ Stamp(q) \/ AppendEvent(q)
<1> DEFINE Composes == \E e \in Event :
      /\ Compose(q, e)
      /\ Submits(e) \/ (Known(e.id) /\ Fields(e) = Fields(Current(events, e.id)))
    Answers == /\ UNCHANGED <<events, clock, raced, composed>>
               /\ ~Pending(q) /\ place' = [place EXCEPT ![q] = "answered"]
<1>1. Return(q) => Answers
  BY DEF Return, Pending
<1>2. ASSUME NEW a \in Adjustment, NEW f \in Draft, Create(q, a, f) \/ Edit(q, a, f)
      PROVE  Composes
  <2>1. \A k \in {"created", "edited"} : Submitted(a, k, f) \in Event /\ Submits(Submitted(a, k, f))
    BY DraftAssumption, ClockAssumption DEF Event, Kind, Submits, Submitted
  <2>2. \E k \in {"created", "edited"} : Compose(q, Submitted(a, k, f))
    BY <1>2 DEF Create, Edit
  <2> QED BY <2>1, <2>2
\* The others leave the fields of the current event.
<1>3. ASSUME NEW a \in Adjustment, Known(a), NEW k \in Kind, NEW s \in Approval,
             Compose(q, [Current(events, a) EXCEPT !.kind = k, !.status = s])
      PROVE  Composes
  <2> DEFINE e == [Current(events, a) EXCEPT !.kind = k, !.status = s]
  <2>1. Current(events, a) \in Event /\ Current(events, a).id = a
    BY <1>3, CurrentIsKnown
  <2>2. e \in Event /\ e.id = a /\ Fields(e) = Fields(Current(events, a))
    BY <2>1 DEF Event, Fields
  <2>3. Compose(q, e)
    BY <1>3
  <2> HIDE DEF e
  <2> QED BY <1>3, <2>2, <2>3
<1> HIDE DEF Composes, Answers
<1>4. ASSUME NEW a \in Adjustment, Revoke(q, a) \/ Restore(q, a)
      PROVE  Composes \/ Answers
  BY <1>1, <1>3, <1>4 DEF Revoke, Restore, Kind, Approval
<1>5. Composes \/ Answers \/ Stamp(q) \/ AppendEvent(q)
  BY <1>1, <1>2, <1>4 DEF RequestNext, Unknown
<1> QED BY <1>5 DEF Composes, Answers

LEMMA ComposesType ==
  ASSUME RequestType, NEW q \in Request, NEW e \in Event, Compose(q, e)
  PROVE  RequestType' /\ [e EXCEPT !.at = 0] \in Event
<1> DEFINE f == [e EXCEPT !.at = 0]
<1>1. f \in Event
  BY ClockAssumption DEF Event
<1> HIDE DEF f
<1>2. <<f>> \in Seq(Event) /\ Len(<<f>>) = 1
  BY <1>1
<1>3. composed' = [composed EXCEPT ![q] = <<f>>] /\ place' = [place EXCEPT ![q] = "composed"]
  BY DEF Compose, f
<1>4. composed' \in [Request -> Seq(Event)] /\ place' \in [Request -> RequestPlace]
  BY <1>2, <1>3 DEF RequestType, RequestPlace
<1>5. \A p \in Request : (Len(composed'[p]) = 1) = (place'[p] \in {"composed", "stamped"})
  BY <1>2, <1>3 DEF RequestType
<1>6. UNCHANGED <<events, clock, raced>>
  BY DEF Compose
<1> QED BY <1>1, <1>4, <1>5, <1>6 DEF RequestType, f

LEMMA RequestsType ==
  ASSUME RequestType, NEW q \in Request, RequestNext(q)
  PROVE  RequestType'
<1>1. CASE /\ UNCHANGED <<events, clock, raced, composed>>
           /\ ~Pending(q) /\ place' = [place EXCEPT ![q] = "answered"]
  BY <1>1 DEF RequestType, RequestPlace, Pending
<1>2. ASSUME NEW e \in Event, Compose(q, e) PROVE RequestType'
  BY <1>2, ComposesType
<1>3. CASE Stamp(q)
  <2>1. PICK t \in {clock, clock + 1} \cap (0 .. MaxClock) :
          clock' = t /\ composed' = [composed EXCEPT ![q] = <<[@[1] EXCEPT !.at = t]>>]
    BY <1>3 DEF Stamp
  <2>2. /\ place[q] = "composed" /\ place' = [place EXCEPT ![q] = "stamped"]
        /\ UNCHANGED <<events, raced>>
    BY <1>3 DEF Stamp
  <2>3. composed[q][1] \in Event
    BY <2>2, PendingHolds DEF Pending
  <2> DEFINE f == [composed[q][1] EXCEPT !.at = t]
  <2>4. f \in Event /\ composed' = [composed EXCEPT ![q] = <<f>>]
    BY <2>1, <2>3 DEF Event
  <2> HIDE DEF f
  <2>5. <<f>> \in Seq(Event) /\ Len(<<f>>) = 1
    BY <2>4
  <2>6. composed' \in [Request -> Seq(Event)] /\ place' \in [Request -> RequestPlace]
    BY <2>2, <2>4, <2>5 DEF RequestType, RequestPlace
  <2>7. \A p \in Request : (Len(composed'[p]) = 1) = (place'[p] \in {"composed", "stamped"})
    BY <2>2, <2>4, <2>5 DEF RequestType
  <2> QED BY <2>1, <2>2, <2>6, <2>7 DEF RequestType
<1>4. CASE AppendEvent(q)
  <2> DEFINE e == composed[q][1]
  <2>1. /\ place[q] = "stamped" /\ place' = [place EXCEPT ![q] = "answered"]
        /\ events' = Append(events, e) /\ composed' = [composed EXCEPT ![q] = <<>>]
        /\ raced' \in {raced, raced \cup {e.id}} /\ clock' = clock
    BY <1>4 DEF AppendEvent
  <2>2. e \in Event /\ e.id \in Adjustment
    BY <2>1, PendingHolds DEF Pending, Event
  <2> HIDE DEF e
  <2>3. composed' \in [Request -> Seq(Event)] /\ place' \in [Request -> RequestPlace]
    BY <2>1 DEF RequestType, RequestPlace
  <2>4. \A p \in Request : (Len(composed'[p]) = 1) = (place'[p] \in {"composed", "stamped"})
    BY <2>1 DEF RequestType
  <2> QED BY <2>1, <2>2, <2>3, <2>4 DEF RequestType
<1> QED BY <1>1, <1>2, <1>3, <1>4, RequestForms

LEMMA SameInTurn ==
  ASSUME RequestType, InTurn, UNCHANGED <<events, clock, raced, composed>>,
         \A q \in Request : Pending(q)' => Pending(q) /\ place'[q] = place[q]
  PROVE  InTurn'
<1>1. \A a : Of(a)' = Of(a)
  BY DEF Of, Positions
<1>2. \A a : \A i : Founded(a, i)' <=> Founded(a, i)
  BY <1>1 DEF Founded, Submits, Fields
<1>3. \A a : Ordered(a)' <=> Ordered(a)
  BY <1>1, <1>2 DEF Ordered
<1>4. ASSUME NEW q \in Request, Pending(q)', Pending(q), place'[q] = place[q], Follows(q)
      PROVE  Follows(q)'
  BY <1>1, <1>4 DEF Follows, EventFollows, Greatest, Submits, Fields
<1>5. \A q \in Request : Pending(q)' => Pending(q) /\ (Follows(q) => Follows(q)')
  BY <1>4
<1> QED BY <1>3, <1>5 DEF InTurn

LEMMA ComposesInTurn ==
  ASSUME RequestType, InTurn, NEW q \in Request, NEW e \in Event, Compose(q, e),
         Submits(e) \/ (Known(e.id) /\ Fields(e) = Fields(Current(events, e.id)))
  PROVE  InTurn'
<1> DEFINE f == [e EXCEPT !.at = 0]
<1>1. /\ composed' = [composed EXCEPT ![q] = <<f>>]
      /\ place' = [place EXCEPT ![q] = "composed"] /\ UNCHANGED <<events, clock, raced>>
  BY DEF Compose
<1>2. /\ f.id = e.id /\ Fields(f) = Fields(e) /\ (Submits(f) <=> Submits(e))
      /\ e.id \in Adjustment /\ f.at <= clock
  BY ClockAssumption DEF Event, Fields, Submits, RequestType
<1> HIDE DEF f
<1>3. \A a : Of(a)' = Of(a)
  BY <1>1 DEF Of, Positions
<1>4. composed'[q][1] = f /\ place'[q] = "composed"
        /\ \A p \in Request \ {q} : composed'[p] = composed[p] /\ place'[p] = place[p]
  BY <1>1 DEF RequestType
<1>5. ASSUME e.id \notin raced
      PROVE  Submits(f) \/ \E i \in Of(f.id) :
               Greatest(f.id, i) /\ Fields(f) = Fields(events[i])
  <2>1. CASE Submits(e)
    BY <1>2, <2>1
  <2>2. CASE Known(e.id) /\ Fields(e) = Fields(Current(events, e.id))
    <3>1. PICK i \in Of(e.id) : Greatest(e.id, i)
      BY <1>2, <2>2, GreatestIsThere
    <3>2. Current(events, e.id) = events[i]
      BY <1>2, <1>5, <2>2, <3>1, CurrentIsGreatest DEF InTurn
    <3> QED BY <1>2, <2>2, <3>1, <3>2
  <2> QED BY <2>1, <2>2
<1>6. ASSUME NEW p \in Request, Pending(p)'
      PROVE  /\ composed'[p][1].at <= clock
             /\ composed'[p][1].id \notin raced =>
                  EventFollows(composed'[p][1], place'[p] = "stamped")
  <2>1. CASE p = q
    BY <1>2, <1>4, <1>5, <2>1 DEF EventFollows
  <2>2. CASE p # q
    BY <1>4, <1>6, <2>2 DEF InTurn, Pending, Follows
  <2> QED BY <2>1, <2>2
<1>7. ASSUME NEW p \in Request, Pending(p)'
      PROVE  composed'[p][1].at <= clock' /\ (composed'[p][1].id \notin raced' => Follows(p)')
  BY <1>1, <1>3, <1>6, <1>7 DEF Follows, EventFollows, Greatest, Submits, Fields
<1>8. \A a \in Adjustment \ raced : Ordered(a)'
  BY <1>1, <1>3 DEF InTurn, Ordered, Founded, Submits, Fields
<1> QED BY <1>1, <1>7, <1>8 DEF InTurn

\* The instant is taken after all that is in the stream.
LEMMA StampInTurn ==
  ASSUME RequestType, InTurn, NEW q \in Request, Stamp(q)
  PROVE  InTurn'
<1>1. PICK t \in {clock, clock + 1} \cap (0 .. MaxClock) :
        clock' = t /\ composed' = [composed EXCEPT ![q] = <<[@[1] EXCEPT !.at = t]>>]
  BY DEF Stamp
<1>2. /\ place[q] = "composed" /\ place' = [place EXCEPT ![q] = "stamped"]
      /\ UNCHANGED <<events, raced>>
  BY DEF Stamp
<1>3. Pending(q) /\ composed[q][1] \in Event
  BY <1>2, PendingHolds DEF Pending
<1> DEFINE e == composed[q][1]
           f == [e EXCEPT !.at = t]
<1>4. f.id = e.id /\ Fields(f) = Fields(e) /\ (Submits(f) <=> Submits(e)) /\ f.at = t
  BY <1>3 DEF Event, Fields, Submits
<1>5. composed' = [composed EXCEPT ![q] = <<f>>]
  BY <1>1
<1> HIDE DEF e, f
<1>6. \A a : Of(a)' = Of(a)
  BY <1>2 DEF Of, Positions
<1>7. composed'[q][1] = f /\ place'[q] = "stamped"
        /\ \A p \in Request \ {q} : composed'[p] = composed[p] /\ place'[p] = place[p]
  BY <1>2, <1>5 DEF RequestType
<1>8. clock <= t /\ \A i \in 1 .. Len(events) : events[i].at <= t
  <2>1. clock \in Nat /\ t \in Nat /\ \A i \in 1 .. Len(events) : events[i].at \in Nat
    BY <1>1, PositionsHold
  <2> QED BY <1>1, <2>1 DEF InTurn
<1>9. ASSUME NEW p \in Request, Pending(p)'
      PROVE  /\ composed'[p][1].at <= t
             /\ composed'[p][1].id \notin raced =>
                  EventFollows(composed'[p][1], place'[p] = "stamped")
  <2>1. CASE p = q
    <3>1. e.id \notin raced => EventFollows(e, FALSE)
      BY <1>2, <1>3 DEF InTurn, Follows, EventFollows, e
    <3>2. \A i \in Of(f.id) : events[i].at <= f.at
      BY <1>4, <1>8, PositionsHold
    <3>3. e.id \notin raced => EventFollows(f, TRUE)
      BY <1>4, <3>1, <3>2 DEF EventFollows
    <3>4. f.at <= t /\ (f.id \notin raced => EventFollows(f, TRUE))
      <4>1. t <= t
        BY <1>1, ClockAssumption
      <4> QED BY <1>4, <3>3, <4>1
    <3>5. composed'[p][1] = f /\ (place'[p] = "stamped") = TRUE
      BY <1>7, <2>1
    <3> QED BY <3>4, <3>5
  <2>2. CASE p # q
    <3>1. Pending(p) /\ composed'[p] = composed[p] /\ place'[p] = place[p]
      BY <1>7, <1>9, <2>2 DEF Pending
    <3>2. composed[p][1].at \in Nat
      BY <3>1, PendingHolds, ClockAssumption DEF Event
    <3> QED BY <1>1, <1>8, <3>1, <3>2, PositionsHold DEF InTurn, Follows
  <2> QED BY <2>1, <2>2
<1>10. ASSUME NEW p \in Request, Pending(p)'
       PROVE  composed'[p][1].at <= clock' /\ (composed'[p][1].id \notin raced' => Follows(p)')
  BY <1>1, <1>2, <1>6, <1>9, <1>10 DEF Follows, EventFollows, Greatest, Submits, Fields
<1>11. \A a \in Adjustment \ raced : Ordered(a)'
  BY <1>2, <1>6 DEF InTurn, Ordered, Founded, Submits, Fields
<1> QED BY <1>1, <1>2, <1>8, <1>10, <1>11 DEF InTurn

\* An append makes an adjustment raced when another request is at it; otherwise
\* the event follows the last one.
LEMMA AppendInTurn ==
  ASSUME RequestType, InTurn, NEW q \in Request, AppendEvent(q)
  PROVE  InTurn'
<1>0. PICK e, n : e = composed[q][1] /\ n = Len(events) + 1
  OBVIOUS
<1>1. /\ place[q] = "stamped" /\ place' = [place EXCEPT ![q] = "answered"]
      /\ events' = Append(events, e) /\ composed' = [composed EXCEPT ![q] = <<>>]
      /\ raced' = (IF Busy(e.id) = {q} THEN raced ELSE raced \cup {e.id})
      /\ clock' = clock
  BY <1>0 DEF AppendEvent
<1>2. Pending(q) /\ e \in Event /\ e.id \in Adjustment /\ e.at <= clock
  BY <1>0, <1>1, PendingHolds DEF Pending, Event, InTurn
<1>3. /\ Len(events') = n /\ Len(events) \in Nat
      /\ \A i \in 1 .. Len(events) : events'[i] = events[i]
      /\ events'[n] = e
  BY <1>0, <1>1, <1>2 DEF RequestType
<1>5. /\ \A a : Of(a) \subseteq 1 .. Len(events)
      /\ \A i \in 1 .. Len(events) : i \in Nat /\ i < n
      /\ n \in Nat /\ ~(n < n)
  BY <1>0, <1>3 DEF Of, Positions
<1>4. /\ \A a : a # e.id => Of(a)' = Of(a)
      /\ Of(e.id)' = Of(e.id) \cup {n}
  <2>1. \A i : i \in 1 .. n <=> i \in 1 .. Len(events) \/ i = n
    BY <1>0, <1>3
  <2>2. ASSUME NEW a
        PROVE  /\ a # e.id => Of(a)' = Of(a)
               /\ a = e.id => Of(a)' = Of(a) \cup {n}
    <3>1. \A i : i \in Of(a)' <=> (i \in 1 .. n /\ events'[i].id = a)
      BY <1>3 DEF Of, Positions
    <3>2. \A i : i \in Of(a) <=> (i \in 1 .. Len(events) /\ events[i].id = a)
      BY DEF Of, Positions
    <3>3. \A i : i \in Of(a)' <=> (i \in Of(a) \/ (i = n /\ e.id = a))
      BY <1>3, <2>1, <3>1, <3>2
    <3> QED BY <3>3
  <2> QED BY <2>2
<1>6. \A p \in Request : Pending(p)' =>
        p # q /\ Pending(p) /\ composed'[p] = composed[p] /\ place'[p] = place[p]
  BY <1>1 DEF RequestType, Pending
<1>7. \A i \in 1 .. Len(events') : events'[i].at <= clock'
  BY <1>1, <1>2, <1>3 DEF InTurn
<1>8. ASSUME NEW a \in Adjustment \ raced', a # e.id PROVE Ordered(a)'
  <2>1. Ordered(a) /\ Of(a)' = Of(a)
    BY <1>1, <1>4, <1>8 DEF InTurn
  <2>2. \A i \in Of(a) : events'[i] = events[i]
    BY <1>3, <1>5
  <2>3. \A i \in Of(a) : Founded(a, i) => Founded(a, i)'
    BY <2>1, <2>2 DEF Founded, Submits, Fields
  <2> QED BY <2>1, <2>2, <2>3 DEF Ordered
<1>9. ASSUME e.id \notin raced' PROVE Ordered(e.id)'
  <2>1. Ordered(e.id) /\ EventFollows(e, TRUE)
    BY <1>0, <1>1, <1>2, <1>9 DEF InTurn, Follows, EventFollows
  <2>2. \A i, j \in Of(e.id)' : i < j => events'[i].at <= events'[j].at
    <3>1. ASSUME NEW i \in Of(e.id)', NEW j \in Of(e.id)', i < j
          PROVE  events'[i].at <= events'[j].at
      <4>1. i \in Of(e.id)
        BY <1>3, <1>4, <1>5, <3>1
      <4>2. CASE j \in Of(e.id)
        BY <1>3, <1>5, <2>1, <3>1, <4>1, <4>2 DEF Ordered
      <4>3. CASE j = n
        BY <1>3, <1>5, <2>1, <4>1, <4>3 DEF EventFollows
      <4> QED BY <1>4, <4>2, <4>3
    <3> QED BY <3>1
  <2>3. ASSUME NEW i \in Of(e.id) PROVE Founded(e.id, i)'
    <3>1. PICK j \in Of(e.id) :
            /\ j <= i /\ Submits(events[j]) /\ Fields(events[j]) = Fields(events[i])
            /\ \A k \in Of(e.id) : (j < k /\ k <= i) => ~Submits(events[k])
      BY <2>1, <2>3 DEF Ordered, Founded
    <3>2. i \in 1 .. Len(events) /\ j \in 1 .. Len(events) /\ j \in Of(e.id)'
      BY <1>4, <1>5, <2>3
    <3>3. \A k \in Of(e.id)' : (j < k /\ k <= i) => ~Submits(events'[k])
      BY <1>3, <1>4, <1>5, <3>1, <3>2
    <3> QED BY <1>3, <3>1, <3>2, <3>3 DEF Founded, Submits, Fields
  <2>4. Founded(e.id, n)'
    <3>1. n \in Of(e.id)' /\ n \in Nat
      BY <1>3, <1>4
    <3>2. CASE Submits(e)
      <4>1. \A k \in Of(e.id)' : ~(n < k /\ k <= n)
        BY <1>4, <1>5
      <4>2. n <= n
        BY <3>1
      <4> QED BY <1>3, <3>1, <3>2, <4>1, <4>2 DEF Founded, Submits, Fields
    <3>3. CASE ~Submits(e)
      <4>1. PICK i \in Of(e.id) : Greatest(e.id, i) /\ Fields(e) = Fields(events[i])
        BY <2>1, <3>3 DEF EventFollows
      <4>2. PICK j \in Of(e.id) :
              /\ j <= i /\ Submits(events[j]) /\ Fields(events[j]) = Fields(events[i])
              /\ \A k \in Of(e.id) : (j < k /\ k <= i) => ~Submits(events[k])
        BY <2>1 DEF Ordered, Founded
      <4>3. \A k \in Of(e.id)' : (j < k /\ k <= n) => ~Submits(events'[k])
        BY <1>3, <1>4, <1>5, <3>3, <4>1, <4>2 DEF Greatest
      <4>4. j \in Of(e.id)' /\ j <= n /\ events'[j] = events[j]
        BY <1>3, <1>4, <1>5, <4>2
      <4> QED BY <1>3, <4>1, <4>2, <4>3, <4>4 DEF Founded, Submits, Fields
    <3> QED BY <3>2, <3>3
  <2> QED BY <1>4, <2>2, <2>3, <2>4 DEF Ordered
<1>10. ASSUME NEW p \in Request, Pending(p)'
       PROVE  composed'[p][1].at <= clock' /\ (composed'[p][1].id \notin raced' => Follows(p)')
  <2>1. p # q /\ Pending(p) /\ composed'[p] = composed[p] /\ place'[p] = place[p]
    BY <1>6, <1>10
  <2>2. composed'[p][1].at <= clock'
    BY <1>1, <2>1 DEF InTurn
  <2>3. ASSUME composed[p][1].id \notin raced' PROVE Follows(p)'
    <3>1. PICK c : c = composed[p][1]
      OBVIOUS
    <3>2. c.id # e.id
      <4>1. ASSUME c.id = e.id PROVE p \in Busy(e.id)
        BY <2>1, <3>1, <4>1 DEF Busy, Pending
      <4> QED BY <1>1, <2>1, <2>3, <3>1, <4>1
    <3>3. EventFollows(c, place[p] = "stamped")
      BY <1>1, <2>1, <2>3, <3>1 DEF InTurn, Follows
    <3>4. Of(c.id)' = Of(c.id) /\ \A i \in Of(c.id) : events'[i] = events[i]
      BY <1>3, <1>4, <1>5, <3>2
    <3>5. place[p] = "stamped" => \A i \in Of(c.id) : events[i].at <= c.at
      BY <3>3 DEF EventFollows
    <3>6. Submits(c) \/ \E i \in Of(c.id) :
            (\A j \in Of(c.id) : j <= i) /\ Fields(c) = Fields(events[i])
      BY <3>3 DEF EventFollows, Greatest
    <3>7. composed'[p][1] = c /\ place'[p] = place[p]
      BY <2>1, <3>1
    <3> QED BY <3>4, <3>5, <3>6, <3>7 DEF Follows, EventFollows, Greatest, Submits, Fields
  <2> QED BY <2>1, <2>2, <2>3
<1> QED BY <1>1, <1>2, <1>7, <1>8, <1>9, <1>10 DEF InTurn

LEMMA RequestInTurn ==
  ASSUME RequestType, InTurn, NEW q \in Request, RequestNext(q)
  PROVE  InTurn'
<1>1. CASE /\ UNCHANGED <<events, clock, raced, composed>>
           /\ ~Pending(q) /\ place' = [place EXCEPT ![q] = "answered"]
  <2>1. \A p \in Request : Pending(p)' => Pending(p) /\ place'[p] = place[p]
    BY <1>1 DEF RequestType, Pending
  <2> QED BY <1>1, <2>1, SameInTurn
<1>2. ASSUME NEW e \in Event, Compose(q, e),
             Submits(e) \/ (Known(e.id) /\ Fields(e) = Fields(Current(events, e.id)))
      PROVE  InTurn'
  BY <1>2, ComposesInTurn
<1>3. CASE Stamp(q)
  BY <1>3, StampInTurn
<1>4. CASE AppendEvent(q)
  BY <1>4, AppendInTurn
<1> QED BY <1>1, <1>2, <1>3, <1>4, RequestForms

LEMMA OthersKeep ==
  ASSUME RequestType, InTurn, UNCHANGED <<events, clock, raced, place, composed>>
  PROVE  RequestType' /\ InTurn'
<1>1. \A p \in Request : Pending(p)' => Pending(p) /\ place'[p] = place[p]
  BY DEF Pending
<1> QED BY <1>1, SameInTurn DEF RequestType

LEMMA RequestFrame ==
  ASSUME NEW q \in Request, RequestNext(q)
  PROVE  UNCHANGED <<buildVars, pageVars>>
BY DEF RequestNext, Create, Edit, Revoke, Restore, Unknown, Compose, Return, Stamp, AppendEvent

LEMMA OthersFrame ==
  ASSUME [Next]_vars
  PROVE  \/ UNCHANGED <<events, clock, raced, place, composed>>
         \/ \E q \in Request : RequestNext(q)
<1>1. ASSUME NEW b \in Build, BuildNext(b)
      PROVE  UNCHANGED <<events, clock, raced, place, composed>>
  BY <1>1 DEF BuildNext, Deliver, LockTimeout, AppendRunning, Connect, ConnectFails, Load,
     Commit, CommitFails, BuildFails, AppendManifest, AppendCompleted, AppendRaises, Interrupt,
     requestVars
<1>2. ASSUME NEW h \in Reader, PageNext(h)
      PROVE  UNCHANGED <<events, clock, raced, place, composed>>
  BY <1>2 DEF PageNext, ReadUnavailable, RebuildBegins, RebuildGivesUp, RebuildDate,
     RebuildEnds, requestVars
<1> QED BY <1>1, <1>2 DEF Next, vars, requestVars

LEMMA InitInTurn == Init => RequestType /\ InTurn
<1> SUFFICES ASSUME Init PROVE RequestType /\ InTurn
  OBVIOUS
<1>1. /\ events \in Seq(Event) /\ Len(events) \in {0, 1}
      /\ \A i \in 1 .. Len(events) : i = 1 /\ Submits(events[i]) /\ events[i].at = 0
  <2>1. CASE events = <<>>
    BY <2>1
  <2>2. ASSUME NEW e \in Event, events = <<e>>, e.kind = "created", e.at = 0
        PROVE  /\ events \in Seq(Event) /\ Len(events) = 1
               /\ \A i \in 1 .. Len(events) : i = 1 /\ Submits(events[i]) /\ events[i].at = 0
    BY <2>2 DEF Submits
  <2> QED BY <2>1, <2>2, StreamAssumption DEF Init
<1>2. RequestType
  <2>1. clock \in 0 .. MaxClock /\ raced \subseteq Adjustment
    BY ClockAssumption DEF Init
  <2>2. composed \in [Request -> Seq(Event)] /\ \A q \in Request : Len(composed[q]) = 0
    BY DEF Init
  <2>3. place \in [Request -> {"idle"}]
    BY DEF Init
  <2>4. place \in [Request -> RequestPlace]
    BY <2>3 DEF RequestPlace
  <2>5. ASSUME NEW q \in Request
        PROVE  (Len(composed[q]) = 1) = (place[q] \in {"composed", "stamped"})
    <3>1. Len(composed[q]) = 0 /\ place[q] = "idle"
      BY <2>2, <2>3
    <3> QED BY <3>1
  <2> QED BY <1>1, <2>1, <2>2, <2>4, <2>5 DEF RequestType
<1>3. \A a : \A i \in Of(a) : i = 1 /\ Submits(events[i]) /\ events[i].at = 0
  BY <1>1 DEF Of, Positions
<1>4. \A a : Ordered(a)
  BY <1>3 DEF Ordered, Founded
<1>5. clock = 0 /\ \A q \in Request : ~Pending(q)
  BY DEF Init, Pending
<1>6. \A i \in 1 .. Len(events) : events[i].at <= clock
  BY <1>1, <1>5
<1> QED BY <1>2, <1>4, <1>5, <1>6 DEF InTurn

LEMMA InTurnIsLast == RequestType /\ InTurn => CurrentIsLastUnlessRaced
<1> SUFFICES ASSUME RequestType, InTurn, NEW a \in Adjustment, a \notin raced, Known(a)
             PROVE  LET P == Positions(events, a)
                        submitted == {i \in P : events[i].kind \in {"created", "edited"}}
                        last(S) == events[CHOOSE i \in S : \A j \in S : j <= i]
                    IN /\ Current(events, a) = last(P)
                       /\ Fields(last(P)) = Fields(last(submitted))
  BY DEF CurrentIsLastUnlessRaced
<1> DEFINE submitted == {i \in Of(a) : events[i].kind \in {"created", "edited"}}
           last(S) == events[CHOOSE i \in S : \A j \in S : j <= i]
<1>1. PICK i \in Of(a) : Greatest(a, i)
  BY GreatestIsThere
<1>2. Ordered(a)
  BY DEF InTurn
<1>3. Of(a) \in SUBSET Nat
  BY PositionsHold
<1>4. ASSUME NEW S \in SUBSET Nat, NEW m \in S, \A j \in S : j <= m
      PROVE  last(S) = events[m]
  <2>1. \A k \in S : (\A j \in S : j <= k) => k = m
    BY <1>4
  <2> QED BY <1>4, <2>1
<1>5. Current(events, a) = events[i]
  BY <1>1, <1>2, CurrentIsGreatest
<1> HIDE DEF last
<1>6. last(Of(a)) = events[i]
  BY <1>1, <1>3, <1>4 DEF Greatest
<1>7. PICK j \in Of(a) :
        /\ j <= i /\ Submits(events[j]) /\ Fields(events[j]) = Fields(events[i])
        /\ \A k \in Of(a) : (j < k /\ k <= i) => ~Submits(events[k])
  BY <1>1, <1>2 DEF Ordered, Founded
<1>8. last(submitted) = events[j]
  <2>1. j \in submitted /\ submitted \in SUBSET Nat
    BY <1>3, <1>7 DEF Submits
  <2>2. ASSUME NEW k \in submitted PROVE k <= j
    <3>1. k \in Of(a) /\ Submits(events[k]) /\ k <= i
      BY <1>1 DEF Greatest, Submits
    <3> QED BY <1>3, <1>7, <3>1
  <2> HIDE DEF submitted
  <2> QED BY <2>1, <2>2, <1>4
<1> QED BY <1>5, <1>6, <1>7, <1>8 DEF last, Of

-----------------------------------------------------------------------------
(***************************************************************************)
(* The facts are what the list shows                                       *)
(***************************************************************************)
LEMMA PrefixHolds ==
  ASSUME NEW log \in Seq(Event)
  PROVE  /\ Len(log) \in Nat /\ SubSeq(log, 1, Len(log)) = log
         /\ \A n \in 0 .. Len(log) :
              /\ SubSeq(log, 1, n) \in Seq(Event)
              /\ \A e \in Event : SubSeq(Append(log, e), 1, n) = SubSeq(log, 1, n)
<1>1. Len(log) \in Nat /\ SubSeq(log, 1, Len(log)) = log
  BY SubSeqFull
<1>2. ASSUME NEW n \in 0 .. Len(log)
      PROVE  /\ SubSeq(log, 1, n) \in Seq(Event)
             /\ \A e \in Event : SubSeq(Append(log, e), 1, n) = SubSeq(log, 1, n)
  <2>1. n \in Nat /\ n <= Len(log) /\ \A i \in 1 .. n : i \in 1 .. Len(log)
    BY <1>1
  <2>2. SubSeq(log, 1, n) \in Seq(Event)
    BY <2>1
  <2>3. ASSUME NEW e \in Event PROVE SubSeq(Append(log, e), 1, n) = SubSeq(log, 1, n)
    BY <1>1, <2>1
  <2> QED BY <2>2, <2>3
<1> QED BY <1>1, <1>2

\* Where no edit moved the adjustment, the latest event of the date is its
\* current record if that is of the date.
LEMMA LoadedIsListed ==
  ASSUME NEW log \in Seq(Event), NEW d \in Date, NEW a \in Adjustment
  PROVE  /\ Loaded(log, d)[a] \in Nat
         /\ ~Moved(log, a) => Loaded(log, d)[a] =
              IF Positions(log, a) # {} /\ Current(log, a).date = d
              THEN Contribution(Current(log, a)) ELSE 0
<1> DEFINE P == Positions(log, a)
           S == {i \in P : log[i].date = d}
<1>1. P \in SUBSET (1 .. Len(log)) /\ S \in SUBSET (1 .. Len(log))
  BY DEF Positions
<1>2. Loaded(log, d)[a] = IF S = {} THEN 0 ELSE Contribution(Latest(log, S))
  BY DEF Loaded
<1>3. \A i \in 1 .. Len(log) : Contribution(log[i]) \in Nat
  <2>1. \A i \in 1 .. Len(log) : log[i] \in Event
    BY ElementOfSeq
  <2> QED BY <2>1, AmountAssumption DEF Contribution, Event
<1>4. Loaded(log, d)[a] \in Nat
  BY <1>1, <1>2, <1>3, LatestIsThere
<1>5. ASSUME ~Moved(log, a), P # {}
      PROVE  Loaded(log, d)[a] =
               IF Current(log, a).date = d THEN Contribution(Current(log, a)) ELSE 0
  <2>1. PICK c \in P : Current(log, a) = log[c]
    BY <1>1, <1>5, LatestIsThere DEF Current
  <2>2. \A i \in P : log[i].date = log[c].date
    BY <1>5, <2>1 DEF Moved
  <2>3. CASE log[c].date = d
    BY <1>2, <2>1, <2>2, <2>3 DEF Current
  <2>4. CASE log[c].date # d
    BY <1>2, <2>1, <2>2, <2>4
  <2> QED BY <2>3, <2>4
<1>6. P = {} => Loaded(log, d)[a] = 0
  BY <1>2
<1> QED BY <1>4, <1>5, <1>6

\* A date was loaded from some prefix of the stream.
LoadedOf(rows, from) ==
  \A d \in 1 .. Len(rows) :
    from[d] \in 0 .. Len(events) /\ rows[d] = Loaded(SubSeq(events, 1, from[d]), d)
FactsLoaded == LoadedOf(staged, stagedFrom) /\ LoadedOf(facts, factsFrom)

\* The facts are of every date or of none, and a page rebuilds what is there.
DatesInv == Len(staged) <= Months /\ Len(facts) \in {0, Months}

LEMMA StepLoaded ==
  ASSUME ProofType, RequestType, FactsLoaded, [Next]_vars
  PROVE  FactsLoaded'
<1>1. CASE UNCHANGED ProofVars
  BY <1>1 DEF ProofVars, FactsLoaded, LoadedOf
<1>2. ASSUME NEW q \in Request, AppendEvent(q)
      PROVE  FactsLoaded'
  <2> DEFINE e == composed[q][1]
  <2>1. e \in Event /\ events' = Append(events, e)
    BY <1>2, PendingHolds DEF AppendEvent, Pending
  <2>2. UNCHANGED <<staged, stagedFrom, facts, factsFrom>>
    BY <1>2, AppendEventStep
  <2> HIDE DEF e
  <2>3. \A n \in 0 .. Len(events) :
          n \in 0 .. Len(events') /\ SubSeq(events', 1, n) = SubSeq(events, 1, n)
    BY <2>1, PrefixHolds DEF RequestType
  <2> QED BY <2>2, <2>3 DEF FactsLoaded, LoadedOf
<1>3. ASSUME NEW b \in Build, Load(b)
      PROVE  FactsLoaded'
  <2> DEFINE k == Len(staged) + 1
             r == Loaded(events, k)
  <2>1. /\ staged' = Append(staged, r) /\ stagedFrom' = Append(stagedFrom, Len(events))
        /\ UNCHANGED <<events, facts, factsFrom>>
    BY <1>3 DEF Load
  <2>2. Len(events) \in 0 .. Len(events) /\ r = Loaded(SubSeq(events, 1, Len(events)), k)
    <3>1. Len(events) \in Nat /\ SubSeq(events, 1, Len(events)) = events
      BY PrefixHolds DEF RequestType
    <3>2. r = Loaded(SubSeq(events, 1, Len(events)), k)
      BY <3>1
    <3> QED BY <3>1, <3>2
  <2>3. Len(staged) \in Nat /\ Len(stagedFrom) = Len(staged) /\ stagedFrom \in Seq(Nat)
    BY DEF ProofType, IsSeq
  <2>4. /\ Len(staged') = k /\ staged'[k] = r
        /\ \A d \in 1 .. Len(staged) : staged'[d] = staged[d]
    <3> HIDE DEF r
    <3>1. staged \in Seq({staged[i] : i \in DOMAIN staged} \cup {r})
      BY DEF ProofType, IsSeq
    <3> QED BY <2>1, <3>1
  <2>5. stagedFrom'[k] = Len(events) /\ \A d \in 1 .. Len(staged) : stagedFrom'[d] = stagedFrom[d]
    BY <2>1, <2>3
  <2>6. \A d \in 1 .. k : d = k \/ d \in 1 .. Len(staged)
    BY <2>3
  <2> HIDE DEF k, r
  <2>7. ASSUME NEW d \in 1 .. k
        PROVE  /\ stagedFrom'[d] \in 0 .. Len(events)
               /\ staged'[d] = Loaded(SubSeq(events, 1, stagedFrom'[d]), d)
    <3>1. CASE d = k
      BY <2>2, <2>4, <2>5, <3>1
    <3>2. CASE d \in 1 .. Len(staged)
      BY <2>4, <2>5, <3>2 DEF FactsLoaded, LoadedOf
    <3> QED BY <2>6, <3>1, <3>2
  <2> QED BY <2>1, <2>4, <2>7 DEF FactsLoaded, LoadedOf
<1>4. ASSUME NEW b \in Build, Commit(b)
      PROVE  FactsLoaded'
  BY <1>4, EmptyIsSeq DEF Commit, LeaveFile, FactsLoaded, LoadedOf
<1>5. ASSUME NEW b \in Build, BuildNext(b), ~Load(b), ~Commit(b)
      PROVE  /\ UNCHANGED <<events, facts, factsFrom>>
             /\ staged' = <<>> \/ UNCHANGED <<staged, stagedFrom>>
  BY <1>5 DEF BuildNext, Deliver, LockTimeout, AppendRunning, Connect, ConnectFails,
     CommitFails, BuildFails, AppendManifest, AppendCompleted, AppendRaises, Interrupt,
     LeaveFile
<1>6. ASSUME NEW b \in Build, BuildNext(b), ~Load(b), ~Commit(b)
      PROVE  FactsLoaded'
  BY <1>5, <1>6, EmptyIsSeq DEF FactsLoaded, LoadedOf
<1> QED BY <1>1, <1>2, <1>3, <1>4, <1>6, NextCases

LEMMA StepDates ==
  ASSUME ProofType, DatesInv, [Next]_vars
  PROVE  DatesInv'
<1>0. Months \in Nat /\ Len(staged) \in Nat
  BY MonthsAssumption DEF ProofType, IsSeq
<1>1. CASE UNCHANGED ProofVars
  BY <1>1 DEF ProofVars, DatesInv
<1>2. ASSUME NEW q \in Request, AppendEvent(q)
      PROVE  DatesInv'
  BY <1>2, AppendEventStep DEF DatesInv
<1>3. ASSUME NEW b \in Build, Load(b)
      PROVE  DatesInv'
  <2> DEFINE r == Loaded(events, Len(staged) + 1)
  <2>1. staged' = Append(staged, r) /\ facts' = facts /\ Len(staged) < Months
    BY <1>3 DEF Load
  <2> HIDE DEF r
  <2> QED BY <1>0, <2>1, AppendIsSeq DEF ProofType, DatesInv
<1>4. ASSUME NEW b \in Build, Commit(b)
      PROVE  DatesInv'
  BY <1>0, <1>4, EmptyIsSeq DEF Commit, LeaveFile, DatesInv
<1>5. ASSUME NEW b \in Build, BuildNext(b), ~Load(b), ~Commit(b)
      PROVE  facts' = facts /\ (staged' = <<>> \/ staged' = staged)
  BY <1>5 DEF BuildNext, Deliver, LockTimeout, AppendRunning, Connect, ConnectFails,
     CommitFails, BuildFails, AppendManifest, AppendCompleted, AppendRaises, Interrupt,
     LeaveFile
<1>6. ASSUME NEW b \in Build, BuildNext(b), ~Load(b), ~Commit(b)
      PROVE  DatesInv'
  BY <1>0, <1>5, <1>6, EmptyIsSeq DEF DatesInv
<1> QED BY <1>1, <1>2, <1>3, <1>4, <1>6, NextCases

-----------------------------------------------------------------------------
(***************************************************************************)
(* Types of the rows                                                       *)
(***************************************************************************)
EffectInv == staged \in Seq(Effect) /\ facts \in Seq(Effect)

\* A page rebuilds facts that are there.
PageInv ==
  /\ page \in [Reader -> PagePlace]
  /\ anchor \in [Reader -> Date]
  /\ rebuilt \in [Reader -> Seq(Effect)]
  /\ \A h \in Reader : page[h] = "rebuilding" => facts # <<>>

LEMMA LoadedType ==
  ASSUME NEW log \in Seq(Event), NEW d \in Date
  PROVE  Loaded(log, d) \in Effect
<1>1. \A a \in Adjustment : Loaded(log, d)[a] \in Nat
  BY LoadedIsListed
<1>2. Loaded(log, d) = [a \in Adjustment |-> Loaded(log, d)[a]]
  BY DEF Loaded
<1> HIDE DEF Loaded
<1> QED BY <1>1, <1>2 DEF Effect

LEMMA StepEffects ==
  ASSUME ProofType, RequestType, DatesInv, EffectInv, [Next]_vars
  PROVE  EffectInv'
<1>1. CASE UNCHANGED <<staged, facts>>
  BY <1>1 DEF EffectInv
<1>2. ASSUME NEW b \in Build, Load(b)
      PROVE  EffectInv'
  <2> DEFINE r == Loaded(events, Len(staged) + 1)
  <2>1. Len(staged) + 1 \in Date /\ staged' = Append(staged, r) /\ facts' = facts
    BY <1>2, MonthsAssumption DEF Load, Date, ProofType, IsSeq
  <2>2. r \in Effect
    BY <2>1, LoadedType DEF RequestType
  <2> HIDE DEF r
  <2> QED BY <2>1, <2>2 DEF EffectInv
<1>3. ASSUME NEW b \in Build, BuildNext(b), ~Load(b)
      PROVE  staged' \in {<<>>, staged} /\ facts' \in {facts, staged}
  BY <1>3 DEF BuildNext, Deliver, LockTimeout, AppendRunning, Connect, ConnectFails,
     Commit, CommitFails, BuildFails, AppendManifest, AppendCompleted, AppendRaises,
     Interrupt, LeaveFile
<1>4. ASSUME NEW b \in Build, BuildNext(b), ~Load(b)
      PROVE  EffectInv'
  <2>1. <<>> \in Seq(Effect)
    OBVIOUS
  <2> QED BY <1>3, <1>4, <2>1 DEF EffectInv
<1>5. ASSUME NEW q \in Request, AppendEvent(q)
      PROVE  UNCHANGED <<staged, facts>>
  BY <1>5, AppendEventStep
<1> QED BY <1>1, <1>2, <1>4, <1>5, NextCases DEF ProofVars

LEMMA PageSteps ==
  ASSUME ProofType, RequestType, DatesInv, EffectInv, PageInv, NEW h \in Reader, PageNext(h)
  PROVE  PageInv'
<1>1. facts' = facts
  BY DEF PageNext, ReadUnavailable, RebuildBegins, RebuildGivesUp, RebuildDate, RebuildEnds,
     buildVars
<1>2. CASE ReadUnavailable(h) \/ RebuildGivesUp(h)
  BY <1>1, <1>2 DEF ReadUnavailable, RebuildGivesUp, PageInv, PagePlace
<1>3. ASSUME NEW d \in Date, RebuildBegins(h, d)
      PROVE  PageInv'
  BY <1>1, <1>3 DEF RebuildBegins, PageInv, PagePlace
<1>4. CASE RebuildEnds(h)
  <2>1. 1 \in Date /\ <<>> \in Seq(Effect)
    BY MonthsAssumption DEF Date
  <2> QED BY <1>1, <1>4, <2>1 DEF RebuildEnds, PageInv, PagePlace
<1>5. CASE RebuildDate(h)
  <2> DEFINE d == Len(rebuilt[h]) + 1
             r == Plus(facts[d], Loaded(events, d))
  <2>1. /\ page[h] = "rebuilding" /\ d <= anchor[h]
        /\ rebuilt' = [rebuilt EXCEPT ![h] = Append(@, r)] /\ UNCHANGED <<page, anchor>>
    BY <1>5 DEF RebuildDate
  <2>2. rebuilt[h] \in Seq(Effect) /\ anchor[h] \in Date
    BY DEF PageInv
  <2>3. d \in Date
    BY <2>1, <2>2, MonthsAssumption DEF Date
  <2>4. Len(facts) = Months
    BY <2>1 DEF PageInv, DatesInv, EffectInv
  <2>5. facts[d] \in Effect /\ Loaded(events, d) \in Effect
    BY <2>3, <2>4, LoadedType, ElementOfSeq DEF EffectInv, Date, RequestType
  <2> HIDE DEF d
  <2>6. r \in Effect
    BY <2>5 DEF Plus, Effect
  <2> HIDE DEF r
  <2>7. Append(rebuilt[h], r) \in Seq(Effect)
    BY <2>2, <2>6
  <2> QED BY <1>1, <2>1, <2>7 DEF PageInv
<1> QED BY <1>2, <1>3, <1>4, <1>5 DEF PageNext

LEMMA StepPages ==
  ASSUME ProofType, RequestType, DatesInv, EffectInv, PageInv, [Next]_vars
  PROVE  PageInv'
<1>1. CASE UNCHANGED <<facts, page, anchor, rebuilt>>
  BY <1>1 DEF PageInv
<1>2. ASSUME NEW b \in Build, BuildNext(b)
      PROVE  UNCHANGED <<page, anchor, rebuilt>> /\ (facts' = facts \/ Commit(b))
  BY <1>2 DEF BuildNext, Deliver, LockTimeout, AppendRunning, Connect, ConnectFails, Load,
     Commit, CommitFails, BuildFails, AppendManifest, AppendCompleted, AppendRaises,
     Interrupt, pageVars
<1>3. ASSUME NEW b \in Build, BuildNext(b)
      PROVE  PageInv'
  <2>1. CASE facts' = facts
    BY <1>1, <1>2, <1>3, <2>1
  <2>2. CASE Commit(b)
    <3>1. Len(facts') = Months
      BY <2>2 DEF Commit
    <3>2. facts' # <<>>
      BY <3>1, MonthsAssumption, EmptyIsSeq
    <3> QED BY <1>2, <1>3, <3>2 DEF PageInv
  <2> QED BY <1>2, <1>3, <2>1, <2>2
<1>4. ASSUME NEW q \in Request, RequestNext(q)
      PROVE  UNCHANGED <<facts, page, anchor, rebuilt>>
  BY <1>4, RequestFrame DEF buildVars, pageVars
<1>5. CASE UNCHANGED vars
  BY <1>1, <1>5 DEF vars, buildVars, pageVars
<1> QED BY <1>1, <1>3, <1>4, <1>5, PageSteps DEF Next

\* The inductive invariant holds in every reachable state.
THEOREM Invariance == Spec => []IInv
<1>1. ASSUME IInv, [Next]_vars
      PROVE  IInv'
  BY <1>1, StepType, StepLock, StepRecord, StepAsked, StepStaged, StepFacts DEF IInv
<1>. QED
  BY <1>1, InitInv, PTL DEF Spec

\* A refresh recorded as completed shows every adjustment event that was in the
\* stream when it was asked for, whatever builds came after.
THEOREM CompletedReflectsEdits == Spec => []CompletedRefreshReflectsEdits
<1>1. ASSUME IInv
      PROVE  CompletedRefreshReflectsEdits
  <2>1. ASSUME NEW b \in Build, status[b] = "completed"
        PROVE  Len(facts) = Months /\ \A d \in Date : asked[b] <= factsFrom[d]
    BY <1>1, <2>1 DEF IInv, FactsInv, Shown
  <2>2. \A b \in Build : \A d \in Date : Len(facts) = Months
          => asked[b] \in Nat /\ factsFrom[d] \in Nat
    BY <1>1, MonthsAssumption DEF IInv, ProofType, Date
  <2>. QED
    BY <2>1, <2>2 DEF CompletedRefreshReflectsEdits
<1>. QED
  BY <1>1, Invariance, PTL

\* A completed record of product_category_pnl never stands without its manifest.
THEOREM CompletedHolds == Spec => []CompletedHasManifest
<1>1. IInv => CompletedHasManifest
  BY DEF IInv, RecordInv, CompletedHasManifest
<1>. QED
  BY <1>1, Invariance, PTL

\* The requests and the stream keep their types and their order.
THEOREM RequestInvariance == Spec => [](RequestType /\ InTurn)
<1>1. ASSUME RequestType, InTurn, [Next]_vars
      PROVE  RequestType' /\ InTurn'
  BY <1>1, OthersFrame, OthersKeep, RequestsType, RequestInTurn
<1> QED BY <1>1, InitInTurn, PTL DEF Spec

\* The current record of an adjustment whose requests did not overlap is the last
\* one appended, with the fields of the last create or edit, for any requests and
\* any clock that goes forward, however coarse.
THEOREM CurrentIsLastUnlessRacedHolds == Spec => []CurrentIsLastUnlessRaced
<1> QED BY RequestInvariance, InTurnIsLast, PTL

\* What the facts hold of each date was loaded from a prefix of the stream.
THEOREM LoadedInvariance == Spec => [](RequestType /\ ProofType /\ FactsLoaded /\ DatesInv)
<1>1. ASSUME Init PROVE FactsLoaded /\ DatesInv
  BY <1>1, EmptyIsSeq, MonthsAssumption DEF Init, FactsLoaded, LoadedOf, DatesInv
<1>2. ASSUME IInv, RequestType, FactsLoaded, DatesInv, [Next]_vars
      PROVE  FactsLoaded' /\ DatesInv'
  BY <1>2, StepLoaded, StepDates DEF IInv
<1>3. IInv => ProofType
  BY DEF IInv
<1> QED BY <1>1, <1>2, <1>3, Invariance, RequestInvariance, PTL DEF Spec

\* The formal facts hold of each adjustment what the list of the stream they were
\* loaded from shows for the date, if no edit moved it, for any dates, builds and
\* adjustments: reducing the events of a date and picking the date of the reduced
\* events come to the same.
THEOREM FormalIsListedUnlessMovedHolds == Spec => []FormalIsListedUnlessMoved
<1>1. ASSUME RequestType, ProofType, FactsLoaded, DatesInv
      PROVE  FormalIsListedUnlessMoved
  <2>1. ASSUME NEW d \in 1 .. Len(facts), NEW a \in Adjustment
        PROVE  LET log == SubSeq(events, 1, factsFrom[d]) IN
               ~Moved(log, a) =>
                 facts[d][a] = IF Positions(log, a) # {} /\ Current(log, a).date = d
                               THEN Contribution(Current(log, a)) ELSE 0
    <3> DEFINE log == SubSeq(events, 1, factsFrom[d])
    <3>1. log \in Seq(Event)
      BY <1>1, PrefixHolds DEF FactsLoaded, LoadedOf, RequestType
    <3>2. d \in Date
      BY <1>1, MonthsAssumption DEF DatesInv, Date
    <3>3. facts[d] = Loaded(log, d)
      BY <1>1 DEF FactsLoaded, LoadedOf
    <3> HIDE DEF log
    <3>4. ~Moved(log, a) => Loaded(log, d)[a] =
            IF Positions(log, a) # {} /\ Current(log, a).date = d
            THEN Contribution(Current(log, a)) ELSE 0
      BY <3>1, <3>2, LoadedIsListed
    <3> QED BY <3>3, <3>4 DEF log
  <2> QED BY <2>1 DEF FormalIsListedUnlessMoved
<1> QED BY <1>1, LoadedInvariance, PTL

\* Every variable keeps its type: what facts and rebuilt pages hold of an
\* adjustment is an amount, and no page reads a date the facts do not hold.
THEOREM TypeCorrect == Spec => []TypeOK
<1>1. ASSUME Init PROVE EffectInv /\ PageInv
  BY <1>1, MonthsAssumption DEF Init, EffectInv, PageInv, PagePlace, Date
<1>2. ASSUME RequestType, ProofType, DatesInv, EffectInv, PageInv, [Next]_vars
      PROVE  EffectInv' /\ PageInv'
  BY <1>2, StepEffects, StepPages
<1>3. ASSUME RequestType, ProofType, EffectInv, PageInv
      PROVE  TypeOK
  BY <1>3 DEF RequestType, ProofType, EffectInv, PageInv, TypeOK
<1> QED BY <1>1, <1>2, <1>3, LoadedInvariance, PTL DEF Spec
=============================================================================
