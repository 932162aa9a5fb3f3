------------------------- MODULE PnlByBusinessProofs -------------------------
(***************************************************************************)
(* Proofs about PnlByBusiness for any users, requests, runs and readers:   *)
(* who made an adjustment and which event is its current one, then what    *)
(* the runs hold under the writer lock, then what the pages and the caches *)
(* have read.  Inv joins the parts the later theorems rest on.             *)
(***************************************************************************)
EXTENDS PnlByBusiness, FiniteSetTheorems, SequenceTheorems, WellFoundedInduction, TLAPS

-----------------------------------------------------------------------------
(***************************************************************************)
(* The current event                                                       *)
(***************************************************************************)
LEMMA LeastNatural ==
  ASSUME NEW T \in SUBSET Nat, T # {}
  PROVE  \E n \in T : \A m \in T : n <= m
<1> DEFINE Lt == OpToRel(<, Nat)
<1>1. IsWellFoundedOn(Lt, Nat)
  BY NatLessThanWellFounded
<1>2. \E n \in T : \A m \in T : <<m, n>> \notin Lt
  <2> HIDE DEF Lt
  <2> QED BY <1>1, WFMin
<1>3. \A n, m \in Nat : <<m, n>> \notin Lt => n <= m
  BY DEF OpToRel
<1> QED BY <1>2, <1>3

LEMMA LastNatural ==
  ASSUME NEW k \in Nat, NEW T \in SUBSET (0 .. k), T # {}
  PROVE  \E n \in T : \A m \in T : m <= n
<1> DEFINE U == {n \in 0 .. k : k - n \in T}
<1>1. U \in SUBSET Nat /\ U # {}
  <2>1. PICK m \in T : TRUE
    OBVIOUS
  <2>2. m \in 0 .. k /\ k - m \in 0 .. k /\ k - (k - m) = m
    OBVIOUS
  <2>3. k - m \in U
    BY <2>1, <2>2
  <2> QED BY <2>3
<1>2. PICK u \in U : \A v \in U : u <= v
  <2> HIDE DEF U
  <2> QED BY <1>1, LeastNatural
<1>3. ASSUME NEW m \in T PROVE m <= k - u
  <2>1. m \in 0 .. k /\ k - m \in 0 .. k /\ k - (k - m) = m
    OBVIOUS
  <2>2. k - m \in U
    BY <2>1
  <2>3. u <= k - m
    BY <1>2, <2>2
  <2> QED BY <2>1, <2>3, <1>2
<1> QED BY <1>2, <1>3

\* What the requests keep of their variables.
RequestType ==
  /\ events \in Seq(Event)
  /\ clock \in 0 .. MaxClock
  /\ raced \subseteq Adjustment
  /\ place \in [Request -> RequestPlace]
  /\ composed \in [Request -> Seq(Event)]
  /\ \A q \in Request : (Len(composed[q]) = 1) = (place[q] \in {"composed", "stamped"})

\* The latest event of a known adjustment exists and is one of its events.
LEMMA CurrentIsKnown ==
  ASSUME RequestType, NEW a \in Adjustment, Known(a)
  PROVE  /\ \E i \in 1 .. Len(events) : Current(a) = events[i]
         /\ Current(a) \in Event
         /\ Current(a).id = a
<1> USE DEF RequestType
<1> DEFINE P == Positions(a)
           Least(i) == \A j \in P :
             events[j].at < events[i].at \/ (events[j].at = events[i].at /\ j <= i)
           Ats == {events[i].at : i \in P}
<1>1. P \subseteq 1 .. Len(events) /\ P # {} /\ Len(events) \in Nat
  BY DEF Positions, Known
<1>2. \A i \in P : events[i] \in Event /\ events[i].id = a /\ events[i].at \in 0 .. MaxClock
  <2>1. ASSUME NEW i \in P PROVE events[i] \in Event /\ events[i].id = a
    BY <2>1, <1>1 DEF Positions
  <2> HIDE DEF P
  <2> QED BY <2>1 DEF Event
<1>3. PICK t \in Ats : \A u \in Ats : u <= t
  <2>1. Ats \subseteq 0 .. MaxClock /\ Ats # {}
    BY <1>1, <1>2
  <2> HIDE DEF Ats, P
  <2> QED BY <2>1, LastNatural, ClockAssumption
<1> DEFINE Q == {i \in P : events[i].at = t}
<1>4. PICK i \in Q : \A j \in Q : j <= i
  <2>1. Q \subseteq 0 .. Len(events) /\ Q # {}
    BY <1>1, <1>3
  <2> HIDE DEF Q, P
  <2> QED BY <2>1, <1>1, LastNatural
<1>5. i \in P /\ Least(i)
  <2>1. ASSUME NEW j \in P
        PROVE events[j].at < events[i].at \/ (events[j].at = events[i].at /\ j <= i)
    <3>1. events[j].at \in Nat /\ t \in Nat /\ events[j].at <= t /\ events[i].at = t
      BY <1>2, <1>3, <1>4, ClockAssumption
    <3>2. CASE events[j].at = t
      BY <3>1, <3>2, <1>4
    <3>3. CASE events[j].at # t
      BY <3>1, <3>3
    <3> QED BY <3>2, <3>3
  <2> QED BY <2>1, <1>4
<1> DEFINE c == CHOOSE k \in P : Least(k)
<1>6. c \in P
  BY <1>5
<1>7. Current(a) = events[c]
  BY DEF Current
<1> QED BY <1>1, <1>2, <1>6, <1>7

-----------------------------------------------------------------------------
(***************************************************************************)
(* Makers and checkers                                                     *)
(***************************************************************************)
Pending(q) == place[q] \in {"composed", "stamped"}
SameMaker(e, f) == e.id = f.id => e.created_by = f.created_by
Checked(e) == e.status = "approved" => e.approved_by \in User \ {e.created_by}

\* Events of an adjustment have one maker, also those that are yet to be
\* appended, and none was approved by him.
OneMaker ==
  /\ \A i, j \in 1 .. Len(events) : SameMaker(events[i], events[j])
  /\ \A i \in 1 .. Len(events) : Checked(events[i])
  /\ \A q \in Request : Pending(q) =>
       /\ Checked(composed[q][1])
       /\ \A i \in 1 .. Len(events) : SameMaker(events[i], composed[q][1])
       /\ \A p \in Request : Pending(p) => SameMaker(composed[p][1], composed[q][1])

LEMMA PendingHolds ==
  ASSUME RequestType, NEW q \in Request
  PROVE  /\ Pending(q) => composed[q][1] \in Event /\ Len(composed[q]) = 1
         /\ composed[q] = <<>> => ~Pending(q)
<1>1. composed[q] \in Seq(Event)
  BY DEF RequestType
<1>2. Pending(q) <=> Len(composed[q]) = 1
  BY DEF RequestType, Pending
<1>3. Len(composed[q]) = 1 => composed[q][1] \in Event
  BY <1>1, ElementOfSeq
<1>4. composed[q] = <<>> => Len(composed[q]) = 0
  OBVIOUS
<1> QED BY <1>2, <1>3, <1>4

LEMMA ComposesType ==
  ASSUME RequestType, NEW q \in Request, NEW e \in Event, Compose(q, e)
  PROVE  RequestType' /\ [e EXCEPT !.at = 0] \in Event
<1> DEFINE f == [e EXCEPT !.at = 0]
<1>1. f \in Event
  BY ClockAssumption DEF Event
<1> HIDE DEF f
<1>2. <<f>> \in Seq(Event) /\ Len(<<f>>) = 1
  BY <1>1
<1>3. composed' = [composed EXCEPT ![q] = <<f>>] /\ place' = [place EXCEPT ![q] = "composed"]
  BY DEF Compose, f
<1>4. composed' \in [Request -> Seq(Event)] /\ place' \in [Request -> RequestPlace]
  BY <1>2, <1>3 DEF RequestType, RequestPlace
<1>5. \A p \in Request : (Len(composed'[p]) = 1) = (place'[p] \in {"composed", "stamped"})
  BY <1>2, <1>3 DEF RequestType
<1>6. UNCHANGED <<events, clock, raced>>
  BY DEF Compose
<1> QED BY <1>1, <1>4, <1>5, <1>6 DEF RequestType, f

LEMMA ComposesMaker ==
  ASSUME RequestType, OneMaker, NEW q \in Request, NEW e \in Event, Compose(q, e), Checked(e),
         \A i \in 1 .. Len(events) : SameMaker(events[i], e),
         \A p \in Request : Pending(p) => SameMaker(composed[p][1], e)
  PROVE  OneMaker'
<1> DEFINE f == [e EXCEPT !.at = 0]
<1>1. f.id = e.id /\ f.created_by = e.created_by /\ f.status = e.status
        /\ f.approved_by = e.approved_by
  BY DEF Event
<1>2. /\ composed' = [composed EXCEPT ![q] = <<f>>]
      /\ place[q] = "idle" /\ place' = [place EXCEPT ![q] = "composed"] /\ events' = events
  BY DEF Compose
<1> HIDE DEF f
<1>3. composed'[q][1] = f /\ \A p \in Request \ {q} :
        composed'[p] = composed[p] /\ (Pending(p)' <=> Pending(p))
  BY <1>2 DEF RequestType, Pending
<1>4. Checked(f) /\ SameMaker(f, f) /\ \A i \in 1 .. Len(events) : SameMaker(events[i], f)
  BY <1>1 DEF Checked, SameMaker
<1>5. \A p \in Request \ {q} : Pending(p) =>
        SameMaker(composed[p][1], f) /\ SameMaker(f, composed[p][1])
  BY <1>1 DEF SameMaker
<1>6. ASSUME NEW p \in Request, Pending(p)'
      PROVE  /\ Checked(composed'[p][1])
             /\ \A i \in 1 .. Len(events) : SameMaker(events[i], composed'[p][1])
             /\ \A r \in Request : Pending(r)' => SameMaker(composed'[r][1], composed'[p][1])
  <2>1. CASE p = q
    BY <2>1, <1>3, <1>4, <1>5
  <2>2. CASE p # q
    <3>1. Pending(p) /\ composed'[p] = composed[p]
      BY <2>2, <1>6, <1>3
    <3> QED BY <3>1, <1>3, <1>5 DEF OneMaker
  <2> QED BY <2>1, <2>2
<1>7. \A p \in Request : Pending(p)' =>
        /\ Checked(composed'[p][1])
        /\ \A i \in 1 .. Len(events) : SameMaker(events[i], composed'[p][1])
        /\ \A r \in Request : Pending(r)' => SameMaker(composed'[r][1], composed'[p][1])
  BY <1>6
<1> QED BY <1>2, <1>7 DEF OneMaker, Checked, SameMaker

\* An event composed from the current one keeps its adjustment and its maker.
LEMMA DerivesMaker ==
  ASSUME RequestType, OneMaker, NEW q \in Request, NEW a \in Adjustment, Known(a),
         NEW e \in Event, Compose(q, e), Checked(e),
         e.id = Current(a).id, e.created_by = Current(a).created_by
  PROVE  OneMaker'
<1>1. PICK k \in 1 .. Len(events) : Current(a) = events[k]
  BY CurrentIsKnown
<1>2. \A i \in 1 .. Len(events) : SameMaker(events[i], e)
  BY <1>1 DEF OneMaker, SameMaker
<1>3. ASSUME NEW p \in Request, Pending(p) PROVE SameMaker(composed[p][1], e)
  <2>1. SameMaker(events[k], composed[p][1])
    BY <1>3 DEF OneMaker
  <2> QED BY <2>1, <1>1 DEF SameMaker
<1> QED BY <1>2, <1>3, ComposesMaker

LEMMA ReturnKeeps ==
  ASSUME RequestType, OneMaker, NEW q \in Request, Return(q)
  PROVE  RequestType' /\ OneMaker'
<1>1. /\ UNCHANGED <<events, clock, raced, composed>>
      /\ place[q] = "idle" /\ place' = [place EXCEPT ![q] = "answered"]
  BY DEF Return
<1>2. \A p \in Request : (Pending(p)' <=> Pending(p))
  BY <1>1 DEF RequestType, Pending
<1>3. RequestType'
  BY <1>1 DEF RequestType, RequestPlace
<1>4. OneMaker'
  BY <1>1, <1>2 DEF OneMaker, Checked, SameMaker
<1> QED BY <1>3, <1>4

LEMMA CreateKeeps ==
  ASSUME RequestType, OneMaker, NEW q \in Request, NEW u \in User, NEW a \in Adjustment,
         NEW f \in Draft, Create(q, u, a, f)
  PROVE  RequestType' /\ OneMaker'
<1> DEFINE e == [id |-> a, kind |-> "created", date |-> f.date, amount |-> f.amount,
                 status |-> "pending", created_by |-> u, approved_by |-> Nobody, at |-> 0]
<1>1. e \in Event /\ Checked(e) /\ e.id = a
  BY DraftAssumption, ClockAssumption DEF Event, Kind, Approval, Checked
<1>2. Compose(q, e) /\ ~Known(a) /\ \A p \in Request : composed[p] # <<>> => composed[p][1].id # a
  BY DEF Create
<1> HIDE DEF e
<1>3. \A i \in 1 .. Len(events) : SameMaker(events[i], e)
  BY <1>1, <1>2 DEF Known, Positions, SameMaker
<1>4. \A p \in Request : Pending(p) => SameMaker(composed[p][1], e)
  BY <1>1, <1>2, PendingHolds DEF SameMaker
<1> QED BY <1>1, <1>2, <1>3, <1>4, ComposesType, ComposesMaker

LEMMA EditKeeps ==
  ASSUME RequestType, OneMaker, NEW q \in Request, NEW u \in User, NEW a \in Adjustment,
         NEW f \in Draft, Edit(q, u, a, f)
  PROVE  RequestType' /\ OneMaker'
<1> DEFINE e == [Current(a) EXCEPT !.kind = "edited", !.date = f.date, !.amount = f.amount,
                 !.status = "pending", !.approved_by = Nobody]
<1>1. Known(a) /\ Compose(q, e)
  BY DEF Edit
<1>2. Current(a) \in Event
  BY <1>1, CurrentIsKnown
<1>3. /\ e \in Event /\ Checked(e)
      /\ e.id = Current(a).id /\ e.created_by = Current(a).created_by
  BY <1>2, DraftAssumption DEF Event, Kind, Approval, Checked
<1> HIDE DEF e
<1> QED BY <1>1, <1>3, ComposesType, DerivesMaker

LEMMA ApproveKeeps ==
  ASSUME RequestType, OneMaker, NEW q \in Request, NEW u \in User, NEW a \in Adjustment,
         Approve(q, u, a)
  PROVE  RequestType' /\ OneMaker'
<1> DEFINE e == [Current(a) EXCEPT !.kind = "approved", !.status = "approved",
                 !.approved_by = u]
<1>1. Known(a)
  BY DEF Approve
<1>2. CASE Return(q)
  BY <1>2, ReturnKeeps
<1>3. CASE Current(a).created_by # u /\ Compose(q, e)
  <2>1. Current(a) \in Event
    BY <1>1, CurrentIsKnown
  <2>2. /\ e \in Event /\ Checked(e)
        /\ e.id = Current(a).id /\ e.created_by = Current(a).created_by
    BY <2>1, <1>3 DEF Event, Kind, Approval, Checked
  <2> HIDE DEF e
  <2> QED BY <1>1, <1>3, <2>2, ComposesType, DerivesMaker
<1> QED BY <1>2, <1>3 DEF Approve

LEMMA RevokeKeeps ==
  ASSUME RequestType, OneMaker, NEW q \in Request, NEW a \in Adjustment, Revoke(q, a)
  PROVE  RequestType' /\ OneMaker'
<1> DEFINE e == [Current(a) EXCEPT !.kind = "revoked", !.status = "rejected",
                 !.approved_by = Nobody]
<1>1. Known(a)
  BY DEF Revoke
<1>2. CASE Return(q)
  BY <1>2, ReturnKeeps
<1>3. CASE Compose(q, e)
  <2>1. Current(a) \in Event
    BY <1>1, CurrentIsKnown
  <2>2. /\ e \in Event /\ Checked(e)
        /\ e.id = Current(a).id /\ e.created_by = Current(a).created_by
    BY <2>1 DEF Event, Kind, Approval, Checked
  <2> HIDE DEF e
  <2> QED BY <1>1, <1>3, <2>2, ComposesType, DerivesMaker
<1> QED BY <1>2, <1>3 DEF Revoke

LEMMA RestoreKeeps ==
  ASSUME RequestType, OneMaker, NEW q \in Request, NEW a \in Adjustment, Restore(q, a)
  PROVE  RequestType' /\ OneMaker'
<1> DEFINE e == [Current(a) EXCEPT !.kind = "restored", !.status = "pending",
                 !.approved_by = Nobody]
<1>1. Known(a)
  BY DEF Restore
<1>2. CASE Return(q)
  BY <1>2, ReturnKeeps
<1>3. CASE Compose(q, e)
  <2>1. Current(a) \in Event
    BY <1>1, CurrentIsKnown
  <2>2. /\ e \in Event /\ Checked(e)
        /\ e.id = Current(a).id /\ e.created_by = Current(a).created_by
    BY <2>1 DEF Event, Kind, Approval, Checked
  <2> HIDE DEF e
  <2> QED BY <1>1, <1>3, <2>2, ComposesType, DerivesMaker
<1> QED BY <1>2, <1>3 DEF Restore

LEMMA StampKeeps ==
  ASSUME RequestType, OneMaker, NEW q \in Request, Stamp(q)
  PROVE  RequestType' /\ OneMaker'
<1>1. PICK t \in {clock, clock + 1} \cap (0 .. MaxClock) :
        clock' = t /\ composed' = [composed EXCEPT ![q] = <<[@[1] EXCEPT !.at = t]>>]
  BY DEF Stamp
<1>2. /\ place[q] = "composed" /\ place' = [place EXCEPT ![q] = "stamped"]
      /\ UNCHANGED <<events, raced>>
  BY DEF Stamp
<1>3. Pending(q) /\ composed[q][1] \in Event
  BY <1>2, PendingHolds DEF Pending
<1> DEFINE e == composed[q][1]
           f == [e EXCEPT !.at = t]
<1>4. /\ f \in Event /\ f.id = e.id /\ f.created_by = e.created_by /\ f.status = e.status
      /\ f.approved_by = e.approved_by
  BY <1>1, <1>3, ClockAssumption DEF Event
<1>5. composed' = [composed EXCEPT ![q] = <<f>>]
  BY <1>1
<1> HIDE DEF e, f
<1>6. <<f>> \in Seq(Event) /\ Len(<<f>>) = 1
  BY <1>4
<1>7. RequestType'
  <2>1. composed' \in [Request -> Seq(Event)] /\ place' \in [Request -> RequestPlace]
    BY <1>2, <1>5, <1>6 DEF RequestType, RequestPlace
  <2>2. \A p \in Request : (Len(composed'[p]) = 1) = (place'[p] \in {"composed", "stamped"})
    BY <1>2, <1>5, <1>6 DEF RequestType
  <2> QED BY <2>1, <2>2, <1>1, <1>2 DEF RequestType
<1>8. \A p \in Request : Pending(p)' => Pending(p) /\ SameMaker(composed[p][1], e) /\
        composed'[p][1].id = composed[p][1].id /\
        composed'[p][1].created_by = composed[p][1].created_by /\
        composed'[p][1].status = composed[p][1].status /\
        composed'[p][1].approved_by = composed[p][1].approved_by
  <2>1. ASSUME NEW p \in Request \ {q}, Pending(p)'
        PROVE composed'[p] = composed[p] /\ Pending(p)
    BY <2>1, <1>2, <1>5 DEF RequestType, Pending
  <2>2. composed'[q][1] = f
    BY <1>5 DEF RequestType
  <2>3. \A p \in Request : Pending(p) => SameMaker(composed[p][1], e)
    BY <1>3 DEF OneMaker, e
  <2> QED BY <2>1, <2>2, <2>3, <1>3, <1>4 DEF e
<1> QED BY <1>2, <1>7, <1>8 DEF OneMaker, Checked, SameMaker

LEMMA AppendEventKeeps ==
  ASSUME RequestType, OneMaker, NEW q \in Request, AppendEvent(q)
  PROVE  RequestType' /\ OneMaker'
<1> DEFINE e == composed[q][1]
<1>1. /\ place[q] = "stamped" /\ place' = [place EXCEPT ![q] = "appended"]
      /\ events' = Append(events, e) /\ composed' = [composed EXCEPT ![q] = <<>>]
      /\ raced' \in {raced, raced \cup {e.id}} /\ clock' = clock
  BY DEF AppendEvent
<1>2. Pending(q) /\ e \in Event /\ e.id \in Adjustment
  BY <1>1, PendingHolds DEF Pending, Event
<1> HIDE DEF e
<1>3. /\ events' \in Seq(Event) /\ Len(events') = Len(events) + 1 /\ Len(events) \in Nat
      /\ \A i \in 1 .. Len(events) : events'[i] = events[i]
      /\ events'[Len(events) + 1] = e
  BY <1>1, <1>2 DEF RequestType
<1>4. RequestType'
  <2>1. composed' \in [Request -> Seq(Event)] /\ place' \in [Request -> RequestPlace]
    BY <1>1 DEF RequestType, RequestPlace
  <2>2. \A p \in Request : (Len(composed'[p]) = 1) = (place'[p] \in {"composed", "stamped"})
    BY <1>1 DEF RequestType
  <2> QED BY <2>1, <2>2, <1>1, <1>2, <1>3 DEF RequestType
<1>5. \A p \in Request : Pending(p)' => Pending(p) /\ composed'[p] = composed[p]
  BY <1>1 DEF RequestType, Pending
<1>6. Checked(e) /\ SameMaker(e, e) /\ \A i \in 1 .. Len(events) :
        SameMaker(events[i], e) /\ SameMaker(e, events[i])
  BY <1>2 DEF OneMaker, SameMaker, e
<1>7. \A p \in Request : Pending(p) => SameMaker(e, composed[p][1])
  BY <1>2 DEF OneMaker, e
<1>8. \A i \in 1 .. Len(events') : i \in 1 .. Len(events) \/ i = Len(events) + 1
  BY <1>3
<1>9. OneMaker'
  <2>1. \A i, j \in 1 .. Len(events') : SameMaker(events'[i], events'[j])
    BY <1>3, <1>6, <1>8 DEF OneMaker, SameMaker
  <2>2. \A i \in 1 .. Len(events') : Checked(events'[i])
    BY <1>3, <1>6, <1>8 DEF OneMaker
  <2>3. ASSUME NEW p \in Request, Pending(p)'
        PROVE /\ Checked(composed'[p][1])
              /\ \A i \in 1 .. Len(events') : SameMaker(events'[i], composed'[p][1])
              /\ \A r \in Request : Pending(r)' => SameMaker(composed'[r][1], composed'[p][1])
    <3>1. Pending(p) /\ composed'[p] = composed[p]
      BY <1>5, <2>3
    <3>2. \A i \in 1 .. Len(events') : SameMaker(events'[i], composed[p][1])
      BY <3>1, <1>3, <1>7, <1>8 DEF OneMaker
    <3> QED BY <3>1, <3>2, <1>5 DEF OneMaker
  <2> QED BY <2>1, <2>2, <2>3 DEF OneMaker, Checked, SameMaker
<1> QED BY <1>4, <1>9

LEMMA OthersKeep ==
  ASSUME RequestType, OneMaker, UNCHANGED <<events, clock, raced, place, composed>>
  PROVE  RequestType' /\ OneMaker'
BY DEF RequestType, OneMaker, Pending, Checked, SameMaker

LEMMA ClearCachesKeeps ==
  ASSUME RequestType, OneMaker, NEW q \in Request, ClearCaches(q)
  PROVE  RequestType' /\ OneMaker'
<1>1. /\ UNCHANGED <<events, clock, raced, composed>>
      /\ place[q] = "appended" /\ place' = [place EXCEPT ![q] = "answered"]
  BY DEF ClearCaches
<1>2. \A p \in Request : (Pending(p)' <=> Pending(p))
  BY <1>1 DEF RequestType, Pending
<1>3. RequestType'
  BY <1>1 DEF RequestType, RequestPlace
<1> QED BY <1>1, <1>2, <1>3 DEF OneMaker, Checked, SameMaker

LEMMA RequestSteps ==
  ASSUME RequestType, OneMaker, NEW q \in Request, RequestNext(q)
  PROVE  RequestType' /\ OneMaker'
BY CreateKeeps, EditKeeps, ApproveKeeps, RevokeKeeps, RestoreKeeps, ReturnKeeps, StampKeeps,
   AppendEventKeeps, ClearCachesKeeps DEF RequestNext, Unknown

-----------------------------------------------------------------------------
(***************************************************************************)
(* The current event is the last one                                       *)
(***************************************************************************)
Submits(e) == e.kind \in {"created", "edited"}
Greatest(a, i) == i \in Positions(a) /\ \A j \in Positions(a) : j <= i

\* The fields of an event are those of the create or the edit before it.
Submitted(a, i) ==
  \E j \in Positions(a) :
    /\ j <= i /\ Submits(events[j]) /\ Fields(events[j]) = Fields(events[i])
    /\ \A k \in Positions(a) : (j < k /\ k <= i) => ~Submits(events[k])

Ordered(a) ==
  /\ \A i, j \in Positions(a) : i < j => events[i].at <= events[j].at
  /\ \A i \in Positions(a) : Submitted(a, i)

\* An event that waits to be appended was composed from the last one.
EventFollows(e, stamped) ==
  /\ stamped => \A i \in Positions(e.id) : events[i].at <= e.at
  /\ Submits(e) \/ \E i \in Positions(e.id) :
                     Greatest(e.id, i) /\ Fields(e) = Fields(events[i])
Follows(q) == EventFollows(composed[q][1], place[q] = "stamped")

\* As long as the requests about an adjustment did not overlap.
InTurn ==
  /\ \A i \in 1 .. Len(events) : events[i].at <= clock
  /\ \A a \in Adjustment \ raced : Ordered(a)
  /\ \A q \in Request : Pending(q) =>
       composed[q][1].at <= clock /\ (composed[q][1].id \notin raced => Follows(q))

LEMMA PositionsHold ==
  ASSUME RequestType, NEW a
  PROVE  /\ Len(events) \in Nat /\ Positions(a) \subseteq 1 .. Len(events)
         /\ \A i \in 1 .. Len(events) : events[i] \in Event /\ events[i].at \in Nat
         /\ clock \in Nat
<1>1. Len(events) \in Nat /\ \A i \in 1 .. Len(events) : events[i] \in Event
  BY LenProperties, ElementOfSeq DEF RequestType
<1> QED BY <1>1, ClockAssumption DEF Positions, Event, RequestType

LEMMA GreatestIsThere ==
  ASSUME RequestType, NEW a \in Adjustment, Known(a)
  PROVE  \E i \in Positions(a) : Greatest(a, i)
<1>1. Positions(a) \subseteq 0 .. Len(events) /\ Len(events) \in Nat /\ Positions(a) # {}
  BY PositionsHold DEF Known
<1> QED BY <1>1, LastNatural DEF Greatest

LEMMA CurrentIsGreatest ==
  ASSUME RequestType, NEW a \in Adjustment, Known(a), Ordered(a), NEW i, Greatest(a, i)
  PROVE  Current(a) = events[i]
<1> DEFINE P == Positions(a)
           Least(k) == \A j \in P :
             events[j].at < events[k].at \/ (events[j].at = events[k].at /\ j <= k)
<1>1. i \in P /\ \A j \in P : j \in Nat /\ events[j].at \in Nat
  BY PositionsHold DEF Greatest
<1>2. Least(i)
  <2>1. ASSUME NEW j \in P
        PROVE events[j].at < events[i].at \/ (events[j].at = events[i].at /\ j <= i)
    <3>1. j <= i /\ (j = i \/ events[j].at <= events[i].at)
      BY <1>1 DEF Greatest, Ordered
    <3> QED BY <1>1, <3>1
  <2> QED BY <2>1
<1>3. ASSUME NEW k \in P, Least(k) PROVE k = i
  <2>1. events[i].at < events[k].at \/ i <= k
    BY <1>1, <1>3
  <2>2. events[k].at < events[i].at \/ (events[k].at = events[i].at /\ k <= i)
    BY <1>2, <1>3
  <2> QED BY <1>1, <1>3, <2>1, <2>2
<1> HIDE DEF Least
<1>4. (CHOOSE k \in P : Least(k)) = i
  BY <1>1, <1>2, <1>3
<1> QED BY <1>4 DEF Current, Least

\* What a request may do to the stream and to what waits to be appended.
LEMMA RequestForms ==
  ASSUME RequestType, NEW q \in Request, RequestNext(q)
  PROVE  \/ /\ UNCHANGED <<events, clock, raced, composed>>
            /\ ~Pending(q) /\ place' = [place EXCEPT ![q] = "answered"]
         \/ \E e \in Event : /\ Compose(q, e)
                             /\ Submits(e) \/ (Known(e.id) /\ Fields(e) = Fields(Current(e.id)))
         \/ Stamp(q) \/ AppendEvent(q)
<1> DEFINE Composes == \E e \in Event :
      Compose(q, e) /\ (Submits(e) \/ (Known(e.id) /\ Fields(e) = Fields(Current(e.id))))
    Answers == /\ UNCHANGED <<events, clock, raced, composed>>
               /\ ~Pending(q) /\ place' = [place EXCEPT ![q] = "answered"]
<1>1. Return(q) => Answers
  BY DEF Return, Pending
<1>2. ClearCaches(q) => Answers
  BY DEF ClearCaches, Pending
<1>3. ASSUME NEW u \in User, NEW a \in Adjustment, NEW f \in Draft, Create(q, u, a, f)
      PROVE  Composes
  <2> DEFINE e == [id |-> a, kind |-> "created", date |-> f.date, amount |-> f.amount,
                   status |-> "pending", created_by |-> u, approved_by |-> Nobody, at |-> 0]
  <2>1. e \in Event /\ Submits(e)
    BY DraftAssumption, ClockAssumption DEF Event, Kind, Approval, Submits
  <2>2. Compose(q, e)
    BY <1>3 DEF Create
  <2> HIDE DEF e
  <2> QED BY <2>1, <2>2
<1>4. ASSUME NEW u \in User, NEW a \in Adjustment, NEW f \in Draft, Edit(q, u, a, f)
      PROVE  Composes
  <2> DEFINE e == [Current(a) EXCEPT !.kind = "edited", !.date = f.date, !.amount = f.amount,
                   !.status = "pending", !.approved_by = Nobody]
  <2>1. Known(a) /\ Compose(q, e)
    BY <1>4 DEF Edit
  <2>2. Current(a) \in Event
    BY <2>1, CurrentIsKnown
  <2>3. e \in Event /\ Submits(e)
    BY <2>2, DraftAssumption DEF Event, Kind, Approval, Submits
  <2> HIDE DEF e
  <2> QED BY <2>1, <2>3
\* The others leave the fields of the current event.
<1>5. ASSUME NEW a \in Adjustment, Known(a), NEW k \in Kind, NEW s \in Approval,
             NEW u \in User \cup {Nobody},
             Compose(q, [Current(a) EXCEPT !.kind = k, !.status = s, !.approved_by = u])
      PROVE  Composes
  <2> DEFINE e == [Current(a) EXCEPT !.kind = k, !.status = s, !.approved_by = u]
  <2>1. Current(a) \in Event /\ Current(a).id = a
    BY <1>5, CurrentIsKnown
  <2>2. e \in Event /\ e.id = a /\ Fields(e) = Fields(Current(a))
    BY <2>1 DEF Event, Fields
  <2>3. Compose(q, e)
    BY <1>5
  <2> HIDE DEF e
  <2> QED BY <1>5, <2>2, <2>3
<1> HIDE DEF Composes, Answers
<1>6. ASSUME NEW u \in User, NEW a \in Adjustment, Approve(q, u, a)
      PROVE  Composes \/ Answers
  BY <1>1, <1>5, <1>6 DEF Approve, Kind, Approval
<1>7. ASSUME NEW a \in Adjustment, Revoke(q, a) \/ Restore(q, a)
      PROVE  Composes \/ Answers
  BY <1>1, <1>5, <1>7 DEF Revoke, Restore, Kind, Approval
<1>8. Composes \/ Answers \/ Stamp(q) \/ AppendEvent(q)
  BY <1>1, <1>2, <1>3, <1>4, <1>6, <1>7 DEF RequestNext, Unknown
<1> QED BY <1>8 DEF Composes, Answers

LEMMA SameInTurn ==
  ASSUME RequestType, InTurn, UNCHANGED <<events, clock, raced, composed>>,
         \A q \in Request : Pending(q)' => Pending(q) /\ place'[q] = place[q]
  PROVE  InTurn'
<1>1. \A a : Positions(a)' = Positions(a)
  BY DEF Positions
<1> QED BY <1>1 DEF InTurn, Ordered, Submitted, Submits, Follows, EventFollows, Greatest, Fields

LEMMA ComposesInTurn ==
  ASSUME RequestType, InTurn, NEW q \in Request, NEW e \in Event, Compose(q, e),
         Submits(e) \/ (Known(e.id) /\ Fields(e) = Fields(Current(e.id)))
  PROVE  InTurn'
<1> DEFINE f == [e EXCEPT !.at = 0]
<1>1. /\ composed' = [composed EXCEPT ![q] = <<f>>]
      /\ place' = [place EXCEPT ![q] = "composed"] /\ UNCHANGED <<events, clock, raced>>
  BY DEF Compose
<1>2. /\ f.id = e.id /\ Fields(f) = Fields(e) /\ (Submits(f) <=> Submits(e))
      /\ e.id \in Adjustment /\ f.at <= clock
  BY ClockAssumption DEF Event, Fields, Submits, RequestType
<1> HIDE DEF f
<1>3. \A a : Positions(a)' = Positions(a)
  BY <1>1 DEF Positions
<1>4. composed'[q][1] = f /\ place'[q] = "composed"
        /\ \A p \in Request \ {q} : composed'[p] = composed[p] /\ place'[p] = place[p]
  BY <1>1 DEF RequestType
<1>5. ASSUME e.id \notin raced
      PROVE  Submits(f) \/ \E i \in Positions(f.id) :
               Greatest(f.id, i) /\ Fields(f) = Fields(events[i])
  <2>1. CASE Submits(e)
    BY <1>2, <2>1
  <2>2. CASE Known(e.id) /\ Fields(e) = Fields(Current(e.id))
    <3>1. PICK i \in Positions(e.id) : Greatest(e.id, i)
      BY <1>2, <2>2, GreatestIsThere
    <3>2. Current(e.id) = events[i]
      BY <1>2, <1>5, <2>2, <3>1, CurrentIsGreatest DEF InTurn
    <3> QED BY <1>2, <2>2, <3>1, <3>2
  <2> QED BY <2>1, <2>2
<1>6. ASSUME NEW p \in Request, Pending(p)'
      PROVE  /\ composed'[p][1].at <= clock
             /\ composed'[p][1].id \notin raced =>
                  EventFollows(composed'[p][1], place'[p] = "stamped")
  <2>1. CASE p = q
    BY <1>2, <1>4, <1>5, <2>1 DEF EventFollows
  <2>2. CASE p # q
    BY <1>4, <1>6, <2>2 DEF InTurn, Pending, Follows
  <2> QED BY <2>1, <2>2
<1>7. ASSUME NEW p \in Request, Pending(p)'
      PROVE  composed'[p][1].at <= clock' /\ (composed'[p][1].id \notin raced' => Follows(p)')
  BY <1>1, <1>3, <1>6, <1>7 DEF Follows, EventFollows, Greatest, Submits, Fields
<1>8. \A a \in Adjustment \ raced : Ordered(a)'
  BY <1>1, <1>3 DEF InTurn, Ordered, Submitted, Submits, Fields
<1> QED BY <1>1, <1>7, <1>8 DEF InTurn

\* The instant is taken after all that is in the stream.
LEMMA StampInTurn ==
  ASSUME RequestType, InTurn, NEW q \in Request, Stamp(q)
  PROVE  InTurn'
<1>1. PICK t \in {clock, clock + 1} \cap (0 .. MaxClock) :
        clock' = t /\ composed' = [composed EXCEPT ![q] = <<[@[1] EXCEPT !.at = t]>>]
  BY DEF Stamp
<1>2. /\ place[q] = "composed" /\ place' = [place EXCEPT ![q] = "stamped"]
      /\ UNCHANGED <<events, raced>>
  BY DEF Stamp
<1>3. Pending(q) /\ composed[q][1] \in Event
  BY <1>2, PendingHolds DEF Pending
<1> DEFINE e == composed[q][1]
           f == [e EXCEPT !.at = t]
<1>4. f.id = e.id /\ Fields(f) = Fields(e) /\ (Submits(f) <=> Submits(e)) /\ f.at = t
  BY <1>3 DEF Event, Fields, Submits
<1>5. composed' = [composed EXCEPT ![q] = <<f>>]
  BY <1>1
<1> HIDE DEF e, f
<1>6. \A a : Positions(a)' = Positions(a)
  BY <1>2 DEF Positions
<1>7. composed'[q][1] = f /\ place'[q] = "stamped"
        /\ \A p \in Request \ {q} : composed'[p] = composed[p] /\ place'[p] = place[p]
  BY <1>2, <1>5 DEF RequestType
<1>8. clock <= t /\ \A i \in 1 .. Len(events) : events[i].at <= t
  <2>1. clock \in Nat /\ t \in Nat /\ \A i \in 1 .. Len(events) : events[i].at \in Nat
    BY <1>1, PositionsHold
  <2> QED BY <1>1, <2>1 DEF InTurn
<1>9. ASSUME NEW p \in Request, Pending(p)'
      PROVE  /\ composed'[p][1].at <= t
             /\ composed'[p][1].id \notin raced =>
                  EventFollows(composed'[p][1], place'[p] = "stamped")
  <2>1. CASE p = q
    <3>1. e.id \notin raced => EventFollows(e, FALSE)
      BY <1>2, <1>3 DEF InTurn, Follows, EventFollows, e
    <3>2. \A i \in Positions(f.id) : events[i].at <= f.at
      BY <1>4, <1>8, PositionsHold
    <3>3. e.id \notin raced => EventFollows(f, TRUE)
      BY <1>4, <3>1, <3>2 DEF EventFollows
    <3>4. f.at <= t /\ (f.id \notin raced => EventFollows(f, TRUE))
      <4>1. t <= t
        BY <1>1, ClockAssumption
      <4> QED BY <1>4, <3>3, <4>1
    <3>5. composed'[p][1] = f /\ (place'[p] = "stamped") = TRUE
      BY <1>7, <2>1
    <3> QED BY <3>4, <3>5
  <2>2. CASE p # q
    <3>1. Pending(p) /\ composed'[p] = composed[p] /\ place'[p] = place[p]
      BY <1>7, <1>9, <2>2 DEF Pending
    <3>2. composed[p][1].at \in Nat
      BY <3>1, PendingHolds, ClockAssumption DEF Event
    <3> QED BY <1>1, <1>8, <3>1, <3>2, PositionsHold DEF InTurn, Follows
  <2> QED BY <2>1, <2>2
<1>10. ASSUME NEW p \in Request, Pending(p)'
       PROVE  composed'[p][1].at <= clock' /\ (composed'[p][1].id \notin raced' => Follows(p)')
  BY <1>1, <1>2, <1>6, <1>9, <1>10 DEF Follows, EventFollows, Greatest, Submits, Fields
<1>11. \A a \in Adjustment \ raced : Ordered(a)'
  BY <1>2, <1>6 DEF InTurn, Ordered, Submitted, Submits, Fields
<1> QED BY <1>1, <1>2, <1>8, <1>10, <1>11 DEF InTurn

\* An append makes an adjustment raced when another request is at it; otherwise
\* the event follows the last one.
LEMMA AppendInTurn ==
  ASSUME RequestType, InTurn, NEW q \in Request, AppendEvent(q)
  PROVE  InTurn'
<1>0. PICK e, n : e = composed[q][1] /\ n = Len(events) + 1
  OBVIOUS
<1>1. /\ place[q] = "stamped" /\ place' = [place EXCEPT ![q] = "appended"]
      /\ events' = Append(events, e) /\ composed' = [composed EXCEPT ![q] = <<>>]
      /\ raced' = (IF Busy(e.id) = {q} THEN raced ELSE raced \cup {e.id})
      /\ clock' = clock
  BY <1>0 DEF AppendEvent
<1>2. Pending(q) /\ e \in Event /\ e.id \in Adjustment /\ e.at <= clock
  BY <1>0, <1>1, PendingHolds DEF Pending, Event, InTurn
<1>3. /\ Len(events') = n /\ Len(events) \in Nat
      /\ \A i \in 1 .. Len(events) : events'[i] = events[i]
      /\ events'[n] = e
  BY <1>0, <1>1, <1>2 DEF RequestType
<1>5. /\ \A a : Positions(a) \subseteq 1 .. Len(events)
      /\ \A i \in 1 .. Len(events) : i \in Nat /\ i < n
      /\ n \in Nat /\ ~(n < n)
  BY <1>0, <1>3 DEF Positions
<1>4. /\ \A a : a # e.id => Positions(a)' = Positions(a)
      /\ Positions(e.id)' = Positions(e.id) \cup {n}
  <2>1. \A i : i \in 1 .. n <=> i \in 1 .. Len(events) \/ i = n
    BY <1>0, <1>3
  <2>2. ASSUME NEW a
        PROVE  /\ a # e.id => Positions(a)' = Positions(a)
               /\ a = e.id => Positions(a)' = Positions(a) \cup {n}
    <3>1. \A i : i \in Positions(a)' <=> (i \in 1 .. n /\ events'[i].id = a)
      BY <1>3 DEF Positions
    <3>2. \A i : i \in Positions(a) <=> (i \in 1 .. Len(events) /\ events[i].id = a)
      BY DEF Positions
    <3>3. \A i : i \in Positions(a)' <=> (i \in Positions(a) \/ (i = n /\ e.id = a))
      BY <1>3, <2>1, <3>1, <3>2
    <3> QED BY <3>3
  <2> QED BY <2>2
<1>6. \A p \in Request : Pending(p)' =>
        p # q /\ Pending(p) /\ composed'[p] = composed[p] /\ place'[p] = place[p]
  BY <1>1 DEF RequestType, Pending
<1>7. \A i \in 1 .. Len(events') : events'[i].at <= clock'
  BY <1>1, <1>2, <1>3 DEF InTurn
<1>8. ASSUME NEW a \in Adjustment \ raced', a # e.id PROVE Ordered(a)'
  <2>1. Ordered(a) /\ Positions(a)' = Positions(a)
    BY <1>1, <1>4, <1>8 DEF InTurn
  <2>2. \A i \in Positions(a) : events'[i] = events[i]
    BY <1>3, <1>5
  <2>3. \A i \in Positions(a) : Submitted(a, i) => Submitted(a, i)'
    BY <2>1, <2>2 DEF Submitted, Submits, Fields
  <2> QED BY <2>1, <2>2, <2>3 DEF Ordered
<1>9. ASSUME e.id \notin raced' PROVE Ordered(e.id)'
  <2>1. Ordered(e.id) /\ EventFollows(e, TRUE)
    BY <1>0, <1>1, <1>2, <1>9 DEF InTurn, Follows, EventFollows
  <2>2. \A i, j \in Positions(e.id)' : i < j => events'[i].at <= events'[j].at
    <3>1. ASSUME NEW i \in Positions(e.id)', NEW j \in Positions(e.id)', i < j
          PROVE  events'[i].at <= events'[j].at
      <4>1. i \in Positions(e.id)
        BY <1>3, <1>4, <1>5, <3>1
      <4>2. CASE j \in Positions(e.id)
        BY <1>3, <1>5, <2>1, <3>1, <4>1, <4>2 DEF Ordered
      <4>3. CASE j = n
        BY <1>3, <1>5, <2>1, <4>1, <4>3 DEF EventFollows
      <4> QED BY <1>4, <4>2, <4>3
    <3> QED BY <3>1
  <2>3. ASSUME NEW i \in Positions(e.id) PROVE Submitted(e.id, i)'
    <3>1. PICK j \in Positions(e.id) :
            /\ j <= i /\ Submits(events[j]) /\ Fields(events[j]) = Fields(events[i])
            /\ \A k \in Positions(e.id) : (j < k /\ k <= i) => ~Submits(events[k])
      BY <2>1, <2>3 DEF Ordered, Submitted
    <3>2. i \in 1 .. Len(events) /\ j \in 1 .. Len(events) /\ j \in Positions(e.id)'
      BY <1>4, <1>5, <2>3
    <3>3. \A k \in Positions(e.id)' : (j < k /\ k <= i) => ~Submits(events'[k])
      BY <1>3, <1>4, <1>5, <3>1, <3>2
    <3> QED BY <1>3, <3>1, <3>2, <3>3 DEF Submitted, Submits, Fields
  <2>4. Submitted(e.id, n)'
    <3>1. n \in Positions(e.id)' /\ n \in Nat
      BY <1>3, <1>4
    <3>2. CASE Submits(e)
      <4>1. \A k \in Positions(e.id)' : ~(n < k /\ k <= n)
        BY <1>4, <1>5
      <4>2. n <= n
        BY <3>1
      <4> QED BY <1>3, <3>1, <3>2, <4>1, <4>2 DEF Submitted, Submits, Fields
    <3>3. CASE ~Submits(e)
      <4>1. PICK i \in Positions(e.id) : Greatest(e.id, i) /\ Fields(e) = Fields(events[i])
        BY <2>1, <3>3 DEF EventFollows
      <4>2. PICK j \in Positions(e.id) :
              /\ j <= i /\ Submits(events[j]) /\ Fields(events[j]) = Fields(events[i])
              /\ \A k \in Positions(e.id) : (j < k /\ k <= i) => ~Submits(events[k])
        BY <2>1 DEF Ordered, Submitted
      <4>3. \A k \in Positions(e.id)' : (j < k /\ k <= n) => ~Submits(events'[k])
        BY <1>3, <1>4, <1>5, <3>3, <4>1, <4>2 DEF Greatest
      <4>4. j \in Positions(e.id)' /\ j <= n /\ events'[j] = events[j]
        BY <1>3, <1>4, <1>5, <4>2
      <4> QED BY <1>3, <4>1, <4>2, <4>3, <4>4 DEF Submitted, Submits, Fields
    <3> QED BY <3>2, <3>3
  <2> QED BY <1>4, <2>2, <2>3, <2>4 DEF Ordered
<1>10. ASSUME NEW p \in Request, Pending(p)'
       PROVE  composed'[p][1].at <= clock' /\ (composed'[p][1].id \notin raced' => Follows(p)')
  <2>1. p # q /\ Pending(p) /\ composed'[p] = composed[p] /\ place'[p] = place[p]
    BY <1>6, <1>10
  <2>2. composed'[p][1].at <= clock'
    BY <1>1, <2>1 DEF InTurn
  <2>3. ASSUME composed[p][1].id \notin raced' PROVE Follows(p)'
    <3>1. PICK c : c = composed[p][1]
      OBVIOUS
    <3>2. c.id # e.id
      <4>1. ASSUME c.id = e.id PROVE p \in Busy(e.id)
        BY <2>1, <3>1, <4>1 DEF Busy, Pending
      <4> QED BY <1>1, <2>1, <2>3, <3>1, <4>1
    <3>3. EventFollows(c, place[p] = "stamped")
      BY <1>1, <2>1, <2>3, <3>1 DEF InTurn, Follows
    <3>4. Positions(c.id)' = Positions(c.id) /\ \A i \in Positions(c.id) : events'[i] = events[i]
      BY <1>3, <1>4, <1>5, <3>2
    <3> QED BY <2>1, <3>1, <3>3, <3>4 DEF Follows, EventFollows, Greatest, Submits, Fields
  <2> QED BY <2>1, <2>2, <2>3
<1> QED BY <1>1, <1>2, <1>7, <1>8, <1>9, <1>10 DEF InTurn

LEMMA RequestInTurn ==
  ASSUME RequestType, InTurn, NEW q \in Request, RequestNext(q)
  PROVE  InTurn'
<1>1. CASE /\ UNCHANGED <<events, clock, raced, composed>>
           /\ ~Pending(q) /\ place' = [place EXCEPT ![q] = "answered"]
  <2>1. \A p \in Request : Pending(p)' => Pending(p) /\ place'[p] = place[p]
    BY <1>1 DEF RequestType, Pending
  <2> QED BY <1>1, <2>1, SameInTurn
<1>2. ASSUME NEW e \in Event, Compose(q, e),
             Submits(e) \/ (Known(e.id) /\ Fields(e) = Fields(Current(e.id)))
      PROVE  InTurn'
  BY <1>2, ComposesInTurn
<1>3. CASE Stamp(q)
  BY <1>3, StampInTurn
<1>4. CASE AppendEvent(q)
  BY <1>4, AppendInTurn
<1> QED BY <1>1, <1>2, <1>3, <1>4, RequestForms

LEMMA OthersInTurn ==
  ASSUME RequestType, InTurn, UNCHANGED <<events, clock, raced, place, composed>>
  PROVE  InTurn'
<1>1. \A p \in Request : Pending(p)' => Pending(p) /\ place'[p] = place[p]
  BY DEF Pending
<1> QED BY <1>1, SameInTurn

LEMMA InitInTurn ==
  ASSUME Init, RequestType
  PROVE  InTurn
<1>1. events \in Stream /\ clock = 0 /\ \A q \in Request : ~Pending(q)
  BY DEF Init, Pending
<1>2. \A i \in 1 .. Len(events) :
        /\ events[i].at = 0
        /\ \E j \in 1 .. i :
             /\ events[j].id = events[i].id /\ events[j].kind \in {"created", "edited"}
             /\ events[j].date = events[i].date /\ events[j].amount = events[i].amount
             /\ \A k \in j + 1 .. i :
                  events[k].id = events[i].id => events[k].kind \notin {"created", "edited"}
  BY <1>1, SubmittedAssumption
<1>3. Len(events) \in Nat
  BY PositionsHold
<1>4. \A a : \A i : i \in Positions(a) <=> (i \in 1 .. Len(events) /\ events[i].id = a)
  BY DEF Positions
<1>5. ASSUME NEW a, NEW i \in Positions(a) PROVE Submitted(a, i)
  <2>1. i \in 1 .. Len(events) /\ events[i].id = a
    BY <1>4, <1>5
  <2>2. PICK j \in 1 .. i :
          /\ events[j].id = a /\ Submits(events[j])
          /\ events[j].date = events[i].date /\ events[j].amount = events[i].amount
          /\ \A k \in j + 1 .. i : events[k].id = a => ~Submits(events[k])
    BY <1>2, <2>1 DEF Submits
  <2>3. j \in Positions(a) /\ j <= i
    BY <1>3, <1>4, <2>1, <2>2
  <2>4. ASSUME NEW k \in Positions(a), j < k, k <= i PROVE ~Submits(events[k])
    <3>1. events[k].id = a /\ k \in j + 1 .. i
      BY <1>3, <1>4, <2>1, <2>4
    <3> QED BY <2>2, <3>1
  <2> QED BY <2>2, <2>3, <2>4 DEF Submitted, Fields
<1>6. \A a : Ordered(a)
  <2>1. \A a : \A i, j \in Positions(a) : events[i].at <= events[j].at
    BY <1>2, <1>4
  <2> QED BY <1>5, <2>1 DEF Ordered
<1>7. \A i \in 1 .. Len(events) : events[i].at <= clock
  BY <1>1, <1>2
<1> QED BY <1>1, <1>6, <1>7 DEF InTurn

\* Max of the community modules, of positions.
LEMMA MaxIsGreatest ==
  ASSUME NEW S \in SUBSET Nat, NEW i \in S, \A j \in S : j <= i
  PROVE  Max(S) = i
<1>1. \A j \in S : i >= j
  OBVIOUS
<1>2. \A k \in S : (\A j \in S : k >= j) => k = i
  OBVIOUS
<1> QED BY <1>1, <1>2 DEF Max

LEMMA InTurnIsLast ==
  ASSUME RequestType, InTurn, NEW a \in Adjustment, a \notin raced, Known(a)
  PROVE  LET submitted == {i \in Positions(a) : events[i].kind \in {"created", "edited"}} IN
         /\ Current(a) = events[Max(Positions(a))]
         /\ Fields(Current(a)) = Fields(events[Max(submitted)])
<1> DEFINE submitted == {i \in Positions(a) : events[i].kind \in {"created", "edited"}}
<1>1. PICK i \in Positions(a) : Greatest(a, i)
  BY GreatestIsThere
<1>2. Ordered(a)
  BY DEF InTurn
<1>3. Positions(a) \in SUBSET Nat
  BY PositionsHold
<1>4. Current(a) = events[i]
  BY <1>1, <1>2, CurrentIsGreatest
<1>5. Max(Positions(a)) = i
  BY <1>1, <1>3, MaxIsGreatest DEF Greatest
<1>6. PICK j \in Positions(a) :
        /\ j <= i /\ Submits(events[j]) /\ Fields(events[j]) = Fields(events[i])
        /\ \A k \in Positions(a) : (j < k /\ k <= i) => ~Submits(events[k])
  BY <1>1, <1>2 DEF Ordered, Submitted
<1>7. Max(submitted) = j
  <2>1. j \in submitted /\ submitted \in SUBSET Nat
    BY <1>3, <1>6 DEF Submits
  <2>2. ASSUME NEW k \in submitted PROVE k <= j
    <3>1. k \in Positions(a) /\ Submits(events[k]) /\ k <= i
      BY <1>1 DEF Greatest, Submits
    <3> QED BY <1>3, <1>6, <3>1
  <2> HIDE DEF submitted
  <2> QED BY <2>1, <2>2, MaxIsGreatest
<1> QED BY <1>4, <1>5, <1>6, <1>7

-----------------------------------------------------------------------------
(***************************************************************************)
(* Facts and their dates                                                   *)
(***************************************************************************)
LEMMA MaxHolds ==
  ASSUME NEW S \in SUBSET Date, S # {}
  PROVE  Max(S) \in S /\ \A d \in S : d <= Max(S)
<1>1. \E n \in S : \A m \in S : m <= n
  <2>1. S \in SUBSET (0 .. Months) /\ Months \in Nat
    BY MonthsAssumption DEF Date
  <2> QED BY <2>1, LastNatural
<1>2. \E n \in S : \A m \in S : n >= m
  BY <1>1, MonthsAssumption DEF Date
<1>3. Max(S) \in S /\ \A m \in S : Max(S) >= m
  BY <1>2 DEF Max
<1> QED BY <1>3, MonthsAssumption DEF Date

LEMMA MinHolds ==
  ASSUME NEW S \in SUBSET Date, S # {}
  PROVE  Min(S) \in S
<1>1. S \in SUBSET Nat
  BY MonthsAssumption DEF Date
<1>2. \E n \in S : \A m \in S : n <= m
  BY <1>1, LeastNatural
<1> QED BY <1>2 DEF Min

LEMMA UpToHolds ==
  ASSUME NEW f \in Facts, NEW d \in Date
  PROVE  UpTo(f, d) \in Facts /\ DatesOf(UpTo(f, d)) \subseteq Date
BY DEF UpTo, DatesOf, Facts

\* Facts up to a date are those up to the last one of it that has any.
LEMMA UpToLast ==
  ASSUME NEW f \in Facts, NEW d \in Date, DatesOf(UpTo(f, d)) # {}
  PROVE  /\ Max(DatesOf(UpTo(f, d))) \in Date
         /\ UpTo(f, Max(DatesOf(UpTo(f, d)))) = UpTo(f, d)
<1> DEFINE D == DatesOf(UpTo(f, d))
           m == Max(D)
<1>1. D \in SUBSET Date /\ D # {} /\ \A e \in Date : e \in D <=> (e <= d /\ f[e] # NoRows)
  BY DEF DatesOf, UpTo
<1>2. m \in D /\ \A e \in D : e <= m
  <2> HIDE DEF D
  <2> QED BY <1>1, MaxHolds
<1>3. ASSUME NEW e \in Date
      PROVE (IF e <= m THEN f[e] ELSE NoRows) = (IF e <= d THEN f[e] ELSE NoRows)
  <2>1. m \in Date /\ m <= d
    BY <1>1, <1>2
  <2>2. CASE e <= m
    BY <2>1, <2>2, MonthsAssumption DEF Date
  <2>3. CASE ~(e <= m)
    BY <2>1, <2>3, <1>1, <1>2
  <2> QED BY <2>2, <2>3
<1> HIDE DEF m, D
<1> QED BY <1>1, <1>2, <1>3 DEF UpTo, m, D

LEMMA CountedHolds ==
  ASSUME RequestType, NEW d \in Date
  PROVE  Counted(d) \in Effect
<1>1. ASSUME NEW a \in Adjustment, Active(a, d) PROVE Current(a).amount \in Nat
  <2>1. Current(a) \in Event
    BY <1>1, CurrentIsKnown DEF Active
  <2> QED BY <2>1 DEF Event
<1> QED BY <1>1 DEF Counted, Effect

-----------------------------------------------------------------------------
(***************************************************************************)
(* Runs and the writer lock                                                *)
(***************************************************************************)
LockHeld == \A b \in Run : (writer = b) <=> (stage[b] \in Locked)

RunType ==
  /\ writer \in Run \cup {NoRun}
  /\ LockHeld
  /\ stage \in [Run -> Stage]
  /\ order \in [Run -> Order]
  /\ status \in [Run -> Status]
  /\ draft \in [Run -> Page]
  /\ facts \in Facts
  /\ precomputed \in [Date -> SUBSET Page]
  /\ author \in [Date -> Run \cup {NoRun}]
  /\ unstored \subseteq Run

\* Marked by rows: with their source version, or not at all.
MarkedBy(mark, rows) == mark \in {SourceVersion(rows), Unavailable}

\* Under the writer lock a run reads facts that nobody changes: what it read
\* is what there is, and the source version it stores with a page, if it could
\* be read, is the one of the rows of the page.
PagesMarked ==
  /\ \A b \in Run : stage[b] = "read" =>
       /\ draft[b].rows = UpTo(facts, order[b].date)
       /\ draft[b].dates = DatesOf(draft[b].rows)
       /\ draft[b].dates # {}
  /\ \A b \in Run : stage[b] = "marked" => MarkedBy(draft[b].mark, draft[b].rows)
  /\ \A d \in Date : \A p \in precomputed[d] : MarkedBy(p.mark, p.rows)

\* A run that stays inside or outside of the lock, takes it, or leaves it.
LEMMA LockStep ==
  ASSUME RunType, NEW b \in Run, NEW to \in Stage, stage' = [stage EXCEPT ![b] = to],
         \/ writer' = writer /\ (stage[b] \in Locked <=> to \in Locked)
         \/ writer = NoRun /\ writer' = b /\ to \in Locked
         \/ writer' = (IF writer = b THEN NoRun ELSE writer) /\ to \notin Locked
  PROVE  writer' \in Run \cup {NoRun} /\ LockHeld' /\ stage' \in [Run -> Stage]
<1>1. stage'[b] = to /\ \A c \in Run \ {b} : stage'[c] = stage[c]
  BY DEF RunType
<1>2. CASE writer' = writer /\ (stage[b] \in Locked <=> to \in Locked)
  BY <1>1, <1>2 DEF RunType, LockHeld
<1>3. CASE writer = NoRun /\ writer' = b /\ to \in Locked
  BY <1>1, <1>3, NoRunAssumption DEF RunType, LockHeld
<1>4. CASE writer' = (IF writer = b THEN NoRun ELSE writer) /\ to \notin Locked
  BY <1>1, <1>4, NoRunAssumption DEF RunType, LockHeld
<1> QED BY <1>2, <1>3, <1>4

\* Steps that neither touch facts nor make or store a page.
LEMMA PlainRunStep ==
  ASSUME RunType, PagesMarked, NEW b \in Run, NEW to \in Stage \ {"read", "marked"},
         stage' = [stage EXCEPT ![b] = to],
         \/ writer' = writer /\ (stage[b] \in Locked <=> to \in Locked)
         \/ writer = NoRun /\ writer' = b /\ to \in Locked
         \/ writer' = (IF writer = b THEN NoRun ELSE writer) /\ to \notin Locked,
         order' \in [Run -> Order], status' \in [Run -> Status],
         \A c \in Run \ {b} : order'[c] = order[c],
         draft' = draft \/ draft' = [draft EXCEPT ![b] = NoPage],
         UNCHANGED <<facts, precomputed, author>>, unstored' \subseteq Run
  PROVE  RunType' /\ PagesMarked'
<1>1. writer' \in Run \cup {NoRun} /\ LockHeld' /\ stage' \in [Run -> Stage]
  BY LockStep
<1>2. NoPage \in Page
  BY DEF NoPage, Page, Mark, Empty, Facts
<1>3. draft' \in [Run -> Page]
  BY <1>2 DEF RunType
<1>4. RunType'
  BY <1>1, <1>3 DEF RunType
<1>5. ASSUME NEW c \in Run, stage'[c] \in {"read", "marked"}
      PROVE stage[c] = stage'[c] /\ draft'[c] = draft[c] /\ order'[c] = order[c]
  BY <1>5 DEF RunType
<1> QED BY <1>4, <1>5 DEF PagesMarked

LEMMA PlainRunActions ==
  ASSUME RunType, PagesMarked, NEW b \in Run,
         \/ \E o \in Orders : Ask(b, o)
         \/ AppendRunning(b) \/ Acquire(b) \/ ClearPageCaches(b) \/ AppendCompleted(b)
         \/ RunFails(b) \/ AppendRaises(b) \/ Interrupt(b) \/ PrecomputeDrops(b)
  PROVE  RunType' /\ PagesMarked'
<1> USE DEF Step
<1>1. ASSUME NEW o \in Orders, Ask(b, o) PROVE RunType' /\ PagesMarked'
  <2>1. order' \in [Run -> Order] /\ \A c \in Run \ {b} : order'[c] = order[c]
    BY <1>1, OrdersAssumption DEF Ask, RunType
  <2> QED BY <1>1, <2>1, PlainRunStep DEF Ask, RunType, Stage, Locked
<1>2. CASE AppendRunning(b)
  BY <1>2, PlainRunStep DEF AppendRunning, RunType, Stage, Status, Locked
<1>3. CASE Acquire(b)
  BY <1>3, PlainRunStep DEF Acquire, RunType, Stage, Locked
<1>4. CASE ClearPageCaches(b)
  BY <1>4, PlainRunStep DEF ClearPageCaches, RunType, Stage, Locked
<1>5. CASE AppendCompleted(b)
  <2>1. writer = b
    BY <1>5 DEF AppendCompleted, RunType, LockHeld, Locked
  <2> QED BY <1>5, <2>1, PlainRunStep DEF AppendCompleted, RunType, Stage, Status, Locked
<1>6. CASE RunFails(b)
  BY <1>6, PlainRunStep DEF RunFails, LeaveLock, RunType, Stage, Status, Locked
<1>7. CASE AppendRaises(b)
  BY <1>7, PlainRunStep DEF AppendRaises, LeaveLock, RunType, Stage, Locked
<1>8. CASE Interrupt(b)
  BY <1>8, PlainRunStep DEF Interrupt, LeaveLock, RunType, Stage, Locked
<1>9. CASE PrecomputeDrops(b)
  BY <1>9, PlainRunStep DEF PrecomputeDrops, RunType, Stage, Locked
<1> QED BY <1>1, <1>2, <1>3, <1>4, <1>5, <1>6, <1>7, <1>8, <1>9

LEMMA CommitFactsKeeps ==
  ASSUME RunType, PagesMarked, NEW b \in Run, CommitFacts(b)
  PROVE  RunType' /\ PagesMarked'
<1>1. /\ stage[b] = "locked" /\ stage' = [stage EXCEPT ![b] = "committed"]
      /\ facts' = [facts EXCEPT ![order[b].date] = order[b].batch]
      /\ author' = [author EXCEPT ![order[b].date] = b]
      /\ UNCHANGED <<writer, order, status, draft, precomputed, unstored>>
  BY DEF CommitFacts, Step
<1>2. writer' \in Run \cup {NoRun} /\ LockHeld' /\ stage' \in [Run -> Stage]
  BY <1>1, LockStep DEF Stage, Locked
<1>3. facts' \in Facts /\ author' \in [Date -> Run \cup {NoRun}]
  BY <1>1 DEF RunType, Order, Facts
<1>4. \A c \in Run : stage[c] \in {"read", "marked"} => c = b
  BY <1>1 DEF RunType, LockHeld, Locked
<1>5. \A c \in Run : stage'[c] \notin {"read", "marked"}
  BY <1>1, <1>4 DEF RunType
<1> QED BY <1>1, <1>2, <1>3, <1>5 DEF RunType, PagesMarked

LEMMA PrecomputeReadsKeeps ==
  ASSUME RunType, PagesMarked, NEW b \in Run, PrecomputeReads(b)
  PROVE  RunType' /\ PagesMarked'
<1> DEFINE f == UpTo(facts, order[b].date)
           p == [dates |-> DatesOf(f), rows |-> f, mark |-> NoMark]
<1>1. /\ stage[b] = "committed" /\ stage' = [stage EXCEPT ![b] = "read"]
      /\ DatesOf(f) # {} /\ draft' = [draft EXCEPT ![b] = p]
      /\ UNCHANGED <<writer, order, status, facts, precomputed, author, unstored>>
  BY DEF PrecomputeReads, Step
<1>2. writer' \in Run \cup {NoRun} /\ LockHeld' /\ stage' \in [Run -> Stage]
  BY <1>1, LockStep DEF Stage, Locked
<1>3. f \in Facts /\ DatesOf(f) \subseteq Date
  <2>1. order[b].date \in Date /\ facts \in Facts
    BY DEF RunType, Order
  <2> QED BY <2>1, UpToHolds
<1>4. p \in Page
  BY <1>3 DEF Page, Mark
<1>5. p.rows = f /\ p.dates = DatesOf(p.rows)
  OBVIOUS
<1> HIDE DEF p
<1>6. draft' \in [Run -> Page] /\ draft'[b] = p
  BY <1>1, <1>4 DEF RunType
<1>7. \A c \in Run \ {b} : stage'[c] = stage[c] /\ draft'[c] = draft[c]
  BY <1>1 DEF RunType
<1>8. stage'[b] = "read"
  BY <1>1 DEF RunType
<1> QED BY <1>1, <1>2, <1>5, <1>6, <1>7, <1>8 DEF RunType, PagesMarked

LEMMA PrecomputeMarksKeeps ==
  ASSUME RunType, PagesMarked, NEW b \in Run, PrecomputeMarks(b)
  PROVE  RunType' /\ PagesMarked'
<1>0. PICK mark \in MarksOf(UpTo(facts, Max(draft[b].dates))) :
        draft' = [draft EXCEPT ![b].mark = mark]
  BY DEF PrecomputeMarks
<1>1. /\ stage[b] = "read" /\ stage' = [stage EXCEPT ![b] = "marked"]
      /\ draft' = [draft EXCEPT ![b].mark = mark]
      /\ UNCHANGED <<writer, order, status, facts, precomputed, author, unstored>>
  BY <1>0 DEF PrecomputeMarks, Step
<1>2. writer' \in Run \cup {NoRun} /\ LockHeld' /\ stage' \in [Run -> Stage]
  BY <1>1, LockStep DEF Stage, Locked
<1>3. /\ draft[b].rows = UpTo(facts, order[b].date)
      /\ draft[b].dates = DatesOf(draft[b].rows) /\ draft[b].dates # {}
  BY <1>1 DEF PagesMarked
<1>4. order[b].date \in Date /\ facts \in Facts /\ draft[b] \in Page
  BY DEF RunType, Order
<1>5. MarkedBy(mark, draft[b].rows) /\ draft[b].rows \in Facts
  BY <1>0, <1>3, <1>4, UpToLast DEF Page, MarksOf, MarkedBy
<1>6. mark \in Mark
  BY <1>5 DEF Mark, MarkedBy
<1>7. [draft[b] EXCEPT !.mark = mark] \in Page /\ [draft[b] EXCEPT !.mark = mark].mark = mark
        /\ [draft[b] EXCEPT !.mark = mark].rows = draft[b].rows
  BY <1>4, <1>6 DEF Page
<1>8. draft' \in [Run -> Page] /\ draft'[b].mark = mark /\ draft'[b].rows = draft[b].rows
  BY <1>1, <1>7 DEF RunType
<1>9. \A c \in Run \ {b} : stage'[c] = stage[c] /\ draft'[c] = draft[c]
  BY <1>1 DEF RunType
<1>10. stage'[b] = "marked"
  BY <1>1 DEF RunType
<1> QED BY <1>1, <1>2, <1>5, <1>8, <1>9, <1>10 DEF RunType, PagesMarked

LEMMA PrecomputeStoresKeeps ==
  ASSUME RunType, PagesMarked, NEW b \in Run, PrecomputeStores(b)
  PROVE  RunType' /\ PagesMarked'
<1> DEFINE last == Max(draft[b].dates)
<1>1. /\ stage[b] = "marked" /\ stage' = [stage EXCEPT ![b] = "stored"]
      /\ precomputed' = [precomputed EXCEPT ![last] = {draft[b]}]
      /\ UNCHANGED <<writer, order, status, draft, facts, author, unstored>>
  BY DEF PrecomputeStores, Step
<1>2. writer' \in Run \cup {NoRun} /\ LockHeld' /\ stage' \in [Run -> Stage]
  BY <1>1, LockStep DEF Stage, Locked
<1>3. draft[b] \in Page /\ MarkedBy(draft[b].mark, draft[b].rows)
  BY <1>1 DEF RunType, PagesMarked
<1> HIDE DEF last
<1>4. /\ precomputed' \in [Date -> SUBSET Page]
      /\ \A d \in Date : precomputed'[d] = precomputed[d] \/ precomputed'[d] = {draft[b]}
  BY <1>1, <1>3 DEF RunType
<1>5. \A c \in Run : stage'[c] \in {"read", "marked"} => stage[c] = stage'[c]
  BY <1>1 DEF RunType
<1> QED BY <1>1, <1>2, <1>3, <1>4, <1>5 DEF RunType, PagesMarked

LEMMA RunSteps ==
  ASSUME RunType, PagesMarked, NEW b \in Run, RunNext(b)
  PROVE  RunType' /\ PagesMarked'
BY PlainRunActions, CommitFactsKeeps, PrecomputeReadsKeeps, PrecomputeMarksKeeps,
   PrecomputeStoresKeeps DEF RunNext

LEMMA RunFrame ==
  ASSUME NEW b \in Run, RunNext(b)
  PROVE  UNCHANGED <<events, clock, raced, place, composed, page, load>>
BY DEF RunNext, Ask, AppendRunning, Acquire, CommitFacts, PrecomputeReads, PrecomputeMarks,
       PrecomputeStores, PrecomputeDrops, ClearPageCaches, AppendCompleted, RunFails, AppendRaises,
       Interrupt,
       requestVars, pageVars

LEMMA RequestFrame ==
  ASSUME NEW q \in Request, RequestNext(q)
  PROVE  UNCHANGED <<runVars, pageVars>>
BY DEF RequestNext, Create, Edit, Approve, Revoke, Restore, Unknown, Compose, Return, Stamp,
       AppendEvent, ClearCaches

LEMMA PageFrame ==
  ASSUME NEW h \in Reader, PageNext(h)
  PROVE  UNCHANGED <<events, clock, raced, place, composed, runVars>>
BY DEF PageNext, YtdBegins, YtdLists, YtdReads, YtdStores, PeriodBegins, Begins, PeriodChecks,
       PeriodFinds, PeriodMatches, PeriodLists, PeriodReads, PeriodStores, PeriodAnswers,
       Adjust, Fails, requestVars

LEMMA RunsKept ==
  ASSUME RunType, PagesMarked, UNCHANGED runVars
  PROVE  RunType' /\ PagesMarked'
BY DEF RunType, PagesMarked, LockHeld, runVars

-----------------------------------------------------------------------------
(***************************************************************************)
(* Pages                                                                   *)
(***************************************************************************)
PageType ==
  /\ ytd \subseteq Answer
  /\ inputs \subseteq Inputs
  /\ page \in [Reader -> PagePlace]
  /\ load \in [Reader -> Load]
  /\ overtaken \subseteq Reader /\ torn \subseteq Reader /\ lagging \subseteq Run

\* A page that was found is as it was stored, marked by its own rows; rows are
\* read for report dates that were listed.
FoundMarked ==
  \A h \in Reader :
    /\ page[h] = "found" => MarkedBy(load[h].mark, load[h].rows)
    /\ page[h] \in {"reading", "read"} => load[h].dates # {}

\* A load that goes on and has not just found a page, nor is about to read.
LEMMA PlainPageStep ==
  ASSUME PageType, FoundMarked, NEW h \in Reader,
         NEW to \in PagePlace \ {"found", "reading", "read"},
         page' = [page EXCEPT ![h] = to], NEW l \in Load, load' = [load EXCEPT ![h] = l]
  PROVE  page' \in [Reader -> PagePlace] /\ load' \in [Reader -> Load] /\ FoundMarked'
<1>1. page' \in [Reader -> PagePlace] /\ load' \in [Reader -> Load]
  BY DEF PageType
<1>2. page'[h] = to /\ \A k \in Reader \ {h} : page'[k] = page[k] /\ load'[k] = load[k]
  BY DEF PageType
<1> QED BY <1>1, <1>2 DEF FoundMarked

LEMMA ReadingPageStep ==
  ASSUME PageType, FoundMarked, NEW h \in Reader, NEW to \in PagePlace \ {"found"},
         page' = [page EXCEPT ![h] = to], NEW l \in Load, load' = [load EXCEPT ![h] = l],
         l.dates # {}
  PROVE  page' \in [Reader -> PagePlace] /\ load' \in [Reader -> Load] /\ FoundMarked'
<1>1. page' \in [Reader -> PagePlace] /\ load' \in [Reader -> Load]
  BY DEF PageType
<1>2. page'[h] = to /\ load'[h] = l
        /\ \A k \in Reader \ {h} : page'[k] = page[k] /\ load'[k] = load[k]
  BY DEF PageType
<1> QED BY <1>1, <1>2 DEF FoundMarked

LEMMA BeginsKeeps ==
  ASSUME RunType, PageType, FoundMarked, NEW h \in Reader, NEW to \in {"year", "period"},
         Begins(h, to)
  PROVE  page' \in [Reader -> PagePlace] /\ load' \in [Reader -> Load] /\ FoundMarked'
<1> DEFINE l == [load[h] EXCEPT !.end = Max(DatesOf(facts))]
<1>1. Max(DatesOf(facts)) \in Date
  <2>1. DatesOf(facts) \in SUBSET Date /\ DatesOf(facts) # {}
    BY DEF DatesOf, Begins
  <2> QED BY <2>1, MaxHolds
<1>2. l \in Load
  BY <1>1 DEF PageType, Load
<1>3. page' = [page EXCEPT ![h] = to] /\ load' = [load EXCEPT ![h] = l]
  BY DEF Begins
<1> QED BY <1>2, <1>3, PlainPageStep DEF PagePlace

LEMMA YtdBeginsKeeps ==
  ASSUME RunType, PageType, FoundMarked, NEW h \in Reader, YtdBegins(h)
  PROVE  PageType' /\ FoundMarked'
<1>1. Begins(h, "year") /\ UNCHANGED <<ytd, inputs, lagging>>
      /\ overtaken' \subseteq overtaken /\ torn' \subseteq torn
  BY DEF YtdBegins, Begins
<1> QED BY <1>1, BeginsKeeps DEF PageType

LEMMA PeriodBeginsKeeps ==
  ASSUME RunType, PageType, FoundMarked, NEW h \in Reader, PeriodBegins(h)
  PROVE  PageType' /\ FoundMarked'
<1>1. Begins(h, "period") /\ UNCHANGED cacheVars
  BY DEF PeriodBegins, Begins, cacheVars
<1> QED BY <1>1, BeginsKeeps DEF PageType, cacheVars

LEMMA YtdListsKeeps ==
  ASSUME RunType, PageType, FoundMarked, NEW h \in Reader, YtdLists(h)
  PROVE  PageType' /\ FoundMarked'
<1> DEFINE dates == DatesOf(UpTo(facts, load[h].end))
           l == [load[h] EXCEPT !.dates = dates, !.left = dates]
<1>1. dates \subseteq Date
  BY DEF DatesOf
<1>2. l \in Load
  <2> HIDE DEF dates
  <2> QED BY <1>1 DEF PageType, Load
<1>3. /\ page' = [page EXCEPT ![h] = "year listed"] /\ load' = [load EXCEPT ![h] = l]
      /\ UNCHANGED cacheVars
  BY DEF YtdLists
<1> HIDE DEF l
<1> QED BY <1>2, <1>3, PlainPageStep DEF PagePlace, PageType, cacheVars

LEMMA YtdReadsKeeps ==
  ASSUME RunType, PageType, FoundMarked, NEW h \in Reader, YtdReads(h)
  PROVE  PageType' /\ FoundMarked'
<1> DEFINE l == [load[h] EXCEPT !.rows = UpTo(facts, load[h].end)]
<1>1. UpTo(facts, load[h].end) \in Facts
  BY UpToHolds DEF RunType, PageType, Load
<1>2. l \in Load
  BY <1>1 DEF PageType, Load
<1>3. /\ page' = [page EXCEPT ![h] = "year read"] /\ load' = [load EXCEPT ![h] = l]
      /\ UNCHANGED cacheVars
  BY DEF YtdReads
<1> HIDE DEF l
<1> QED BY <1>2, <1>3, PlainPageStep DEF PagePlace, PageType, cacheVars

LEMMA AdjustKeeps ==
  ASSUME RequestType, RunType, PageType, FoundMarked, NEW h \in Reader, Adjust(h)
  PROVE  PageType' /\ FoundMarked'
<1> DEFINE d == Min(load[h].left)
           l == [load[h] EXCEPT !.left = @ \ {d}, !.total = Plus(@, Counted(d))]
<1>1. load[h] \in Load /\ load[h].left \in SUBSET Date /\ load[h].left # {}
  BY DEF PageType, Load, Adjust
<1>2. d \in Date
  BY <1>1, MinHolds
<1>3. Counted(d) \in Effect
  BY <1>2, CountedHolds
<1>4. Plus(load[h].total, Counted(d)) \in Effect
  BY <1>1, <1>3 DEF Load, Effect, Plus
<1>5. l \in Load
  BY <1>1, <1>4 DEF Load
<1>6. load' = [load EXCEPT ![h] = l] /\ page' = page /\ UNCHANGED cacheVars
  BY DEF Adjust
<1>7. page[h] \notin {"found", "reading", "read"}
  BY DEF Adjust
<1> HIDE DEF l
<1>8. load' \in [Reader -> Load] /\ \A k \in Reader \ {h} : load'[k] = load[k]
  BY <1>5, <1>6 DEF PageType
<1> QED BY <1>6, <1>7, <1>8 DEF PageType, FoundMarked, cacheVars

LEMMA YtdStoresKeeps ==
  ASSUME RunType, PageType, FoundMarked, NEW h \in Reader, YtdStores(h)
  PROVE  PageType' /\ FoundMarked'
<1>1. YtdAnswer(h) \in Answer
  BY DEF YtdAnswer, Answer, PageType, Load
<1>2. /\ page' = [page EXCEPT ![h] = "answered"] /\ load' = [load EXCEPT ![h] = load[h]]
      /\ ytd' \in {ytd, {YtdAnswer(h)}} /\ UNCHANGED <<inputs, overtaken, torn, lagging>>
  BY DEF YtdStores, PageType
<1> QED BY <1>1, <1>2, PlainPageStep DEF PagePlace, PageType

LEMMA PeriodChecksKeeps ==
  ASSUME RunType, PageType, FoundMarked, NEW h \in Reader, PeriodChecks(h)
  PROVE  PageType' /\ FoundMarked'
<1> DEFINE m == \E a \in Adjustment, d \in 1 .. load[h].end : Active(a, d)
           l == [load[h] EXCEPT !.manual = m]
<1>1. m \in BOOLEAN
  OBVIOUS
<1>2. l \in Load
  <2> HIDE DEF m
  <2> QED BY <1>1 DEF PageType, Load
<1>3. /\ page' = [page EXCEPT ![h] = "checked"] /\ load' = [load EXCEPT ![h] = l]
      /\ UNCHANGED cacheVars
  BY DEF PeriodChecks
<1> HIDE DEF l
<1> QED BY <1>2, <1>3, PlainPageStep DEF PagePlace, PageType, cacheVars

LEMMA PeriodFindsKeeps ==
  ASSUME RunType, PagesMarked, PageType, FoundMarked, NEW h \in Reader, PeriodFinds(h)
  PROVE  PageType' /\ FoundMarked'
<1>1. UNCHANGED cacheVars
  BY DEF PeriodFinds
<1>2. CASE page' = [page EXCEPT ![h] = "rebuilding"] /\ load' = load
  <2>1. load' = [load EXCEPT ![h] = load[h]] /\ load[h] \in Load
    BY <1>2 DEF PageType
  <2> QED BY <1>1, <1>2, <2>1, PlainPageStep DEF PagePlace, PageType, cacheVars
<1>3. ASSUME NEW p \in precomputed[load[h].end], page' = [page EXCEPT ![h] = "found"],
             load' = [load EXCEPT ![h].rows = p.rows, ![h].mark = p.mark]
      PROVE  PageType' /\ FoundMarked'
  <2> DEFINE l == [load[h] EXCEPT !.rows = p.rows, !.mark = p.mark]
  <2>1. load[h].end \in Date /\ load[h] \in Load
    BY DEF PageType, Load
  <2>2. p \in Page /\ MarkedBy(p.mark, p.rows)
    BY <2>1 DEF RunType, PagesMarked
  <2>3. l \in Load /\ MarkedBy(l.mark, l.rows)
    BY <2>1, <2>2 DEF Load, Page
  <2>4. load' = [load EXCEPT ![h] = l]
    BY <1>3
  <2> HIDE DEF l
  <2>5. /\ load' \in [Reader -> Load] /\ page' \in [Reader -> PagePlace]
        /\ load'[h] = l /\ page'[h] = "found"
    BY <1>3, <2>3, <2>4 DEF PageType, PagePlace
  <2>6. \A k \in Reader \ {h} : page'[k] = page[k] /\ load'[k] = load[k]
    BY <1>3, <2>4 DEF PageType
  <2> QED BY <1>1, <2>3, <2>5, <2>6 DEF PageType, FoundMarked, cacheVars
<1> QED BY <1>2, <1>3 DEF PeriodFinds

LEMMA SameLoadKeeps ==
  ASSUME RunType, PageType, FoundMarked, NEW h \in Reader,
         PeriodMatches(h) \/ PeriodAnswers(h) \/ Fails(h)
  PROVE  PageType' /\ FoundMarked'
<1>1. /\ \E to \in PagePlace \ {"found", "reading", "read"} : page' = [page EXCEPT ![h] = to]
      /\ load' = load /\ UNCHANGED cacheVars
  BY DEF PeriodMatches, PeriodAnswers, Fails, PagePlace
<1>2. load' = [load EXCEPT ![h] = load[h]] /\ load[h] \in Load
  BY <1>1 DEF PageType
<1> QED BY <1>1, <1>2, PlainPageStep DEF PageType, cacheVars

LEMMA PeriodListsKeeps ==
  ASSUME RunType, PageType, FoundMarked, NEW h \in Reader, PeriodLists(h)
  PROVE  PageType' /\ FoundMarked'
<1> DEFINE dates == DatesOf(UpTo(facts, load[h].end))
           cached == {x \in inputs : x.span = Span(h, dates)}
<1>1. dates \subseteq Date /\ load[h] \in Load /\ Empty \in Facts
  BY DEF DatesOf, PageType, Empty, Facts
<1>2. \A x \in cached : x.rows \in Facts
  BY DEF PageType, Inputs
<1>3. PICK rows \in IF cached = {} THEN {Empty} ELSE {x.rows : x \in cached} :
        /\ load' = [load EXCEPT ![h].dates = dates, ![h].left = dates, ![h].rows = rows]
        /\ page' = [page EXCEPT ![h] = IF cached = {} THEN "reading" ELSE Served(rows)]
  BY DEF PeriodLists
<1> DEFINE l == [load[h] EXCEPT !.dates = dates, !.left = dates, !.rows = rows]
<1>4. rows \in Facts
  <2> HIDE DEF cached
  <2> QED BY <1>1, <1>2, <1>3
<1>5. l \in Load
  <2> HIDE DEF dates, cached
  <2> QED BY <1>1, <1>4 DEF Load
<1>6. /\ \E to \in {"reading", "adjusting", "failed"} : page' = [page EXCEPT ![h] = to]
      /\ load' = [load EXCEPT ![h] = l] /\ UNCHANGED cacheVars
  BY <1>3 DEF PeriodLists, Served
<1>7. l.dates # {}
  <2>1. dates # {}
    BY DEF PeriodLists
  <2> HIDE DEF dates, cached
  <2> QED BY <1>1, <2>1 DEF Load
<1> HIDE DEF l
<1> QED BY <1>5, <1>6, <1>7, ReadingPageStep DEF PagePlace, PageType, cacheVars

LEMMA PeriodReadsKeeps ==
  ASSUME RunType, PageType, FoundMarked, NEW h \in Reader, PeriodReads(h)
  PROVE  PageType' /\ FoundMarked'
<1> DEFINE l == [load[h] EXCEPT !.rows = UpTo(facts, load[h].end)]
<1>1. UpTo(facts, load[h].end) \in Facts
  BY UpToHolds DEF RunType, PageType, Load
<1>2. l \in Load
  BY <1>1 DEF PageType, Load
<1>3. l.dates # {}
  BY DEF PageType, Load, FoundMarked, PeriodReads
<1>4. /\ page' = [page EXCEPT ![h] = "read"] /\ load' = [load EXCEPT ![h] = l]
      /\ UNCHANGED cacheVars
  BY DEF PeriodReads
<1> HIDE DEF l
<1> QED BY <1>2, <1>3, <1>4, ReadingPageStep DEF PagePlace, PageType, cacheVars

LEMMA PeriodStoresKeeps ==
  ASSUME RunType, PageType, FoundMarked, NEW h \in Reader, PeriodStores(h)
  PROVE  PageType' /\ FoundMarked'
<1> DEFINE x == [span |-> Span(h, load[h].dates), rows |-> load[h].rows]
<1>1. load[h] \in Load /\ load[h].dates # {}
  BY DEF PageType, FoundMarked, PeriodStores
<1>2. Min(load[h].dates) \in Date
  BY <1>1, MinHolds DEF Load
<1>3. x \in Inputs
  BY <1>1, <1>2 DEF Inputs, Span, Load
<1>4. /\ \E to \in {"failed", "adjusting"} : page' = [page EXCEPT ![h] = to]
      /\ load' = [load EXCEPT ![h] = load[h]]
      /\ inputs' \in {inputs, inputs \cup {x}} /\ UNCHANGED <<ytd, overtaken, torn, lagging>>
  BY DEF PeriodStores, PageType, Served
<1> HIDE DEF x
<1> QED BY <1>1, <1>3, <1>4, PlainPageStep DEF PagePlace, PageType

LEMMA PageSteps ==
  ASSUME RequestType, RunType, PagesMarked, PageType, FoundMarked, NEW h \in Reader, PageNext(h)
  PROVE  PageType' /\ FoundMarked'
BY YtdBeginsKeeps, YtdListsKeeps, YtdReadsKeeps, YtdStoresKeeps, PeriodBeginsKeeps,
   PeriodChecksKeeps, PeriodFindsKeeps, SameLoadKeeps, PeriodListsKeeps, PeriodReadsKeeps,
   PeriodStoresKeeps, AdjustKeeps DEF PageNext

LEMMA ClearsKeep ==
  ASSUME PageType, FoundMarked, UNCHANGED pageVars, ytd' \in {{}, ytd}, inputs' \in {{}, inputs},
         overtaken' \in {Reader, overtaken}, torn' \in {Reader, torn}, lagging' \subseteq Run
  PROVE  PageType' /\ FoundMarked'
BY DEF PageType, FoundMarked, pageVars

LEMMA RequestPageSteps ==
  ASSUME PageType, FoundMarked, NEW q \in Request, RequestNext(q)
  PROVE  PageType' /\ FoundMarked'
<1>1. UNCHANGED pageVars
  BY RequestFrame
<1>2. /\ ytd' \in {{}, ytd} /\ inputs' \in {{}, inputs} /\ lagging' \subseteq Run
      /\ overtaken' \in {Reader, overtaken} /\ torn' \in {Reader, torn}
  BY DEF RequestNext, Create, Edit, Approve, Revoke, Restore, Unknown, Compose, Return, Stamp,
         AppendEvent, ClearCaches, ClearYtd, cacheVars, PageType
<1> QED BY <1>1, <1>2, ClearsKeep

LEMMA RunPageSteps ==
  ASSUME PageType, FoundMarked, NEW b \in Run, RunNext(b)
  PROVE  PageType' /\ FoundMarked'
<1>1. UNCHANGED pageVars
  BY RunFrame DEF pageVars
<1>2. /\ ytd' \in {{}, ytd} /\ inputs' \in {{}, inputs} /\ lagging' \subseteq Run
      /\ overtaken' \in {Reader, overtaken} /\ torn' \in {Reader, torn}
  BY DEF RunNext, Ask, AppendRunning, Acquire, CommitFacts, PrecomputeReads, PrecomputeMarks,
         PrecomputeStores, PrecomputeDrops, ClearPageCaches, ClearYtd, AppendCompleted, RunFails,
         AppendRaises,
         Interrupt, cacheVars, PageType
<1> QED BY <1>1, <1>2, ClearsKeep

-----------------------------------------------------------------------------
(***************************************************************************)
(* The theorems                                                            *)
(***************************************************************************)
Inv == RequestType /\ OneMaker /\ InTurn /\ RunType /\ PagesMarked /\ PageType /\ FoundMarked

LEMMA InitHolds == Init => Inv
<1> SUFFICES ASSUME Init PROVE Inv
  OBVIOUS
<1> USE DEF Init
<1>1. events \in Seq(Event)
  BY StreamAssumption
<1>2. RequestType
  <2>1. clock \in 0 .. MaxClock /\ raced \subseteq Adjustment
    BY ClockAssumption
  <2>2. composed \in [Request -> Seq(Event)] /\ \A q \in Request : Len(composed[q]) = 0
    OBVIOUS
  <2>3. place \in [Request -> {"idle", "answered"}]
    OBVIOUS
  <2> QED BY <1>1, <2>1, <2>2, <2>3 DEF RequestType, RequestPlace
<1>3. OneMaker
  <2>1. \A q \in Request : ~Pending(q)
    BY DEF Pending
  <2> QED BY <2>1, MakerAssumption DEF OneMaker, SameMaker, Checked
<1>4. \A b \in Run : stage[b] \in {"waiting", "over"}
  OBVIOUS
<1>5. NoPage \in Page /\ Empty \in Facts
  BY DEF NoPage, Page, Mark, Empty, Facts
<1>6. [date |-> 1, batch |-> NoRows, sync |-> FALSE] \in Order
  BY MonthsAssumption DEF Order, Date
<1>7. RunType
  <2>1. LockHeld /\ writer = NoRun
    BY <1>4, NoRunAssumption DEF LockHeld, Locked
  <2>2. stage \in [Run -> Stage] /\ status \in [Run -> Status]
    BY DEF Stage, Status
  <2>3. facts \in Facts /\ draft \in [Run -> Page] /\ order \in [Run -> Order]
    BY <1>5, <1>6, OpeningAssumption
  <2>4. precomputed \in [Date -> SUBSET Page] /\ author \in [Date -> Run \cup {NoRun}]
    OBVIOUS
  <2> QED BY <2>1, <2>2, <2>3, <2>4 DEF RunType
<1>8. PagesMarked
  BY <1>4 DEF PagesMarked
<1>9. NoLoad \in Load
  BY <1>5, MonthsAssumption DEF NoLoad, Load, Date, Mark, Effect, None
<1>10. PageType
  BY <1>9 DEF PageType, PagePlace
<1>11. FoundMarked
  BY DEF FoundMarked
<1> QED BY <1>2, <1>3, <1>7, <1>8, <1>10, <1>11, InitInTurn DEF Inv

LEMMA StepKeeps == Inv /\ [Next]_vars => Inv'
<1> SUFFICES ASSUME Inv, [Next]_vars PROVE Inv'
  OBVIOUS
<1> USE DEF Inv
<1>1. ASSUME NEW q \in Request, RequestNext(q) PROVE Inv'
  BY <1>1, RequestSteps, RequestInTurn, RequestFrame, RunsKept, RequestPageSteps
<1>2. ASSUME NEW b \in Run, RunNext(b) PROVE Inv'
  BY <1>2, RunFrame, OthersKeep, OthersInTurn, RunSteps, RunPageSteps
<1>3. ASSUME NEW h \in Reader, PageNext(h) PROVE Inv'
  BY <1>3, PageFrame, OthersKeep, OthersInTurn, RunsKept, PageSteps
<1>4. CASE UNCHANGED vars
  <2>1. UNCHANGED <<events, clock, raced, place, composed>> /\ UNCHANGED runVars
    BY <1>4 DEF vars, requestVars
  <2>2. PageType' /\ FoundMarked'
    BY <1>4 DEF vars, pageVars, cacheVars, PageType, FoundMarked
  <2> QED BY <2>1, <2>2, OthersKeep, OthersInTurn, RunsKept
<1> QED BY <1>1, <1>2, <1>3, <1>4 DEF Next

THEOREM Invariance == Spec => []Inv
<1> QED BY InitHolds, StepKeeps, PTL DEF Spec

\* Every variable of the requests, the runs, the pages and the caches keeps its
\* type; a run holds the writer lock exactly while it writes, from the lock to
\* its completed record.
THEOREM TypeCorrect == Spec => []TypeOK
<1>1. Inv => TypeOK
  <2> SUFFICES ASSUME Inv PROVE TypeOK
    OBVIOUS
  <2>1. \A b \in Run : (writer = b) = (stage[b] \in Locked)
    BY DEF Inv, RunType, LockHeld
  <2> QED BY <2>1 DEF Inv, RequestType, RunType, PageType, TypeOK
<1> QED BY <1>1, Invariance, PTL

\* The maker of an adjustment never approves it, for any users, requests and
\* clock: the events that wait to be appended have the maker of the events
\* they were composed from, whichever these were.
THEOREM MakerNeverApprovesHolds == Spec => []MakerNeverApproves
<1>1. Inv => MakerNeverApproves
  BY DEF Inv, OneMaker, SameMaker, Checked, MakerNeverApproves
<1> QED BY <1>1, Invariance, PTL

\* The current record of an adjustment whose requests did not overlap is the last
\* one appended, with the fields of the last create or edit, for any users,
\* requests and clock that goes forward: each event waits with the fields of the
\* last one of the stream, and takes its instant after it.
THEOREM CurrentIsLastUnlessRacedHolds == Spec => []CurrentIsLastUnlessRaced
<1>1. Inv => CurrentIsLastUnlessRaced
  BY InTurnIsLast DEF Inv, CurrentIsLastUnlessRaced
<1> QED BY <1>1, Invariance, PTL

\* A precomputed page is answered only with the report dates and the totals of
\* the facts of now, for any runs and readers: what marks a page are the rows
\* of the page, because facts do not change between the reads of a run that
\* holds the writer lock.  A page no source version could be read for is excepted.
THEOREM AnswersPrecomputedHolds == Spec => AnswersPrecomputedOfSameTotalsUnlessUnmarked
<1>1. ASSUME Inv, [Next]_vars, NEW h \in Reader, page[h] = "found", page'[h] = "precomputed",
             load[h].mark # Unavailable
      PROVE  SourceVersion(load[h].rows) = SourceVersion(UpTo(facts, load[h].end))
  <2>1. load[h].mark = SourceVersion(load[h].rows)
    BY <1>1 DEF Inv, FoundMarked, MarkedBy
  <2>2. page \in [Reader -> PagePlace]
    BY <1>1 DEF Inv, PageType
  <2>3. PICK k \in Reader : PageNext(k)
    <3>1. page' # page
      BY <1>1
    <3> QED BY <1>1, <3>1, RequestFrame, RunFrame DEF Next, vars, pageVars
  <2>4. CASE PeriodMatches(k)
    BY <1>1, <2>1, <2>2, <2>4 DEF PeriodMatches, MarksOf
  <2>5. CASE ~PeriodMatches(k)
    BY <1>1, <2>2, <2>3, <2>5 DEF PageNext, YtdBegins, YtdLists, YtdReads, YtdStores,
       PeriodBegins, Begins, PeriodChecks, PeriodFinds, PeriodLists, PeriodReads, PeriodStores,
       PeriodAnswers, Adjust, Fails
  <2> QED BY <2>4, <2>5
<1>2. Inv /\ [Next]_vars => \A h \in Reader :
        (page[h] = "found" /\ page'[h] = "precomputed" /\ load[h].mark # Unavailable)
        => SourceVersion(load[h].rows) = SourceVersion(UpTo(facts, load[h].end))
  BY <1>1
<1> QED BY <1>2, Invariance, PTL DEF Spec, AnswersPrecomputedOfSameTotalsUnlessUnmarked

-----------------------------------------------------------------------------
(***************************************************************************)
(* What the cache of the year to date holds                                *)
(***************************************************************************)
YearPlace == {"year", "year listed", "year read"}

\* A load that no commit overtook has read the facts of now.
LoadShows ==
  \A h \in Reader \ torn :
    /\ page[h] \in YearPlace =>
         DatesOf(facts) # {} /\ load[h].end = Max(DatesOf(facts))
    /\ page[h] \in {"year listed", "year read"} => load[h].dates = DatesOf(facts)
    /\ page[h] = "year read" => load[h].rows = facts

YtdShows == CachedYtdShowsFactsUnlessLagging

LEMMA UpToGreatest ==
  ASSUME NEW f \in Facts, DatesOf(f) # {}
  PROVE  UpTo(f, Max(DatesOf(f))) = f
<1> DEFINE m == Max(DatesOf(f))
<1>1. DatesOf(f) \in SUBSET Date /\ \A e \in Date : e \notin DatesOf(f) => f[e] = NoRows
  BY DEF DatesOf
<1>2. \A e \in DatesOf(f) : e <= m
  BY <1>1, MaxHolds
<1> HIDE DEF m
<1>3. \A e \in Date : (IF e <= m THEN f[e] ELSE NoRows) = f[e]
  BY <1>1, <1>2
<1> QED BY <1>3 DEF UpTo, Facts, m

\* The steps of a load of the year to date.
LEMMA YearSteps ==
  ASSUME RunType, PageType, LoadShows, YtdShows, NEW h \in Reader, PageNext(h)
  PROVE  LoadShows' /\ YtdShows'
<1> USE DEF PageType, YearPlace
<1>1. UNCHANGED facts
  BY PageFrame DEF runVars
<1>2. CASE YtdBegins(h)
  <2>1. /\ ytd = {} /\ UNCHANGED ytd /\ torn' = torn \ {h} /\ DatesOf(facts) # {}
        /\ page' = [page EXCEPT ![h] = "year"]
        /\ load' = [load EXCEPT ![h].end = Max(DatesOf(facts))]
    BY <1>2 DEF YtdBegins, Begins
  <2>2. load'[h].end = Max(DatesOf(facts)) /\ \A k \in Reader \ {h} : load'[k] = load[k]
    BY <2>1 DEF Load
  <2> QED BY <1>1, <2>1, <2>2 DEF LoadShows, YtdShows, CachedYtdShowsFactsUnlessLagging
<1>3. CASE YtdLists(h)
  <2> DEFINE dates == DatesOf(UpTo(facts, load[h].end))
  <2>1. /\ page[h] = "year" /\ page' = [page EXCEPT ![h] = "year listed"]
        /\ load' = [load EXCEPT ![h].dates = dates, ![h].left = dates]
        /\ UNCHANGED <<ytd, torn, lagging>>
    BY <1>3 DEF YtdLists, cacheVars
  <2>2. h \notin torn => dates = DatesOf(facts)
    BY <2>1, UpToGreatest DEF LoadShows, RunType
  <2> HIDE DEF dates
  <2>3. /\ load'[h].dates = dates /\ load'[h].end = load[h].end
        /\ \A k \in Reader \ {h} : load'[k] = load[k]
    BY <2>1 DEF Load
  <2> QED BY <1>1, <2>1, <2>2, <2>3 DEF LoadShows, YtdShows, CachedYtdShowsFactsUnlessLagging
<1>4. CASE YtdReads(h)
  <2> DEFINE rows == UpTo(facts, load[h].end)
  <2>1. /\ page[h] = "year listed" /\ page' = [page EXCEPT ![h] = "year read"]
        /\ load' = [load EXCEPT ![h].rows = rows] /\ UNCHANGED <<ytd, torn, lagging>>
    BY <1>4 DEF YtdReads, cacheVars
  <2>2. h \notin torn => rows = facts
    BY <2>1, UpToGreatest DEF LoadShows, RunType
  <2> HIDE DEF rows
  <2>3. /\ load'[h].rows = rows /\ load'[h].end = load[h].end
        /\ load'[h].dates = load[h].dates
        /\ \A k \in Reader \ {h} : load'[k] = load[k]
    BY <2>1 DEF Load
  <2> QED BY <1>1, <2>1, <2>2, <2>3 DEF LoadShows, YtdShows, CachedYtdShowsFactsUnlessLagging
<1>5. CASE Adjust(h)
  <2>1. /\ UNCHANGED <<page, ytd, torn, lagging>>
        /\ \A k \in Reader : /\ load'[k].end = load[k].end /\ load'[k].rows = load[k].rows
                             /\ load'[k].dates = load[k].dates
    <3> DEFINE d == Min(load[h].left)
               x == load[h].left \ {d}
               y == Plus(load[h].total, Counted(d))
    <3>1. load' = [load EXCEPT ![h].left = x, ![h].total = y]
      BY <1>5 DEF Adjust
    <3> HIDE DEF x, y
    <3>2. UNCHANGED <<page, ytd, torn, lagging>>
      BY <1>5 DEF Adjust, cacheVars
    <3> QED BY <3>1, <3>2 DEF Load
  <2> QED BY <1>1, <2>1 DEF LoadShows, YtdShows, CachedYtdShowsFactsUnlessLagging
<1>6. CASE YtdStores(h)
  <2>1. /\ page[h] = "year read" /\ page' = [page EXCEPT ![h] = "answered"]
        /\ UNCHANGED <<load, torn, lagging>>
        /\ \A x \in ytd' : x \in ytd \/ x = YtdAnswer(h)
    BY <1>6 DEF YtdStores
  <2>2. LoadShows'
    BY <1>1, <2>1 DEF LoadShows
  <2>3. ~YtdAnswer(h).torn => YtdAnswer(h).dates = DatesOf(facts) /\ YtdAnswer(h).rows = facts
    BY <2>1 DEF LoadShows, YtdAnswer
  <2>4. YtdShows'
    BY <1>1, <2>1, <2>3 DEF YtdShows, CachedYtdShowsFactsUnlessLagging
  <2> QED BY <2>2, <2>4
<1>7. CASE \/ PeriodBegins(h) \/ PeriodChecks(h) \/ PeriodFinds(h) \/ PeriodMatches(h)
           \/ PeriodLists(h) \/ PeriodReads(h) \/ PeriodStores(h) \/ PeriodAnswers(h) \/ Fails(h)
  <2>1. /\ UNCHANGED <<ytd, torn, lagging>> /\ page'[h] \notin YearPlace
        /\ \A k \in Reader \ {h} : page'[k] = page[k] /\ load'[k] = load[k]
    BY <1>7 DEF PeriodBegins, Begins, PeriodChecks, PeriodFinds, PeriodMatches, PeriodLists,
       PeriodReads, PeriodStores, PeriodAnswers, Fails, Served, cacheVars
  <2> QED BY <1>1, <2>1 DEF LoadShows, YtdShows, CachedYtdShowsFactsUnlessLagging
<1> QED BY <1>2, <1>3, <1>4, <1>5, <1>6, <1>7 DEF PageNext

LEMMA YearKept ==
  ASSUME LoadShows, YtdShows, UNCHANGED <<facts, page, load, torn>>,
         ytd' = {} \/ UNCHANGED <<ytd, lagging>>
  PROVE  LoadShows' /\ YtdShows'
BY DEF LoadShows, YtdShows, CachedYtdShowsFactsUnlessLagging

LEMMA YearRunSteps ==
  ASSUME LoadShows, YtdShows, NEW b \in Run, RunNext(b)
  PROVE  LoadShows' /\ YtdShows'
<1>1. UNCHANGED <<page, load>>
  BY RunFrame
<1>2. CASE CommitFacts(b)
  <2>1. torn' = Reader /\ lagging' # {}
    BY <1>2 DEF CommitFacts
  <2> QED BY <2>1 DEF LoadShows, YtdShows, CachedYtdShowsFactsUnlessLagging
<1>3. CASE ~CommitFacts(b)
  <2>1. UNCHANGED <<facts, torn>> /\ (ytd' = {} \/ UNCHANGED <<ytd, lagging>>)
    BY <1>3 DEF RunNext, Ask, AppendRunning, Acquire, PrecomputeReads, PrecomputeMarks,
       PrecomputeStores, PrecomputeDrops, ClearPageCaches, ClearYtd, AppendCompleted, RunFails,
       AppendRaises,
       Interrupt, cacheVars
  <2> QED BY <1>1, <2>1, YearKept
<1> QED BY <1>2, <1>3

LEMMA YearRequestSteps ==
  ASSUME LoadShows, YtdShows, NEW q \in Request, RequestNext(q)
  PROVE  LoadShows' /\ YtdShows'
<1>1. UNCHANGED <<page, load, facts>>
  BY RequestFrame DEF runVars, pageVars
<1>2. UNCHANGED torn /\ (ytd' = {} \/ UNCHANGED <<ytd, lagging>>)
  BY DEF RequestNext, Create, Edit, Approve, Revoke, Restore, Unknown, Compose, Return, Stamp,
     AppendEvent, ClearCaches, ClearYtd, cacheVars
<1> QED BY <1>1, <1>2, YearKept

\* A year to date in the cache has the rows of the facts of now, unless a commit
\* overtook its load or a run has committed and not cleared the cache since, for
\* any runs, readers and facts.
THEOREM CachedYtdShowsHolds == Spec => []CachedYtdShowsFactsUnlessLagging
<1>1. Init => LoadShows /\ YtdShows
  <2> SUFFICES ASSUME Init PROVE LoadShows /\ YtdShows
    OBVIOUS
  <2>1. ytd = {} /\ \A h \in Reader : page[h] \in {"idle", "failed"}
    BY DEF Init
  <2> QED BY <2>1 DEF LoadShows, YtdShows, CachedYtdShowsFactsUnlessLagging, YearPlace
<1>2. Inv /\ LoadShows /\ YtdShows /\ [Next]_vars => (LoadShows /\ YtdShows)'
  <2> SUFFICES ASSUME Inv, LoadShows, YtdShows, [Next]_vars
               PROVE  (LoadShows /\ YtdShows)'
    OBVIOUS
  <2>1. CASE UNCHANGED vars
    BY <2>1, YearKept DEF vars, runVars, pageVars, cacheVars
  <2> QED BY <2>1, YearSteps, YearRunSteps, YearRequestSteps DEF Next, Inv
<1>3. YtdShows => CachedYtdShowsFactsUnlessLagging
  BY DEF YtdShows
<1> QED BY <1>1, <1>2, <1>3, Invariance, PTL DEF Spec

-----------------------------------------------------------------------------
(***************************************************************************)
(* The page a completed run leaves                                         *)
(***************************************************************************)
\* What run b wrote is what it read, and what the page of its date shows.
PageOf(b) ==
  LET d == order[b].date IN
  \E p \in Page : precomputed[d] = {p} /\ p.rows[d] = facts[d]

CompletedInv ==
  \A b \in Run :
    /\ stage[b] # "over" => status[b] # "completed"
    /\ stage[b] \in {"committed", "read", "marked"} =>
         facts[order[b].date] = order[b].batch
    /\ stage[b] = "marked" =>
         /\ draft[b].rows = UpTo(facts, order[b].date)
         /\ draft[b].dates = DatesOf(draft[b].rows)
         /\ draft[b].dates # {}
    /\ (/\ stage[b] \in {"stored", "cleared"} \/ status[b] = "completed"
        /\ b \notin unstored
        /\ author[order[b].date] = b /\ order[b].batch # NoRows) => PageOf(b)

\* A run that stays outside of the precomputation.
LEMMA CompletedKept ==
  ASSUME RunType, CompletedInv, NEW b \in Run,
         UNCHANGED <<facts, precomputed, author>>, unstored \subseteq unstored',
         \A c \in Run \ {b} : /\ stage'[c] = stage[c] /\ status'[c] = status[c]
                              /\ order'[c] = order[c] /\ draft'[c] = draft[c],
         stage'[b] \notin {"committed", "read", "marked"},
         stage'[b] # "over" => status'[b] # "completed",
         \/ stage'[b] \notin {"stored", "cleared"} /\ status'[b] # "completed"
         \/ order'[b] = order[b] /\ (stage[b] \in {"stored", "cleared"} \/ status[b] = "completed")
         \/ b \in unstored'
  PROVE  CompletedInv'
<1>1. \A c \in Run : order'[c] = order[c] => PageOf(c)' = PageOf(c)
  BY DEF PageOf
<1>2. ASSUME NEW c \in Run \ {b}
      PROVE  /\ stage'[c] # "over" => status'[c] # "completed"
             /\ stage'[c] \in {"committed", "read", "marked"} =>
                  facts'[order'[c].date] = order'[c].batch
             /\ stage'[c] = "marked" =>
                  /\ draft'[c].rows = UpTo(facts', order'[c].date)
                  /\ draft'[c].dates = DatesOf(draft'[c].rows)
                  /\ draft'[c].dates # {}
             /\ (/\ stage'[c] \in {"stored", "cleared"} \/ status'[c] = "completed"
                 /\ c \notin unstored'
                 /\ author'[order'[c].date] = c /\ order'[c].batch # NoRows) => PageOf(c)'
  BY <1>1 DEF CompletedInv
<1>3. /\ stage'[b] # "over" => status'[b] # "completed"
      /\ (/\ stage'[b] \in {"stored", "cleared"} \/ status'[b] = "completed"
          /\ b \notin unstored'
          /\ author'[order'[b].date] = b /\ order'[b].batch # NoRows) => PageOf(b)'
  BY <1>1 DEF CompletedInv
<1> QED BY <1>2, <1>3 DEF CompletedInv

LEMMA CompletedRunSteps ==
  ASSUME RunType, PagesMarked, CompletedInv, NEW b \in Run, RunNext(b)
  PROVE  CompletedInv'
<1> USE DEF Step
<1>1. CASE \/ \E o \in Orders : Ask(b, o)
           \/ AppendRunning(b) \/ Acquire(b) \/ ClearPageCaches(b) \/ AppendCompleted(b)
           \/ RunFails(b) \/ AppendRaises(b) \/ Interrupt(b) \/ PrecomputeDrops(b)
  <2>1. /\ UNCHANGED <<facts, precomputed, author>> /\ unstored \subseteq unstored'
        /\ \A c \in Run \ {b} : /\ stage'[c] = stage[c] /\ status'[c] = status[c]
                                /\ order'[c] = order[c] /\ draft'[c] = draft[c]
        /\ stage'[b] \notin {"committed", "read", "marked"}
    BY <1>1 DEF RunType, Ask, AppendRunning, Acquire, ClearPageCaches, AppendCompleted,
       RunFails, AppendRaises, Interrupt, LeaveLock, PrecomputeDrops
  <2>2. /\ stage'[b] # "over" => status'[b] # "completed"
        /\ \/ stage'[b] \notin {"stored", "cleared"} /\ status'[b] # "completed"
           \/ /\ order'[b] = order[b]
              /\ stage[b] \in {"stored", "cleared"} \/ status[b] = "completed"
           \/ b \in unstored'
    <3>1. stage[b] # "over"
      BY <1>1 DEF Ask, AppendRunning, Acquire, ClearPageCaches, AppendCompleted,
         RunFails, AppendRaises, Interrupt, MayRaise, PrecomputeDrops
    <3>2. status[b] # "completed"
      BY <3>1 DEF CompletedInv
    <3> QED BY <1>1, <3>1, <3>2 DEF RunType, Ask, AppendRunning, Acquire, ClearPageCaches,
            AppendCompleted, RunFails, AppendRaises, Interrupt, PrecomputeDrops
  <2> QED BY <2>1, <2>2, CompletedKept
<1>2. CASE CommitFacts(b)
  <2>1. /\ stage[b] = "locked" /\ stage' = [stage EXCEPT ![b] = "committed"]
        /\ facts' = [facts EXCEPT ![order[b].date] = order[b].batch]
        /\ author' = [author EXCEPT ![order[b].date] = b]
        /\ UNCHANGED <<order, status, draft, precomputed, unstored>>
    BY <1>2 DEF CommitFacts
  <2>2. \A c \in Run \ {b} : stage[c] \notin Locked
    BY <2>1 DEF RunType, LockHeld, Locked
  <2>3. /\ stage'[b] = "committed" /\ \A c \in Run \ {b} : stage'[c] = stage[c]
        /\ order[b].date \in Date /\ facts'[order[b].date] = order[b].batch
    BY <2>1 DEF RunType, Order, Facts
  <2>4. status[b] # "completed"
    BY <2>1 DEF CompletedInv
  <2>5. ASSUME NEW c \in Run \ {b}, author'[order[c].date] = c
        PROVE  author[order[c].date] = c /\ PageOf(c)' = PageOf(c)
    <3>1. order[c].date \in Date
      BY DEF RunType, Order
    <3>2. order[c].date # order[b].date
      BY <2>1, <2>5, <3>1 DEF RunType
    <3> QED BY <2>1, <2>5, <3>1, <3>2 DEF RunType, Facts, PageOf
  <2> QED BY <2>1, <2>2, <2>3, <2>4, <2>5 DEF CompletedInv, Locked
<1>3. CASE PrecomputeReads(b)
  <2>1. /\ stage[b] = "committed" /\ stage'[b] = "read"
        /\ \A c \in Run \ {b} : stage'[c] = stage[c] /\ draft'[c] = draft[c]
        /\ UNCHANGED <<order, status, facts, precomputed, author, unstored>>
    BY <1>3 DEF PrecomputeReads, RunType
  <2>2. \A c \in Run : PageOf(c)' = PageOf(c)
    BY <2>1 DEF PageOf
  <2>3. status[b] # "completed"
    BY <2>1 DEF CompletedInv
  <2> QED BY <2>1, <2>2, <2>3 DEF CompletedInv
<1>4. CASE PrecomputeMarks(b)
  <2>0. PICK mark : draft' = [draft EXCEPT ![b].mark = mark]
    BY <1>4 DEF PrecomputeMarks
  <2>1. /\ stage[b] = "read" /\ stage'[b] = "marked"
        /\ draft' = [draft EXCEPT ![b].mark = mark]
        /\ \A c \in Run \ {b} : stage'[c] = stage[c] /\ draft'[c] = draft[c]
        /\ UNCHANGED <<order, status, facts, precomputed, author, unstored>>
    BY <1>4, <2>0 DEF PrecomputeMarks, RunType
  <2>2. \A c \in Run : PageOf(c)' = PageOf(c)
    BY <2>1 DEF PageOf
  <2>3. status[b] # "completed"
    BY <2>1 DEF CompletedInv
  <2>4. draft'[b].rows = draft[b].rows /\ draft'[b].dates = draft[b].dates
    BY <2>1 DEF RunType, Page
  <2>5. /\ draft[b].rows = UpTo(facts, order[b].date)
        /\ draft[b].dates = DatesOf(draft[b].rows) /\ draft[b].dates # {}
    BY <2>1 DEF PagesMarked
  <2> QED BY <2>1, <2>2, <2>3, <2>4, <2>5 DEF CompletedInv
<1>5. CASE PrecomputeStores(b)
  <2> DEFINE last == Max(draft[b].dates)
             d == order[b].date
  <2>1. /\ stage[b] = "marked" /\ stage'[b] = "stored"
        /\ \A c \in Run \ {b} : stage'[c] = stage[c]
        /\ precomputed' = [precomputed EXCEPT ![last] = {draft[b]}]
        /\ UNCHANGED <<order, status, draft, facts, author, unstored>>
    BY <1>5 DEF PrecomputeStores, RunType
  <2>2. /\ draft[b].rows = UpTo(facts, d) /\ draft[b].dates = DatesOf(UpTo(facts, d))
        /\ draft[b].dates # {} /\ facts[d] = order[b].batch /\ status[b] # "completed"
    BY <2>1 DEF CompletedInv
  <2>3. draft[b] \in Page /\ d \in Date /\ facts \in Facts
    BY DEF RunType, Order
  <2>4. draft[b].dates \in SUBSET Date
    BY <2>3 DEF Page
  <2>5. last \in draft[b].dates /\ \A e \in draft[b].dates : e <= last
    BY <2>2, <2>4, MaxHolds
  <2>6. \A e \in Date : e \in draft[b].dates <=> (e <= d /\ facts[e] # NoRows)
    BY <2>2 DEF DatesOf, UpTo
  <2> HIDE DEF last
  <2>7. last \in Date /\ draft[b].rows[last] = facts[last]
    BY <2>2, <2>4, <2>5, <2>6 DEF UpTo
  <2>8. \A e \in Date : precomputed'[e] = IF e = last THEN {draft[b]} ELSE precomputed[e]
    BY <2>1 DEF RunType
  <2>9. \A c \in Run : order[c].date = last \/ PageOf(c) => PageOf(c)'
    BY <2>1, <2>3, <2>7, <2>8 DEF PageOf, RunType, Order
  <2>10. order[b].batch # NoRows => d = last
    <3>1. d \in Nat /\ last \in Nat /\ d <= d /\ last <= d
      BY <2>3, <2>5, <2>6, <2>7, MonthsAssumption DEF Date
    <3>2. order[b].batch # NoRows => d <= last
      BY <2>2, <2>3, <2>5, <2>6, <3>1
    <3> HIDE DEF d
    <3> QED BY <3>1, <3>2
  <2>11. order[b].batch # NoRows => PageOf(b)'
    BY <2>9, <2>10
  <2> QED BY <2>1, <2>2, <2>9, <2>11 DEF CompletedInv
<1> QED BY <1>1, <1>2, <1>3, <1>4, <1>5 DEF RunNext

LEMMA CompletedUnchanged ==
  ASSUME CompletedInv, UNCHANGED runVars
  PROVE  CompletedInv'
BY DEF CompletedInv, PageOf, runVars

\* A run recorded as completed left a precomputed page with its rows, as long as no
\* other run wrote its date, unless the file could not be opened to store it, for
\* any runs, orders and faults.
THEOREM CompletedRunHolds == Spec => []CompletedRunIsPrecomputedUnlessUnstored
<1>1. Init => CompletedInv
  <2> SUFFICES ASSUME Init PROVE CompletedInv
    OBVIOUS
  <2>1. \A b \in Run : stage[b] \in {"waiting", "over"} /\ status[b] = "queued"
    BY DEF Init
  <2> QED BY <2>1 DEF CompletedInv
<1>2. Inv /\ CompletedInv /\ [Next]_vars => CompletedInv'
  <2> SUFFICES ASSUME Inv, CompletedInv, [Next]_vars PROVE CompletedInv'
    OBVIOUS
  <2>1. CASE UNCHANGED vars
    BY <2>1, CompletedUnchanged DEF vars
  <2> QED BY <2>1, CompletedRunSteps, RequestFrame, PageFrame, CompletedUnchanged DEF Next, Inv
<1>3. CompletedInv => CompletedRunIsPrecomputedUnlessUnstored
  <2> SUFFICES ASSUME CompletedInv, NEW b \in Run \ unstored, status[b] = "completed",
                      author[order[b].date] = b, order[b].batch # NoRows
               PROVE  \E p \in precomputed[order[b].date] :
                        /\ p.rows[order[b].date] = facts[order[b].date]
                        /\ Cardinality(precomputed[order[b].date]) = 1
    BY DEF CompletedRunIsPrecomputedUnlessUnstored
  <2>1. PageOf(b)
    BY DEF CompletedInv
  <2> QED BY <2>1, FS_Singleton DEF PageOf
<1> QED BY <1>1, <1>2, <1>3, Invariance, PTL DEF Spec

-----------------------------------------------------------------------------
(***************************************************************************)
(* The adjustments a year to date counts                                   *)
(***************************************************************************)
Settled == \A q \in Request : place[q] # "appended"
CountedIn(a, D) ==
  IF Known(a) /\ Current(a).status = "approved" /\ Current(a).date \in D
  THEN Current(a).amount ELSE 0

\* A load has counted the dates it has passed.
Counting ==
  \A h \in Reader :
    /\ page[h] \in {"idle", "year", "year listed"} => load[h].total = None
    /\ page[h] = "year listed" => load[h].left = load[h].dates
    /\ page[h] = "year read" => load[h].left \subseteq load[h].dates
    /\ (page[h] = "year read" /\ Settled /\ h \notin overtaken) =>
         \A a \in Adjustment :
           load[h].total[a] = CountedIn(a, load[h].dates \ load[h].left)

\* Once what was appended is cleared, the cache counts as the stream does.
YtdCounts ==
  \A x \in ytd : (~x.overtaken /\ Settled) =>
    \A a \in Adjustment : x.total[a] = CountedIn(a, x.dates)

LEMMA SameCount ==
  ASSUME UNCHANGED events
  PROVE  \A a, D : CountedIn(a, D)' = CountedIn(a, D)
BY DEF CountedIn, Known, Current, Positions

\* One more date of the stream as it is.
LEMMA CountsOneMore ==
  ASSUME RequestType, NEW D, NEW d, d \notin D, NEW a \in Adjustment,
         NEW t \in Effect, t[a] = CountedIn(a, D)
  PROVE  Plus(t, Counted(d))[a] = CountedIn(a, D \cup {d})
<1>1. Plus(t, Counted(d))[a] = t[a] + (IF Active(a, d) THEN Current(a).amount ELSE 0)
  BY DEF Plus, Counted
<1>2. Known(a) => Current(a).amount \in Nat
  <2>1. Known(a) => Current(a) \in Event
    BY CurrentIsKnown
  <2> QED BY <2>1 DEF Event
<1>3. CASE Active(a, d)
  <2>1. t[a] = 0 /\ CountedIn(a, D \cup {d}) = Current(a).amount
    BY <1>3 DEF Active, CountedIn
  <2>2. Current(a).amount \in Nat
    BY <1>2, <1>3 DEF Active
  <2> QED BY <1>1, <1>3, <2>1, <2>2
<1>4. CASE ~Active(a, d)
  <2>1. CountedIn(a, D \cup {d}) = CountedIn(a, D)
    BY <1>4 DEF Active, CountedIn
  <2>2. t[a] \in Nat
    BY DEF Effect
  <2> QED BY <1>1, <1>4, <2>1, <2>2
<1> QED BY <1>3, <1>4

LEMMA CountSteps ==
  ASSUME RequestType, PageType, Counting, YtdCounts, NEW h \in Reader, PageNext(h)
  PROVE  Counting' /\ YtdCounts'
<1> USE DEF PageType
<1>1. UNCHANGED <<events, place>> /\ Settled' = Settled
  BY PageFrame DEF Settled
<1>2. \A a, D : CountedIn(a, D)' = CountedIn(a, D)
  BY <1>1, SameCount
<1>3. ASSUME UNCHANGED ytd PROVE YtdCounts'
  <2>1. \A x \in ytd' : (~x.overtaken /\ Settled') =>
          \A a \in Adjustment : x.total[a] = CountedIn(a, x.dates)'
    BY <1>1, <1>2, <1>3 DEF YtdCounts
  <2> QED BY <2>1 DEF YtdCounts
<1>4. CASE YtdBegins(h)
  <2>1. /\ UNCHANGED ytd /\ overtaken' = overtaken \ {h} /\ page[h] = "idle"
        /\ page' = [page EXCEPT ![h] = "year"]
        /\ load' = [load EXCEPT ![h].end = Max(DatesOf(facts))]
    BY <1>4 DEF YtdBegins, Begins
  <2>2. load'[h].total = load[h].total /\ \A k \in Reader \ {h} : load'[k] = load[k]
    BY <2>1 DEF Load
  <2> QED BY <1>1, <1>2, <1>3, <2>1, <2>2 DEF Counting
<1>5. CASE YtdLists(h)
  <2> DEFINE dates == DatesOf(UpTo(facts, load[h].end))
  <2>1. /\ page[h] = "year" /\ page' = [page EXCEPT ![h] = "year listed"]
        /\ load' = [load EXCEPT ![h].dates = dates, ![h].left = dates]
        /\ UNCHANGED <<ytd, overtaken>>
    BY <1>5 DEF YtdLists, cacheVars
  <2> HIDE DEF dates
  <2>2. /\ load'[h].dates = dates /\ load'[h].left = dates /\ load'[h].total = load[h].total
        /\ \A k \in Reader \ {h} : load'[k] = load[k]
    BY <2>1 DEF Load
  <2> QED BY <1>1, <1>2, <1>3, <2>1, <2>2 DEF Counting
<1>6. CASE YtdReads(h)
  <2> DEFINE rows == UpTo(facts, load[h].end)
  <2>1. /\ page[h] = "year listed" /\ page' = [page EXCEPT ![h] = "year read"]
        /\ load' = [load EXCEPT ![h].rows = rows] /\ UNCHANGED <<ytd, overtaken>>
    BY <1>6 DEF YtdReads, cacheVars
  <2> HIDE DEF rows
  <2>2. /\ load'[h].dates = load[h].dates /\ load'[h].left = load[h].left
        /\ load'[h].total = load[h].total /\ \A k \in Reader \ {h} : load'[k] = load[k]
    BY <2>1 DEF Load
  <2>3. load[h].total = None /\ load[h].left = load[h].dates
    BY <2>1 DEF Counting
  <2>4. \A a \in Adjustment :
          load'[h].total[a] = CountedIn(a, load'[h].dates \ load'[h].left)
    BY <2>2, <2>3 DEF None, CountedIn
  <2>5. ASSUME NEW k \in Reader \ {h}
        PROVE  page'[k] = page[k] /\ load'[k] = load[k]
    BY <2>1, <2>2
  <2>6. page'[h] = "year read"
    BY <2>1
  <2> QED BY <1>1, <1>2, <1>3, <2>1, <2>2, <2>3, <2>4, <2>5, <2>6 DEF Counting
<1>7. CASE Adjust(h)
  <2> DEFINE d == Min(load[h].left)
             x == load[h].left \ {d}
             y == Plus(load[h].total, Counted(d))
  <2>1. /\ load' = [load EXCEPT ![h].left = x, ![h].total = y]
        /\ UNCHANGED <<page, ytd, overtaken>> /\ page[h] \in {"year read", "adjusting"}
        /\ load[h].left # {}
    BY <1>7 DEF Adjust, cacheVars
  <2>2. load[h] \in Load /\ load[h].left \in SUBSET Date /\ load[h].dates \in SUBSET Date
        /\ load[h].total \in Effect
    BY DEF Load
  <2>3. d \in load[h].left
    BY <2>1, <2>2, MinHolds
  <2>4. (page[h] = "year read" /\ Settled /\ h \notin overtaken) =>
          \A a \in Adjustment : y[a] = CountedIn(a, load[h].dates \ x)
    <3> SUFFICES ASSUME page[h] = "year read", Settled, h \notin overtaken,
                        NEW a \in Adjustment
                 PROVE  y[a] = CountedIn(a, load[h].dates \ x)
      OBVIOUS
    <3>1. load[h].left \subseteq load[h].dates
          /\ \A c \in Adjustment :
               load[h].total[c] = CountedIn(c, load[h].dates \ load[h].left)
      BY DEF Counting
    <3> DEFINE D == load[h].dates \ load[h].left
    <3>2. d \notin D /\ load[h].dates \ x = D \cup {d}
      <4> HIDE DEF d
      <4> QED BY <2>3, <3>1
    <3>3. Plus(load[h].total, Counted(d))[a] = CountedIn(a, D \cup {d})
      <4>1. load[h].total[a] = CountedIn(a, D)
        BY <3>1
      <4> HIDE DEF D, d, x, y
      <4> QED BY <2>2, <3>2, <4>1, CountsOneMore
    <3> HIDE DEF D, d, x
    <3> QED BY <3>2, <3>3
  <2> HIDE DEF y
  <2>5. /\ load'[h].dates = load[h].dates /\ load'[h].left = x
        /\ load'[h].total = y /\ \A k \in Reader \ {h} : load'[k] = load[k]
    <3> HIDE DEF x
    <3> QED BY <2>1, <2>2 DEF Load
  <2>6. x \subseteq load[h].left
    OBVIOUS
  <2> HIDE DEF x, d
  <2> QED BY <1>1, <1>2, <1>3, <2>1, <2>4, <2>5, <2>6 DEF Counting
<1>8. CASE YtdStores(h)
  <2>1. /\ page[h] = "year read" /\ page' = [page EXCEPT ![h] = "answered"]
        /\ load[h].left = {} /\ UNCHANGED <<load, overtaken>>
        /\ \A x \in ytd' : x \in ytd \/ x = YtdAnswer(h)
    BY <1>8 DEF YtdStores
  <2>2. Counting'
    BY <1>1, <1>2, <2>1 DEF Counting
  <2>3. (~YtdAnswer(h).overtaken /\ Settled) => \A a \in Adjustment :
          YtdAnswer(h).total[a] = CountedIn(a, YtdAnswer(h).dates)
    <3>1. /\ YtdAnswer(h).overtaken = (h \in overtaken) /\ YtdAnswer(h).dates = load[h].dates
          /\ YtdAnswer(h).total = load[h].total
      BY DEF YtdAnswer
    <3>2. load[h].dates \ load[h].left = load[h].dates
      BY <2>1
    <3> QED BY <2>1, <3>1, <3>2 DEF Counting
  <2>4. \A x \in ytd' : (~x.overtaken /\ Settled') =>
          \A a \in Adjustment : x.total[a] = CountedIn(a, x.dates)'
    BY <1>1, <1>2, <2>1, <2>3 DEF YtdCounts
  <2> QED BY <2>2, <2>4 DEF YtdCounts
<1>9. CASE \/ PeriodBegins(h) \/ PeriodChecks(h) \/ PeriodFinds(h) \/ PeriodMatches(h)
           \/ PeriodLists(h) \/ PeriodReads(h) \/ PeriodStores(h) \/ PeriodAnswers(h) \/ Fails(h)
  <2>1. /\ UNCHANGED <<ytd, overtaken>>
        /\ page'[h] \notin {"idle", "year", "year listed", "year read"}
        /\ \A k \in Reader \ {h} : page'[k] = page[k] /\ load'[k] = load[k]
    BY <1>9 DEF PeriodBegins, Begins, PeriodChecks, PeriodFinds, PeriodMatches, PeriodLists,
       PeriodReads, PeriodStores, PeriodAnswers, Fails, Served, cacheVars
  <2> QED BY <1>1, <1>2, <1>3, <2>1 DEF Counting
<1> QED BY <1>4, <1>5, <1>6, <1>7, <1>8, <1>9 DEF PageNext

\* A step that neither loads nor appends: the cache is as it was or was cleared.
LEMMA CountKept ==
  ASSUME Counting, YtdCounts, UNCHANGED <<events, page, load>>, Settled' => Settled,
         \/ ytd' = {} /\ overtaken' = Reader
         \/ UNCHANGED <<ytd, overtaken>>
  PROVE  Counting' /\ YtdCounts'
<1>1. \A a, D : CountedIn(a, D)' = CountedIn(a, D)
  BY SameCount
<1>2. Counting'
  BY <1>1 DEF Counting
<1>3. \A x \in ytd' : (~x.overtaken /\ Settled') =>
        \A a \in Adjustment : x.total[a] = CountedIn(a, x.dates)'
  BY <1>1 DEF YtdCounts
<1> QED BY <1>2, <1>3 DEF YtdCounts

\* An event that was appended is counted once the caches are cleared.
LEMMA CountRequestSteps ==
  ASSUME RequestType, Counting, YtdCounts, NEW q \in Request, RequestNext(q)
  PROVE  Counting' /\ YtdCounts'
<1>1. UNCHANGED <<page, load>>
  BY RequestFrame DEF pageVars
<1>2. CASE AppendEvent(q)
  <2>1. ~Settled' /\ UNCHANGED <<ytd, overtaken>>
    BY <1>2 DEF AppendEvent, Settled, RequestType, cacheVars
  <2>2. Counting'
    BY <1>1, <2>1 DEF Counting
  <2> QED BY <2>1, <2>2 DEF YtdCounts
<1>3. CASE ClearCaches(q)
  <2>1. ytd' = {} /\ overtaken' = Reader
    BY <1>3 DEF ClearCaches, ClearYtd
  <2>2. Counting'
    BY <1>1, <2>1 DEF Counting
  <2> QED BY <2>1, <2>2 DEF YtdCounts
<1>4. CASE ~AppendEvent(q) /\ ~ClearCaches(q)
  <2>1. UNCHANGED <<events, ytd, overtaken>> /\ \E to \in {"answered", "composed", "stamped"} :
          place' = [place EXCEPT ![q] = to] /\ place[q] # "appended"
    BY <1>4 DEF RequestNext, Create, Edit, Approve, Revoke, Restore, Unknown, Compose, Return,
       Stamp, cacheVars
  <2>2. Settled' => Settled
    BY <2>1 DEF Settled, RequestType
  <2> QED BY <1>1, <2>1, <2>2, CountKept
<1> QED BY <1>2, <1>3, <1>4

\* A year to date in the cache counts each adjustment once, as the stream does now,
\* unless a clear overtook its load, for any requests, users, runs and readers.
THEOREM CachedYtdCountsHolds == Spec => []CachedYtdCountsUnlessOvertaken
<1>1. Init => Counting /\ YtdCounts
  <2> SUFFICES ASSUME Init PROVE Counting /\ YtdCounts
    OBVIOUS
  <2>1. ytd = {} /\ \A h \in Reader : page[h] \in {"idle", "failed"} /\ load[h] = NoLoad
    BY DEF Init
  <2>2. NoLoad.total = None
    BY DEF NoLoad
  <2> QED BY <2>1, <2>2 DEF Counting, YtdCounts
<1>2. Inv /\ Counting /\ YtdCounts /\ [Next]_vars => (Counting /\ YtdCounts)'
  <2> SUFFICES ASSUME Inv, Counting, YtdCounts, [Next]_vars
               PROVE  (Counting /\ YtdCounts)'
    OBVIOUS
  <2>1. CASE UNCHANGED vars
    BY <2>1, CountKept DEF vars, requestVars, pageVars, cacheVars, Settled
  <2>2. ASSUME NEW b \in Run, RunNext(b)
        PROVE  (Counting /\ YtdCounts)'
    <3>1. UNCHANGED <<events, place, page, load>>
      BY <2>2, RunFrame
    <3>2. \/ ytd' = {} /\ overtaken' = Reader
          \/ UNCHANGED <<ytd, overtaken>>
      BY <2>2 DEF RunNext, Ask, AppendRunning, Acquire, CommitFacts, PrecomputeReads,
         PrecomputeMarks, PrecomputeStores, PrecomputeDrops, ClearPageCaches, ClearYtd,
         AppendCompleted,
         RunFails, AppendRaises, Interrupt, cacheVars
    <3> QED BY <3>1, <3>2, CountKept DEF Settled
  <2> QED BY <2>1, <2>2, CountSteps, CountRequestSteps DEF Next, Inv
<1>3. YtdCounts => CachedYtdCountsUnlessOvertaken
  BY DEF YtdCounts, CachedYtdCountsUnlessOvertaken, Settled, CountedIn
<1> QED BY <1>1, <1>2, <1>3, Invariance, PTL DEF Spec
=============================================================================
