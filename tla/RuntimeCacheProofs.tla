------------------------- MODULE RuntimeCacheProofs -------------------------
(***************************************************************************)
(* Proofs about RuntimeCache for any calls, keys and bounds.  The argument *)
(* for FreshStore: while a producer runs its Event stands for the key      *)
(* (InflightInv), so an invalidation that overtakes it moves the           *)
(* generation past the one it began in (BeganInv); if it has not moved,    *)
(* what was read is no older than the floor of the key (ProducedInv).      *)
(***************************************************************************)
EXTENDS RuntimeCache, TLAPS

\* A producer's Event stands for its key.
InflightInv == \A c \in Call : pc[c] \in Producing => inflight[KeyOf[c]] = c

\* No producer began in a generation to come.
BeganInv == \A c \in Call : began[c] <= generation

\* The history: no key was invalidated at a version to come, and no call
\* needs more than its key was invalidated at.
HistoryInv ==
  /\ \A k \in Key : floor[k] <= source
  /\ \A c \in Call : need[c] <= floor[KeyOf[c]]

\* What a producer of the present generation has read may be stored, and what
\* any producer has read may be returned.
ProducedInv ==
  \A c \in Call : pc[c] = "produced" =>
    /\ began[c] = generation => value[c] >= floor[KeyOf[c]]
    /\ value[c] >= need[c]

IInv ==
  /\ TypeOK
  /\ InflightInv
  /\ BeganInv
  /\ HistoryInv
  /\ ProducedInv
  /\ FreshStore
  /\ FreshAnswers

\* The three ways of invalidating, by what they do to the generation.
Invalidation(K) ==
  /\ Drop(K)
  /\ \/ generation' = generation + 1
     \/ /\ generation' = generation
        /\ \A k \in K : store[k] = None /\ inflight[k] = None

LEMMA InvalidationCases ==
  ASSUME NEW K, Invalidate(K) \/ InvalidateMatching(K)
  PROVE  Invalidation(K)
BY DEF Invalidate, InvalidateMatching, Invalidation

\* The steps a proof has to look at one by one.
LEMMA NextCases ==
  ASSUME Next
  PROVE  \/ ChangeSource
         \/ \E c \in Call :
              \/ Begin(c) \/ Hit(c) \/ Lead(c) \/ Wait(c) \/ Wake(c) \/ Produce(c)
              \/ ProducerRaises(c) \/ ProducerInterrupted(c) \/ WriteBack(c)
         \/ \E k \in Key : Expire(k)
         \/ \E K \in SUBSET Key : Invalidation(K)
<1>1. ASSUME NEW k \in Key, Invalidate({k})
      PROVE  \E K \in SUBSET Key : Invalidation(K)
  <2>1. {k} \in SUBSET Key
    OBVIOUS
  <2>. QED
    BY <1>1, <2>1, InvalidationCases
<1>2. ASSUME Invalidate(Key)
      PROVE  \E K \in SUBSET Key : Invalidation(K)
  BY <1>2, InvalidationCases
<1>3. ASSUME NEW K \in SUBSET Key, InvalidateMatching(K)
      PROVE  \E L \in SUBSET Key : Invalidation(L)
  BY <1>3, InvalidationCases
<1>. QED
  BY <1>1, <1>2, <1>3 DEF Next, GetOrSet

-----------------------------------------------------------------------------
LEMMA InitInv == Init => IInv
BY NoneAssumption, KeyOfAssumption
   DEF Init, IInv, TypeOK, InflightInv, BeganInv, HistoryInv, ProducedInv,
       FreshStore, FreshAnswers, Place, Producing, Ended

\* Every step keeps the types.
LEMMA StepType ==
  ASSUME TypeOK, [Next]_vars
  PROVE  TypeOK'
<1>. USE KeyOfAssumption, NoneAssumption DEF TypeOK, Place, Producing, Ended, Goto
<1>1. CASE UNCHANGED vars
  BY <1>1 DEF vars
<1>2. CASE ChangeSource
  BY <1>2 DEF ChangeSource
<1>3. ASSUME NEW c \in Call, Begin(c) \/ Lead(c) \/ Produce(c)
      PROVE  TypeOK'
  BY <1>3 DEF Begin, Lead, Produce
<1>4. ASSUME NEW c \in Call, Hit(c)
      PROVE  TypeOK'
  <2>1. store[KeyOf[c]] \in Nat
    BY <1>4 DEF Hit
  <2>. QED
    BY <1>4, <2>1 DEF Hit
<1>5. ASSUME NEW c \in Call, Wait(c) \/ Wake(c) \/ ProducerRaises(c) \/ ProducerInterrupted(c)
      PROVE  TypeOK'
  BY <1>5 DEF Wait, Wake, ProducerRaises, ProducerInterrupted
<1>6. ASSUME NEW c \in Call, WriteBack(c)
      PROVE  TypeOK'
  BY <1>6 DEF WriteBack
<1>7. ASSUME NEW k \in Key, Expire(k)
      PROVE  TypeOK'
  BY <1>7 DEF Expire
<1>8. ASSUME NEW K \in SUBSET Key, Invalidation(K)
      PROVE  TypeOK'
  BY <1>8 DEF Invalidation, Drop
<1>. QED
  BY <1>1, <1>2, <1>3, <1>4, <1>5, <1>6, <1>7, <1>8, NextCases

\* The Event of a producer stands until the producer has ended.
LEMMA StepInflight ==
  ASSUME TypeOK, InflightInv, [Next]_vars
  PROVE  InflightInv'
<1>. USE KeyOfAssumption, NoneAssumption DEF TypeOK, InflightInv, Producing, Goto
<1>1. CASE UNCHANGED vars
  BY <1>1 DEF vars
<1>2. CASE ChangeSource
  BY <1>2 DEF ChangeSource
<1>3. ASSUME NEW c \in Call, Begin(c) \/ Hit(c) \/ Wait(c) \/ Wake(c) \/ ProducerInterrupted(c)
      PROVE  InflightInv'
  BY <1>3 DEF Begin, Hit, Wait, Wake, ProducerInterrupted
<1>4. ASSUME NEW c \in Call, Lead(c) \/ Produce(c)
      PROVE  InflightInv'
  BY <1>4 DEF Lead, Produce
<1>5. ASSUME NEW c \in Call, ProducerRaises(c) \/ WriteBack(c)
      PROVE  InflightInv'
  BY <1>5 DEF ProducerRaises, WriteBack
<1>6. ASSUME NEW k \in Key, Expire(k)
      PROVE  InflightInv'
  BY <1>6 DEF Expire
<1>7. ASSUME NEW K \in SUBSET Key, Invalidation(K)
      PROVE  InflightInv'
  BY <1>7 DEF Invalidation, Drop
<1>. QED
  BY <1>1, <1>2, <1>3, <1>4, <1>5, <1>6, <1>7, NextCases

LEMMA StepBegan ==
  ASSUME TypeOK, BeganInv, [Next]_vars
  PROVE  BeganInv'
<1>. USE DEF TypeOK, BeganInv
<1>1. CASE UNCHANGED vars
  BY <1>1 DEF vars
<1>2. ASSUME NEW c \in Call, Lead(c)
      PROVE  BeganInv'
  BY <1>2 DEF Lead
<1>3. ASSUME NEW K \in SUBSET Key, Invalidation(K)
      PROVE  BeganInv'
  BY <1>3 DEF Invalidation, Drop
<1>4. ASSUME UNCHANGED <<began, generation>>
      PROVE  BeganInv'
  BY <1>4
<1>. QED
  BY <1>1, <1>2, <1>3, <1>4, NextCases
     DEF ChangeSource, Begin, Hit, Wait, Wake, Produce, ProducerRaises,
         ProducerInterrupted, WriteBack, Expire

LEMMA StepHistory ==
  ASSUME TypeOK, HistoryInv, [Next]_vars
  PROVE  HistoryInv'
<1>. USE KeyOfAssumption DEF TypeOK, HistoryInv
<1>1. CASE UNCHANGED vars
  BY <1>1 DEF vars
<1>2. CASE ChangeSource
  BY <1>2 DEF ChangeSource
<1>3. ASSUME NEW c \in Call, Begin(c)
      PROVE  HistoryInv'
  BY <1>3 DEF Begin
<1>4. ASSUME NEW K \in SUBSET Key, Invalidation(K)
      PROVE  HistoryInv'
  <2>1. \A k \in Key : floor'[k] \in {floor[k], source}
    BY <1>4 DEF Invalidation, Drop
  <2>2. \A k \in Key : floor[k] <= floor'[k] /\ floor'[k] <= source
    BY <2>1
  <2>3. UNCHANGED <<source, need>>
    BY <1>4 DEF Invalidation, Drop
  <2>. QED
    <3>1. \A c \in Call : need[c] <= floor'[KeyOf[c]]
      <4>1. TAKE c \in Call
      <4>2. floor'[KeyOf[c]] \in Nat
        BY <2>1
      <4>. QED
        BY <2>2, <4>2
    <3>. QED
      BY <2>2, <2>3, <3>1
<1>5. ASSUME UNCHANGED <<source, floor, need>>
      PROVE  HistoryInv'
  BY <1>5
<1>. QED
  BY <1>1, <1>2, <1>3, <1>4, <1>5, NextCases
     DEF Hit, Lead, Wait, Wake, Produce, ProducerRaises, ProducerInterrupted,
         WriteBack, Expire

-----------------------------------------------------------------------------
\* The heart of the matter: an invalidation that leaves the generation where
\* it is has met no producer of its keys.
LEMMA StepProduced ==
  ASSUME TypeOK, InflightInv, BeganInv, HistoryInv, ProducedInv, [Next]_vars
  PROVE  ProducedInv'
<1>. USE KeyOfAssumption, NoneAssumption DEF TypeOK, ProducedInv, Goto
<1>1. CASE UNCHANGED vars
  BY <1>1 DEF vars
<1>2. CASE ChangeSource
  BY <1>2 DEF ChangeSource
<1>3. ASSUME NEW c \in Call, Begin(c)
      PROVE  ProducedInv'
  BY <1>3 DEF Begin
<1>4. ASSUME NEW c \in Call, Hit(c) \/ Lead(c)
      PROVE  ProducedInv'
  BY <1>4 DEF Hit, Lead
<1>5. ASSUME NEW c \in Call,
             Wait(c) \/ Wake(c) \/ ProducerRaises(c) \/ ProducerInterrupted(c) \/ WriteBack(c)
      PROVE  ProducedInv'
  BY <1>5 DEF Wait, Wake, ProducerRaises, ProducerInterrupted, WriteBack
<1>6. ASSUME NEW c \in Call, Produce(c)
      PROVE  ProducedInv'
  <2>1. source >= floor[KeyOf[c]] /\ source >= need[c]
    BY DEF HistoryInv
  <2>. QED
    BY <1>6, <2>1 DEF Produce
<1>7. ASSUME NEW k \in Key, Expire(k)
      PROVE  ProducedInv'
  BY <1>7 DEF Expire
<1>8. ASSUME NEW K \in SUBSET Key, Invalidation(K)
      PROVE  ProducedInv'
  <2>. SUFFICES ASSUME NEW c \in Call, pc[c] = "produced"
                PROVE  /\ began[c] = generation' => value[c] >= floor'[KeyOf[c]]
                       /\ value[c] >= need[c]
    BY <1>8 DEF Invalidation, Drop
  <2>1. CASE generation' = generation + 1
    <3>1. began[c] # generation'
      BY <2>1 DEF BeganInv
    <3>. QED
      BY <3>1
  <2>2. CASE generation' = generation /\ \A k \in K : inflight[k] = None
    <3>1. inflight[KeyOf[c]] = c /\ c # None
      BY DEF InflightInv, Producing
    <3>2. floor'[KeyOf[c]] = floor[KeyOf[c]]
      BY <1>8, <2>2, <3>1 DEF Invalidation, Drop
    <3>. QED
      BY <2>2, <3>2
  <2>. QED
    BY <1>8, <2>1, <2>2 DEF Invalidation
<1>. QED
  BY <1>1, <1>2, <1>3, <1>4, <1>5, <1>6, <1>7, <1>8, NextCases

LEMMA StepStore ==
  ASSUME TypeOK, ProducedInv, FreshStore, [Next]_vars
  PROVE  FreshStore'
<1>. USE KeyOfAssumption, NoneAssumption DEF TypeOK, FreshStore
<1>1. CASE UNCHANGED vars
  BY <1>1 DEF vars
<1>2. ASSUME NEW c \in Call, WriteBack(c)
      PROVE  FreshStore'
  <2>1. CASE generation = began[c]
    <3>1. value[c] >= floor[KeyOf[c]]
      BY <1>2, <2>1 DEF WriteBack, Goto, ProducedInv
    <3>. QED
      BY <1>2, <2>1, <3>1 DEF WriteBack
  <2>2. CASE generation # began[c]
    BY <1>2, <2>2 DEF WriteBack
  <2>. QED
    BY <2>1, <2>2
<1>3. ASSUME NEW k \in Key, Expire(k)
      PROVE  FreshStore'
  BY <1>3 DEF Expire
<1>4. ASSUME NEW K \in SUBSET Key, Invalidation(K)
      PROVE  FreshStore'
  BY <1>4 DEF Invalidation, Drop
<1>5. ASSUME UNCHANGED <<store, floor>>
      PROVE  FreshStore'
  BY <1>5
<1>. QED
  BY <1>1, <1>2, <1>3, <1>4, <1>5, NextCases
     DEF ChangeSource, Begin, Hit, Lead, Wait, Wake, Produce, ProducerRaises,
         ProducerInterrupted

LEMMA StepAnswers ==
  ASSUME TypeOK, HistoryInv, ProducedInv, FreshStore, FreshAnswers, [Next]_vars
  PROVE  FreshAnswers'
<1>. USE KeyOfAssumption, NoneAssumption DEF TypeOK, FreshAnswers, Goto
<1>1. CASE UNCHANGED vars
  BY <1>1 DEF vars
<1>2. ASSUME NEW c \in Call, Begin(c) \/ Lead(c) \/ Produce(c)
      PROVE  FreshAnswers'
  BY <1>2 DEF Begin, Lead, Produce
<1>3. ASSUME NEW c \in Call, Hit(c)
      PROVE  FreshAnswers'
  <2>1. store[KeyOf[c]] \in Nat /\ store[KeyOf[c]] >= floor[KeyOf[c]]
    BY <1>3 DEF Hit, FreshStore
  <2>2. store[KeyOf[c]] >= need[c]
    BY <2>1 DEF HistoryInv
  <2>. QED
    BY <1>3, <2>2 DEF Hit
<1>4. ASSUME NEW c \in Call, Wait(c) \/ Wake(c) \/ ProducerRaises(c) \/ ProducerInterrupted(c)
      PROVE  FreshAnswers'
  BY <1>4 DEF Wait, Wake, ProducerRaises, ProducerInterrupted
<1>5. ASSUME NEW c \in Call, WriteBack(c)
      PROVE  FreshAnswers'
  BY <1>5 DEF WriteBack, ProducedInv
<1>6. ASSUME UNCHANGED <<pc, value, need>>
      PROVE  FreshAnswers'
  BY <1>6
<1>. QED
  BY <1>1, <1>2, <1>3, <1>4, <1>5, <1>6, NextCases
     DEF ChangeSource, Expire, Invalidation, Drop

-----------------------------------------------------------------------------
LEMMA StepInv ==
  ASSUME IInv, [Next]_vars
  PROVE  IInv'
BY StepType, StepInflight, StepBegan, StepHistory, StepProduced, StepStore, StepAnswers
   DEF IInv

LEMMA InvHolds == Spec => []IInv
BY InitInv, StepInv, PTL DEF Spec

\* Every variable of the cache keeps its type.
THEOREM TypeCorrect == Spec => []TypeOK
BY InvHolds, PTL DEF IInv

\* No write-back of get_or_set undoes an invalidation of its key.
THEOREM FreshStoreHolds == Spec => []FreshStore
BY InvHolds, PTL DEF IInv

\* get_or_set never answers with data from before an invalidation it follows.
THEOREM FreshAnswersHolds == Spec => []FreshAnswers
BY InvHolds, PTL DEF IInv

\* Of the concurrent calls of get_or_set for a key one runs its producer.
THEOREM SingleFlightHolds == Spec => []SingleFlight
<1>1. IInv => SingleFlight
  BY DEF IInv, InflightInv, SingleFlight
<1>. QED
  BY <1>1, InvHolds, PTL
=============================================================================
