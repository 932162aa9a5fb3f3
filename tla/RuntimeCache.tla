---------------------------- MODULE RuntimeCache ----------------------------
(***************************************************************************)
(* InMemoryTTLCache (backend/app/services/runtime_cache.py), behind the    *)
(* dashboard, executive and market services.  Of the concurrent calls of   *)
(* get_or_set for one key one runs the producer and the others wait for    *)
(* it, then look again.  An invalidation that overtakes a running producer *)
(* must not be undone by what the producer writes back: every invalidation *)
(* moves the generation, and the producer writes only into its own.        *)
(*                                                                         *)
(* A value is the version of the data the producer read.  The floor of a   *)
(* key is the version the data had when the key was last invalidated.      *)
(* An expired entry is as good as absent: the first to look removes it.    *)
(***************************************************************************)
EXTENDS Naturals

CONSTANTS
  Call,           \* calls of get_or_set, each by a thread of its own
  Key,            \* cache keys
  KeyOf,          \* the key of each call
  MaxVersion,     \* bound: changes of the data behind the cache
  MaxGeneration,  \* bound: invalidations
  Faults,         \* the failures that may happen, a subset of FaultKind
  None            \* no entry, no producer

FaultKind == {"raise", "interrupt"}

ASSUME KeyOfAssumption == KeyOf \in [Call -> Key]
ASSUME NoneAssumption == None \notin Call /\ None \notin Nat
ASSUME BoundAssumption == MaxVersion \in Nat /\ MaxGeneration \in Nat

VARIABLES
  source,      \* version of the data behind the cache
  store,       \* _store
  inflight,    \* _inflight: the call whose Event stands for the key
  generation,  \* _generation
  pc,          \* where each call is
  began,       \* producer_generation of each call
  awaited,     \* the call whose Event each call waits for
  value,       \* what each call's producer read, or the call returned
  floor,       \* history: version at the last invalidation of each key
  need         \* history: the floor of its key when each call began

vars ==
  <<source, store, inflight, generation, pc, began, awaited, value, floor, need>>

Producing == {"producing", "produced"}
Ended == {"returned", "raised"}
Place == {"idle", "looking", "waiting", "interrupted"} \cup Producing \cup Ended

Init ==
  /\ source = 0
  /\ store = [k \in Key |-> None]
  /\ inflight = [k \in Key |-> None]
  /\ generation = 0
  /\ pc = [c \in Call |-> "idle"]
  /\ began = [c \in Call |-> 0]
  /\ awaited = [c \in Call |-> None]
  /\ value = [c \in Call |-> 0]
  /\ floor = [k \in Key |-> 0]
  /\ need = [c \in Call |-> 0]

-----------------------------------------------------------------------------
Goto(c, from, to) ==
  /\ pc[c] = from
  /\ pc' = [pc EXCEPT ![c] = to]

\* A refresh commits new data; it invalidates the cache afterwards, if at all.
ChangeSource ==
  /\ source < MaxVersion
  /\ source' = source + 1
  /\ UNCHANGED <<store, inflight, generation, pc, began, awaited, value, floor, need>>

Begin(c) ==
  /\ Goto(c, "idle", "looking")
  /\ need' = [need EXCEPT ![c] = floor[KeyOf[c]]]
  /\ UNCHANGED <<source, store, inflight, generation, began, awaited, value, floor>>

Hit(c) ==
  /\ store[KeyOf[c]] # None
  /\ Goto(c, "looking", "returned")
  /\ value' = [value EXCEPT ![c] = store[KeyOf[c]]]
  /\ UNCHANGED <<source, store, inflight, generation, began, awaited, floor, need>>

\* Mutant: a miss does not look for a producer at work.
LeadAnyway(c) ==
  /\ store[KeyOf[c]] = None
  /\ Goto(c, "looking", "producing")
  /\ inflight' = [inflight EXCEPT ![KeyOf[c]] = c]
  /\ began' = [began EXCEPT ![c] = generation]
  /\ UNCHANGED <<source, store, generation, awaited, value, floor, need>>

Lead(c) ==
  /\ store[KeyOf[c]] = None
  /\ inflight[KeyOf[c]] = None
  /\ Goto(c, "looking", "producing")
  /\ inflight' = [inflight EXCEPT ![KeyOf[c]] = c]
  /\ began' = [began EXCEPT ![c] = generation]
  /\ UNCHANGED <<source, store, generation, awaited, value, floor, need>>

Wait(c) ==
  /\ store[KeyOf[c]] = None
  /\ inflight[KeyOf[c]] # None
  /\ Goto(c, "looking", "waiting")
  /\ awaited' = [awaited EXCEPT ![c] = inflight[KeyOf[c]]]
  /\ UNCHANGED <<source, store, inflight, generation, began, value, floor, need>>

\* The Event is set by a producer that returns or raises.  The waiter looks
\* again, it does not take over the producer's value.
Wake(c) ==
  /\ awaited[c] # None
  /\ pc[awaited[c]] \in Ended
  /\ Goto(c, "waiting", "looking")
  /\ awaited' = [awaited EXCEPT ![c] = None]
  /\ UNCHANGED <<source, store, inflight, generation, began, value, floor, need>>

Produce(c) ==
  /\ Goto(c, "producing", "produced")
  /\ value' = [value EXCEPT ![c] = source]
  /\ UNCHANGED <<source, store, inflight, generation, began, awaited, floor, need>>

\* Mutant: a producer that raises leaves its Event behind.
ProducerRaisesSilently(c) ==
  /\ "raise" \in Faults
  /\ Goto(c, "producing", "raised")
  /\ UNCHANGED <<source, store, inflight, generation, began, awaited, value, floor, need>>

ProducerRaises(c) ==
  /\ "raise" \in Faults
  /\ Goto(c, "producing", "raised")
  /\ inflight' = [inflight EXCEPT ![KeyOf[c]] = None]
  /\ UNCHANGED <<source, store, generation, began, awaited, value, floor, need>>

\* A BaseException passes `except Exception`: the Event is never set.
ProducerInterrupted(c) ==
  /\ "interrupt" \in Faults
  /\ Goto(c, "producing", "interrupted")
  /\ UNCHANGED <<source, store, inflight, generation, began, awaited, value, floor, need>>

\* Mutant: the generation is not compared.
WriteBackAlways(c) ==
  /\ Goto(c, "produced", "returned")
  /\ store' = [store EXCEPT ![KeyOf[c]] = value[c]]
  /\ inflight' = [inflight EXCEPT ![KeyOf[c]] = None]
  /\ UNCHANGED <<source, generation, began, awaited, value, floor, need>>

WriteBack(c) ==
  /\ Goto(c, "produced", "returned")
  /\ store' = IF generation = began[c]
              THEN [store EXCEPT ![KeyOf[c]] = value[c]] ELSE store
  /\ inflight' = [inflight EXCEPT ![KeyOf[c]] = None]
  /\ UNCHANGED <<source, generation, began, awaited, value, floor, need>>

\* The time to live of an entry is over.
Expire(k) ==
  /\ store[k] # None
  /\ store' = [store EXCEPT ![k] = None]
  /\ UNCHANGED <<source, inflight, generation, pc, began, awaited, value, floor, need>>

\* The entries of K go and their floor rises.
Drop(K) ==
  /\ store' = [k \in Key |-> IF k \in K THEN None ELSE store[k]]
  /\ floor' = [k \in Key |-> IF k \in K THEN source ELSE floor[k]]
  /\ UNCHANGED <<source, inflight, pc, began, awaited, value, need>>

\* invalidate and clear move the generation in any case.
Invalidate(K) ==
  /\ generation < MaxGeneration
  /\ generation' = generation + 1
  /\ Drop(K)

\* Mutant: only stored entries count as invalidated.
InvalidateMatchingStored(K) ==
  /\ generation < MaxGeneration
  /\ generation' = IF \E k \in K : store[k] # None THEN generation + 1 ELSE generation
  /\ Drop(K)

\* invalidate_matching moves it if an entry or a producer matches.
InvalidateMatching(K) ==
  /\ generation < MaxGeneration
  /\ generation' = IF \E k \in K : store[k] # None \/ inflight[k] # None
                   THEN generation + 1 ELSE generation
  /\ Drop(K)

GetOrSet(c) ==
  \/ Hit(c) \/ Lead(c) \/ Wait(c) \/ Wake(c)
  \/ Produce(c) \/ ProducerRaises(c) \/ ProducerInterrupted(c) \/ WriteBack(c)

Next ==
  \/ ChangeSource
  \/ \E c \in Call : Begin(c) \/ GetOrSet(c)
  \/ \E k \in Key : Expire(k) \/ Invalidate({k})
  \/ Invalidate(Key)
  \/ \E K \in SUBSET Key : InvalidateMatching(K)

Spec == Init /\ [][Next]_vars

\* Threads that entered the cache run.
FairSpec == Spec /\ \A c \in Call : WF_vars(GetOrSet(c))
-----------------------------------------------------------------------------
(***************************************************************************)
(* Properties                                                              *)
(***************************************************************************)
\* Every variable keeps its type.
TypeOK ==
  /\ source \in Nat
  /\ store \in [Key -> Nat \cup {None}]
  /\ inflight \in [Key -> Call \cup {None}]
  /\ generation \in Nat
  /\ pc \in [Call -> Place]
  /\ began \in [Call -> Nat]
  /\ awaited \in [Call -> Call \cup {None}]
  /\ value \in [Call -> Nat]
  /\ floor \in [Key -> Nat]
  /\ need \in [Call -> Nat]

\* No write-back undoes an invalidation: what is stored was read after the key
\* was last invalidated, whichever of the three ways it was invalidated.
FreshStore == \A k \in Key : store[k] # None => store[k] >= floor[k]

\* A call that begins after an invalidation is never answered with data from
\* before it, not even by a producer that was running at the time.
FreshAnswers == \A c \in Call : pc[c] = "returned" => value[c] >= need[c]

\* Concurrent calls of a key share one producer.
SingleFlight ==
  \A c, d \in Call :
    (pc[c] \in Producing /\ pc[d] \in Producing /\ KeyOf[c] = KeyOf[d]) => c = d

\* Every call that looks ends: waiters outlive producers that raise, entries
\* that expire and invalidations.  Only a producer of the key that was
\* interrupted, by what is no Exception, keeps calls waiting for ever.
CallsEndUnlessInterrupted ==
  \A c \in Call : (pc[c] = "looking") ~>
    \/ pc[c] \in Ended
    \/ \E d \in Call : pc[d] = "interrupted" /\ KeyOf[d] = KeyOf[c]
=============================================================================
