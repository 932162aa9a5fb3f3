--------------------------- MODULE ResponseCache ---------------------------
(***************************************************************************)
(* TTLResponseCache (backend/app/api/response_cache.py), in front of the   *)
(* market-home and macro read routes.  Of the concurrent calls of          *)
(* get_or_build for one key the first builds and the others take over its  *)
(* value or its error.  An invalidation clears what is stored and does not *)
(* know of builds at work: what they bring back is stored all the same.    *)
(*                                                                         *)
(* A value is the version of the data the builder read, as in              *)
(* RuntimeCache; an expired entry is as good as absent.                    *)
(***************************************************************************)
EXTENDS Naturals

CONSTANTS
  Call,           \* calls of get_or_build, each by a thread of its own
  Key,            \* cache keys
  KeyOf,          \* the key of each call
  Uncached,       \* the calls with ttl_seconds <= 0
  MaxVersion,     \* bound: changes of the data behind the cache
  None            \* no entry, no build

ASSUME KeyOfAssumption == KeyOf \in [Call -> Key] /\ Uncached \subseteq Call
ASSUME NoneAssumption == None \notin Call /\ None \notin Nat
ASSUME BoundAssumption == MaxVersion \in Nat

VARIABLES
  source,      \* version of the data behind the cache
  store,       \* _store
  inflight,    \* _inflight: the call whose _InFlightBuild stands for the key
  pc,          \* where each call is
  awaited,     \* the call whose build each call waits for
  value,       \* what each call's builder read, or the call returned
  floor,       \* history: version at the last invalidation of each key
  need,        \* history: the floor of its key when each call began
  overtaken    \* history: the calls during whose build the key was invalidated

vars ==
  <<source, store, inflight, pc, awaited, value, floor, need, overtaken>>

Building == {"building", "built"}
Ended == {"returned", "raised"}
Place == {"idle", "looking", "waiting", "direct"} \cup Building \cup Ended

Init ==
  /\ source = 0
  /\ store = [k \in Key |-> None]
  /\ inflight = [k \in Key |-> None]
  /\ pc = [c \in Call |-> "idle"]
  /\ awaited = [c \in Call |-> None]
  /\ value = [c \in Call |-> 0]
  /\ floor = [k \in Key |-> 0]
  /\ need = [c \in Call |-> 0]
  /\ overtaken = {}

-----------------------------------------------------------------------------
Goto(c, from, to) ==
  /\ pc[c] = from
  /\ pc' = [pc EXCEPT ![c] = to]

\* A refresh commits new data; the route invalidates afterwards.
ChangeSource ==
  /\ source < MaxVersion
  /\ source' = source + 1
  /\ UNCHANGED <<store, inflight, pc, awaited, value, floor, need, overtaken>>

Begin(c) ==
  /\ Goto(c, "idle", IF c \in Uncached THEN "direct" ELSE "looking")
  /\ need' = [need EXCEPT ![c] = floor[KeyOf[c]]]
  /\ UNCHANGED <<source, store, inflight, awaited, value, floor, overtaken>>

\* Without a time to live the builder runs beside the cache.
BuildDirect(c) ==
  /\ \/ /\ Goto(c, "direct", "returned")
        /\ value' = [value EXCEPT ![c] = source]
     \/ /\ Goto(c, "direct", "raised")
        /\ UNCHANGED value
  /\ UNCHANGED <<source, store, inflight, awaited, floor, need, overtaken>>

Hit(c) ==
  /\ store[KeyOf[c]] # None
  /\ Goto(c, "looking", "returned")
  /\ value' = [value EXCEPT ![c] = store[KeyOf[c]]]
  /\ UNCHANGED <<source, store, inflight, awaited, floor, need, overtaken>>

Lead(c) ==
  /\ store[KeyOf[c]] = None
  /\ inflight[KeyOf[c]] = None
  /\ Goto(c, "looking", "building")
  /\ inflight' = [inflight EXCEPT ![KeyOf[c]] = c]
  /\ UNCHANGED <<source, store, awaited, value, floor, need, overtaken>>

Wait(c) ==
  /\ store[KeyOf[c]] = None
  /\ inflight[KeyOf[c]] # None
  /\ Goto(c, "looking", "waiting")
  /\ awaited' = [awaited EXCEPT ![c] = inflight[KeyOf[c]]]
  /\ UNCHANGED <<source, store, inflight, value, floor, need, overtaken>>

\* Mutant: the waiter reads the cache again instead of the build.
TakeOverStored(c) ==
  /\ awaited[c] # None
  /\ pc[awaited[c]] \in Ended
  /\ store[KeyOf[c]] # None
  /\ Goto(c, "waiting", "returned")
  /\ value' = [value EXCEPT ![c] = store[KeyOf[c]]]
  /\ UNCHANGED <<source, store, inflight, awaited, floor, need, overtaken>>

\* The Event is set: the waiter ends as the build it waited for did.
TakeOver(c) ==
  /\ awaited[c] # None
  /\ pc[awaited[c]] \in Ended
  /\ Goto(c, "waiting", pc[awaited[c]])
  /\ value' = [value EXCEPT ![c] = value[awaited[c]]]
  /\ UNCHANGED <<source, store, inflight, awaited, floor, need, overtaken>>

Build(c) ==
  /\ Goto(c, "building", "built")
  /\ value' = [value EXCEPT ![c] = source]
  /\ UNCHANGED <<source, store, inflight, awaited, floor, need, overtaken>>

\* Mutant: a builder that is interrupted leaves its Event unset.
BuilderInterrupted(c) ==
  /\ Goto(c, "building", "interrupted")
  /\ UNCHANGED <<source, store, inflight, awaited, value, floor, need, overtaken>>

\* An exception of any kind, KeyboardInterrupt and the like included.
BuilderRaises(c) ==
  /\ Goto(c, "building", "raised")
  /\ inflight' = [inflight EXCEPT ![KeyOf[c]] = None]
  /\ UNCHANGED <<source, store, awaited, value, floor, need, overtaken>>

\* The value is stored whatever was invalidated meanwhile.
WriteBack(c) ==
  /\ Goto(c, "built", "returned")
  /\ store' = [store EXCEPT ![KeyOf[c]] = value[c]]
  /\ inflight' = [inflight EXCEPT ![KeyOf[c]] = None]
  /\ UNCHANGED <<source, awaited, value, floor, need, overtaken>>

\* The time to live of an entry is over; the next build replaces it.
Expire(k) ==
  /\ store[k] # None
  /\ store' = [store EXCEPT ![k] = None]
  /\ UNCHANGED <<source, inflight, pc, awaited, value, floor, need, overtaken>>

\* Mutant: nothing is removed.
InvalidateNothing(K) ==
  /\ floor' = [k \in Key |-> IF k \in K THEN source ELSE floor[k]]
  /\ UNCHANGED <<source, store, inflight, pc, awaited, value, need, overtaken>>

\* invalidate(key), or invalidate() for all of them.
Invalidate(K) ==
  /\ store' = [k \in Key |-> IF k \in K THEN None ELSE store[k]]
  /\ floor' = [k \in Key |-> IF k \in K THEN source ELSE floor[k]]
  /\ overtaken' = overtaken \cup {c \in Call : KeyOf[c] \in K /\ pc[c] \in Building}
  /\ UNCHANGED <<source, inflight, pc, awaited, value, need>>

GetOrBuild(c) ==
  \/ BuildDirect(c)
  \/ Hit(c) \/ Lead(c) \/ Wait(c) \/ TakeOver(c)
  \/ Build(c) \/ BuilderRaises(c) \/ WriteBack(c)

Next ==
  \/ ChangeSource
  \/ \E c \in Call : Begin(c) \/ GetOrBuild(c)
  \/ \E k \in Key : Expire(k) \/ Invalidate({k})
  \/ Invalidate(Key)

Spec == Init /\ [][Next]_vars

\* Threads that entered the cache run.
FairSpec == Spec /\ \A c \in Call : WF_vars(GetOrBuild(c))
-----------------------------------------------------------------------------
(***************************************************************************)
(* Properties                                                              *)
(***************************************************************************)
\* Every variable keeps its type.
TypeOK ==
  /\ source \in Nat
  /\ store \in [Key -> Nat \cup {None}]
  /\ inflight \in [Key -> Call \cup {None}]
  /\ pc \in [Call -> Place]
  /\ awaited \in [Call -> Call \cup {None}]
  /\ value \in [Call -> Nat]
  /\ floor \in [Key -> Nat]
  /\ need \in [Call -> Nat]
  /\ overtaken \subseteq Call

\* Concurrent calls of a key share one build.
SingleBuild ==
  \A c, d \in Call :
    (pc[c] \in Building /\ pc[d] \in Building /\ KeyOf[c] = KeyOf[d]) => c = d

\* A waiter ends as the build it waited for, even if the entry has expired or
\* was invalidated and built anew before the waiter ran again.
SharedOutcome ==
  \A c \in Call : (awaited[c] # None /\ pc[c] \in Ended)
    => /\ pc[c] = pc[awaited[c]]
       /\ pc[c] = "returned" => value[c] = value[awaited[c]]

\* A call is answered with data older than an invalidation before it only by a
\* build that was at work when its key was invalidated.
StaleOnlyFromOvertaken ==
  \A c \in Call : (pc[c] = "returned" /\ value[c] < need[c])
    => \E d \in overtaken : KeyOf[d] = KeyOf[c] /\ value[d] = value[c]

\* Every call that looks ends, also behind a builder that was interrupted.
CallsEnd == \A c \in Call : (pc[c] = "looking") ~> (pc[c] \in Ended)
=============================================================================
