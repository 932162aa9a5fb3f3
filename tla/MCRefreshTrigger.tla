-------------------------- MODULE MCRefreshTrigger --------------------------
EXTENDS RefreshTrigger, TLC
CONSTANTS c1, c2, c3, k

\* Two requests with the same key and one without.
MCKey == (c1 :> k) @@ (c2 :> k) @@ (c3 :> NoKey)

\* All three for the formal services, with some faults; two at a time for every
\* service, with all.
MCTraffic ==
  [service : {"formal"}, who : {Request}, faults : {{"dispatch", "request_dies"}, {"worker_fails"}}]
    \cup [service : Service, who : {{c1, c2}, {c1, c3}}, faults : {FaultKind}]
=============================================================================
