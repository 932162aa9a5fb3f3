-------------------------- MODULE MCResponseCache --------------------------
EXTENDS ResponseCache
CONSTANTS c1, c2, c3, c4, k1

\* Calls of one key: one to build, one to wait for it, one to build anew before
\* the waiter runs again, and one beside the cache.
MCSameKey == [c \in Call |-> k1]
=============================================================================
