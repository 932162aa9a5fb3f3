--------------------------- MODULE MCRuntimeCache ---------------------------
EXTENDS RuntimeCache, TLC
CONSTANTS c1, c2, c3, k1, k2

\* Two calls of one key and one of another.
MCKeyOf == (c1 :> k1) @@ (c2 :> k1) @@ (c3 :> k2)
=============================================================================
