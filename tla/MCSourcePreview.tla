--------------------------- MODULE MCSourcePreview ---------------------------
EXTENDS SourcePreview, TLC
CONSTANTS f1, f2, r1, r2

\* Two files of one family, of one report date after the other.
MCFamily == [f \in File |-> "zqtz"]
MCDate == (f1 :> 1) @@ (f2 :> 2)

\* Two refreshes together, one with a view, or one that is delivered again.
Together(who, n, k) == [who |-> who, changes |-> n, retries |-> k]
MCShift ==
  {Together(Refresh, 1, 0)}
    \cup UNION {{Together({b} \cup View, 0, 0), Together({b}, 2, 1)} : b \in Refresh}

MCOpening == {(f1 :> 1) @@ (f2 :> 0), (f1 :> 1) @@ (f2 :> 1)}
MCSymmetry == Permutations({r1, r2})
=============================================================================
