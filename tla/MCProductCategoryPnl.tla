------------------------ MODULE MCProductCategoryPnl ------------------------
EXTENDS ProductCategoryPnl, TLC

\* An edit may move the adjustment to the other date.
MCDraft ==
  {[date |-> 1, amount |-> 1, status |-> "approved"],
   [date |-> 2, amount |-> 2, status |-> "approved"]}

\* Nothing yet, or an adjustment that was created and approved.
CONSTANT a1
MCStream ==
  {<<>>, <<[id |-> a1, kind |-> "created", date |-> 1, amount |-> 1,
            status |-> "approved", at |-> 0]>>}

\* Requests differ in nothing but their steps, and so do builds.
MCSymmetry == Permutations(Request) \cup Permutations(Build)
=============================================================================
