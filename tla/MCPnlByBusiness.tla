--------------------------- MODULE MCPnlByBusiness ---------------------------
EXTENDS PnlByBusiness, TLC

CONSTANTS x, y, z, a1, u1, u2

\* An edit may move the adjustment to the other date.
MCDraft == {[date |-> 1, amount |-> 1], [date |-> 2, amount |-> 2]}

\* Nothing yet, or an adjustment that was created and approved.
Created == [id |-> a1, kind |-> "created", date |-> 1, amount |-> 1, status |-> "pending",
            created_by |-> u1, approved_by |-> Nobody, at |-> 0]
Approved == [Created EXCEPT !.kind = "approved", !.status = "approved", !.approved_by = u2]
MCStream == {<<>>, <<Created, Approved>>}

\* The first two have the same totals.
X == [detail |-> x, total |-> 1]
Y == [detail |-> y, total |-> 1]
Z == [detail |-> z, total |-> 2]
MCBatch == {X, Y, Z}

\* The first date was materialized before.
MCOpening == {<<X, NoRows>>}

\* The first date again, with the same or other totals, or the second.
MCOrders ==
  {[date |-> 1, batch |-> Y, sync |-> FALSE], [date |-> 1, batch |-> Z, sync |-> TRUE],
   [date |-> 1, batch |-> NoRows, sync |-> FALSE], [date |-> 2, batch |-> X, sync |-> FALSE]}

\* Requests alone, then requests, runs and pages with each other.
Some(n, S) == {T \in SUBSET S : Cardinality(T) = n}
Shifts(n, m, k) ==
  {t[1] \cup t[2] \cup t[3] : t \in Some(n, Request) \X Some(m, Run) \X Some(k, Reader)}
MCShift == Shifts(3, 0, 0) \cup Shifts(2, 0, 1) \cup Shifts(1, 0, 2) \cup Shifts(1, 1, 1)
             \cup Shifts(0, 2, 1)

MCSymmetry == Permutations(Request) \cup Permutations(Run) \cup Permutations(Reader)
=============================================================================
