----------------------------- MODULE MCSnapshots -----------------------------
(* Instances of Snapshots for TLC. *)
EXTENDS Snapshots, TLC

CONSTANTS p1, p2, p3, bond1, tyw1, bond2, more2, tyw2

\* A bond and an interbank file of each date, and one more bond file of the second.
Families == [f \in File |-> IF f \in {tyw1, tyw2} THEN "tyw" ELSE "zqtz"]
ReportDates == [f \in File |-> IF f \in {bond1, tyw1} THEN 1 ELSE 2]

Pipeline == [kind |-> "pipeline", given |-> FALSE, dates |-> Date]
PipelineOf(d) == [kind |-> "pipeline", given |-> TRUE, dates |-> {d}]
Script == [kind |-> "script", given |-> FALSE, dates |-> {}]
ScriptOf(d) == [kind |-> "script", given |-> TRUE, dates |-> {d}]
Refresh(d) == [kind |-> "balance", given |-> TRUE, dates |-> {d}]

Absent == [kind |-> "balance", given |-> TRUE, dates |-> {}]

TwoPipelines == p1 :> Pipeline @@ p2 :> Pipeline @@ p3 :> Absent

\* Beside a pipeline: another, of all dates or of the second, or a script about
\* none or about the second date and a refresh of it.
SomeRuns ==
  {TwoPipelines,
   p1 :> Pipeline @@ p2 :> PipelineOf(2) @@ p3 :> Absent,
   p1 :> Pipeline @@ p2 :> Script @@ p3 :> Refresh(2),
   p1 :> Pipeline @@ p2 :> ScriptOf(2) @@ p3 :> Refresh(2)}
TwoIngestsAndScript == p1 :> PipelineOf(2) @@ p2 :> PipelineOf(2) @@ p3 :> Script

There(files) == [f \in File |-> IF f \in files THEN 1 ELSE 0]

\* An interbank file of the first date and a bond file of the second are there,
\* with another file of the second or, where two may arrive, alone.  A script
\* after two ingests finds the bond file alone, and one replacement.
SomeStarts ==
  [source : {There({tyw1, bond2, f}) : f \in {tyw2, more2}}, order : SomeRuns]
    \cup {[source |-> There({tyw1, bond2}), order |-> TwoPipelines],
          [source |-> [There({bond2}) EXCEPT ![tyw1] = 2], order |-> TwoIngestsAndScript]}

\* Bond and interbank files of the first date are there, and a pipeline runs
\* once and once more.
OnceMore == [source : {There({bond1, tyw1})}, order : {[p \in Run |-> Pipeline]}]
AllFaults == FaultKind
=============================================================================
