------------------------- MODULE MCFormalMaterialize -------------------------
(* Instances of FormalMaterialize for TLC. *)
EXTENDS FormalMaterialize

CONSTANTS r1, r2, c1

\* Two runs replace the same cell: a refresh and a scheduled build of one date.
SameCell == [r \in Run |-> c1]
AllFaults == FaultKind

\* One message is delivered again, the other may fall into any of its deliveries.
FirstRetried == [r \in Run |-> IF r = r1 THEN 2 ELSE 1]
RetriedThrice == [r \in Run |-> 4]
=============================================================================
