---------------------------- MODULE GovernanceLog ----------------------------
(***************************************************************************)
(* What the governance repository promises to those who read its streams:  *)
(* a call of append or append_many_atomic shows up as one step, whole if   *)
(* it returns and not at all if it raises.  The death of the caller in the *)
(* middle of a call may leave the first entries of its batch, and a call   *)
(* whose own rollback fails any of them; but no entry of others is ever    *)
(* touched, and none comes later.                                          *)
(***************************************************************************)
EXTENDS Naturals, Sequences, SequencesExt

CONSTANTS
  Writer,  \* the calls, each by its caller
  Stream,  \* the governance streams
  Batch    \* the streams of the entries of each call, in order: [Writer -> Seq(Stream)]

VARIABLES
  log,     \* what a reader of each stream is shown
  result   \* how each call ended

vars == <<log, result>>

Entry == {e \in Writer \X Nat : e[2] \in DOMAIN Batch[e[1]]}

\* The entries of a stream among those the batch of w has at the places P.
Own(w, P, s) == {<<w, i>> : i \in {i \in P : Batch[w][i] = s}}

\* new is old and then the entries E, in the order of their batch.
Grows(old, new, E) ==
  LET added == Len(old) + 1 .. Len(new) IN
  /\ IsPrefix(old, new)
  /\ {new[j] : j \in added} = E
  /\ \A j, k \in added : j < k => new[j][2] < new[k][2]

Show(w, P) ==
  /\ log' \in [Stream -> Seq(Entry)]
  /\ \A s \in Stream : Grows(log[s], log'[s], Own(w, P, s))

End(w, r) ==
  /\ result[w] = "pending"
  /\ result' = [result EXCEPT ![w] = r]

Init ==
  /\ log = [s \in Stream |-> <<>>]
  /\ result = [w \in Writer |-> "pending"]

Return(w) == End(w, "returned") /\ Show(w, DOMAIN Batch[w])
Raise(w) == End(w, "raised") /\ UNCHANGED log
Crash(w) == End(w, "crashed") /\ \E k \in 0 .. Len(Batch[w]) : Show(w, 1 .. k)
Doubt(w) == End(w, "doubtful") /\ \E P \in SUBSET DOMAIN Batch[w] : Show(w, P)

Next == \E w \in Writer : Return(w) \/ Raise(w) \/ Crash(w) \/ Doubt(w)

Spec == Init /\ [][Next]_vars
=============================================================================
