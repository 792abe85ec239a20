---------------------------- MODULE AppendOnlyLog ----------------------------
(***************************************************************************)
(* What the event ledger promises its readers: one sequence of event       *)
(* bodies to which transactions add at the end, a whole batch at a time,   *)
(* and of which nothing is ever changed, removed or inserted before.       *)
(***************************************************************************)
EXTENDS Sequences, SequencesExt

CONSTANT Bodies   \* event bodies
VARIABLE log

Init == log = << >>

\* One transaction commits the events it appended.
Publish ==
  /\ log' \in Seq(Bodies)
  /\ IsStrictPrefix(log, log')

Spec == Init /\ [][Publish]_log

=============================================================================
