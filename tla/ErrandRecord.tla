---------------------------- MODULE ErrandRecord -----------------------------
(***************************************************************************)
(* What the errand's row and its log promise to a reader who knows nothing *)
(* of drivers, crashes and retries: the errand moves along the diagram,    *)
(* one event at a time, and each move is logged with the event that made   *)
(* it, in the same step.                                                   *)
(***************************************************************************)
EXTENDS ErrandReducer, Sequences

VARIABLES errand, log

vars == <<errand, log>>

Init ==
  /\ errand \in {Briefed(m) : m \in BOOLEAN}
  /\ log = <<>>

\* The event is the one the step logs.
Apply ==
  LET entry == log'[Len(log')] IN
    /\ Len(log') = Len(log) + 1
    /\ <<errand.state, entry.event.type, entry.to>> \in Diagram
    /\ log' = Append(log, Entry(errand.state, entry.to, entry.event))
    /\ errand' = Patched(errand, entry.to, entry.event)

Next == Apply

Spec == Init /\ [][Next]_vars

=============================================================================
