----------------------------- MODULE Projections -----------------------------
(***************************************************************************)
(* The projections framework over the ledger (packages/events/src/         *)
(* projections/framework.ts): one registered projection, its persisted     *)
(* cursor, and the workers that catch it up: the mint-vs-claim monitor     *)
(* (apps/core/src/modules/analytics/mint-vs-claim-monitor.ts), which runs  *)
(* a catchUp per cycle, and the rebuild command (rebuild.ts), which wipes  *)
(* the tables and then catches up from the start.                          *)
(*                                                                         *)
(* A process in both sets is an operator who runs the rebuild while the    *)
(* monitor is stopped; with a monitor of its own the rebuild runs beside   *)
(* it.  A process may also tail the ledger (runProjection): it subscribes  *)
(* from the persisted cursor (deliver/subscriber.ts) and from then on goes *)
(* by a cursor in its memory.  NOTIFY only makes a drain come sooner.      *)
(*                                                                         *)
(* What a projection's tables say is how often each event was counted into *)
(* them since they were last wiped: every fragment adds one per event.     *)
(***************************************************************************)
EXTENDS EventLedger

CONSTANTS
  Monitors,      \* processes running the monitor's cycle
  Rebuilders,    \* processes running the rebuild command
  Tailers,       \* processes that tail the ledger by subscription
  BatchSize,     \* rows per query: 500 of catchUp, 200 of a subscription
  MaxRebuilds    \* bound on rebuilds

Workers == Monitors \cup Rebuilders \cup Tailers

ASSUME BatchAssumption == BatchSize \in Nat \ {0} /\ MaxRebuilds \in Nat

VARIABLES
  counted,     \* the projection's tables: how often each event was counted
  last_seq,    \* events.projection_cursors.last_seq
  stage,       \* where each worker stands in catchUp
  position,    \* the cursor it read
  batch,       \* the numbers of the rows it fetched and has yet to apply
  rebuilds     \* rebuilds so far

projection == <<counted, last_seq, stage, position, batch, rebuilds>>

CommittedSeqs == {row.seq : row \in events}

\* Mutant of Unread: the cursor is taken for the next number to read.
UnreadSkippingOne(w) == {seq \in CommittedSeqs : seq > position[w] + 1}

\* WHERE seq > $1
Unread(w) == {seq \in CommittedSeqs : seq > position[w]}

\* ORDER BY seq ASC LIMIT 500
FirstOf(seqs) ==
  {seq \in seqs : Cardinality({other \in seqs : other < seq}) < BatchSize}

\* A cycle of the monitor begins; a slow cycle never overlaps itself.
StartCycle(w) ==
  /\ w \in Monitors
  /\ stage[w] = "idle"
  /\ stage' = [stage EXCEPT ![w] = "cursor"]
  /\ UNCHANGED <<counted, last_seq, position, batch, rebuilds>>

\* rebuildProjection: the wipe and the cursor reset are one transaction.
WipeAndReset(w) ==
  /\ w \in Rebuilders
  /\ stage[w] = "idle"
  /\ rebuilds < MaxRebuilds
  /\ rebuilds' = rebuilds + 1
  /\ counted' = [seq \in 1..MaxSeq |-> 0]
  /\ last_seq' = 0
  /\ stage' = [stage EXCEPT ![w] = "cursor"]
  /\ UNCHANGED <<position, batch>>

ReadCursor(w) ==
  /\ stage[w] = "cursor"
  /\ position' = [position EXCEPT ![w] = last_seq]
  /\ stage' = [stage EXCEPT ![w] = "fetch"]
  /\ UNCHANGED <<counted, last_seq, batch, rebuilds>>

\* An empty batch ends catchUp.
FetchBatch(w) ==
  /\ stage[w] = "fetch"
  /\ batch' = [batch EXCEPT ![w] = FirstOf(Unread(w))]
  /\ stage' = [stage EXCEPT ![w] = IF Unread(w) = {} THEN "idle" ELSE "apply"]
  /\ UNCHANGED <<counted, last_seq, position, rebuilds>>

\* Mutant of ApplyWithCursor: the cursor is written only after the last event
\* of the batch.
ApplyThenCursor(w) ==
  /\ stage[w] = "apply"
  /\ \E seq \in batch[w] :
       /\ \A other \in batch[w] : seq <= other
       /\ counted' = [counted EXCEPT ![seq] = @ + 1]
       /\ last_seq' = IF batch[w] = {seq} THEN seq ELSE last_seq
       /\ batch' = [batch EXCEPT ![w] = @ \ {seq}]
       /\ stage' = [stage EXCEPT ![w] =
                      IF batch[w] = {seq} THEN "cursor" ELSE "apply"]
  /\ UNCHANGED <<position, rebuilds>>

\* applyWithCursor: one event and the cursor, in one transaction.
ApplyWithCursor(w) ==
  /\ stage[w] = "apply"
  /\ \E seq \in batch[w] :
       /\ \A other \in batch[w] : seq <= other
       /\ counted' = [counted EXCEPT ![seq] = @ + 1]
       /\ last_seq' = seq
       /\ batch' = [batch EXCEPT ![w] = @ \ {seq}]
       /\ stage' = [stage EXCEPT ![w] =
                      IF batch[w] = {seq} THEN "cursor" ELSE "apply"]
  /\ UNCHANGED <<position, rebuilds>>

\* runProjection reads the persisted cursor and subscribes from there.
Subscribe(w) ==
  /\ w \in Tailers
  /\ stage[w] = "idle"
  /\ position' = [position EXCEPT ![w] = last_seq]
  /\ stage' = [stage EXCEPT ![w] = "subscribed"]
  /\ UNCHANGED <<counted, last_seq, batch, rebuilds>>

\* drain: a notification or the poll fetches what is above the cursor in
\* memory; a drain never overlaps another.
Drain(w) ==
  /\ stage[w] = "subscribed"
  /\ Unread(w) # {}
  /\ batch' = [batch EXCEPT ![w] = FirstOf(Unread(w))]
  /\ stage' = [stage EXCEPT ![w] = "deliver"]
  /\ UNCHANGED <<counted, last_seq, position, rebuilds>>

\* The handler is applyWithCursor; the cursor in memory follows when it
\* resolves.
Deliver(w) ==
  /\ stage[w] = "deliver"
  /\ \E seq \in batch[w] :
       /\ \A other \in batch[w] : seq <= other
       /\ counted' = [counted EXCEPT ![seq] = @ + 1]
       /\ last_seq' = seq
       /\ position' = [position EXCEPT ![w] = seq]
       /\ batch' = [batch EXCEPT ![w] = @ \ {seq}]
       /\ stage' = [stage EXCEPT ![w] =
                      IF batch[w] = {seq} THEN "subscribed" ELSE "deliver"]
  /\ UNCHANGED rebuilds

\* The handler throws: the rest of the batch is dropped and fetched again.
DeliveryFails(w) ==
  /\ stage[w] = "deliver"
  /\ batch' = [batch EXCEPT ![w] = {}]
  /\ stage' = [stage EXCEPT ![w] = "subscribed"]
  /\ UNCHANGED <<counted, last_seq, position, rebuilds>>

\* A query fails or the process dies; an open transaction is rolled back.
FailCycle(w) ==
  /\ stage[w] # "idle"
  /\ stage' = [stage EXCEPT ![w] = "idle"]
  /\ batch' = [batch EXCEPT ![w] = {}]
  /\ UNCHANGED <<counted, last_seq, position, rebuilds>>

ProjectionInit ==
  /\ counted = [seq \in 1..MaxSeq |-> 0]
  /\ last_seq = 0
  /\ stage = [w \in Workers |-> "idle"]
  /\ position = [w \in Workers |-> 0]
  /\ batch = [w \in Workers |-> {}]
  /\ rebuilds = 0

ProjectionStep ==
  \E w \in Workers :
    \/ StartCycle(w) \/ WipeAndReset(w) \/ ReadCursor(w) \/ FetchBatch(w)
    \/ ApplyWithCursor(w) \/ Subscribe(w) \/ Drain(w) \/ Deliver(w)
    \/ DeliveryFails(w) \/ FailCycle(w)

ProjectedInit == Init /\ ProjectionInit

\* The projection beside the transactions that append.
ProjectedNext ==
  \/ LedgerStep /\ UNCHANGED projection
  \/ ProjectionStep /\ UNCHANGED vars

-----------------------------------------------------------------------------
\* The tables say what the ledger says: every event up to the cursor is
\* counted exactly once, none above it, whatever fails in between and
\* whichever cursor a worker goes by (framework.ts:40 "Apply one event +
\* advance the cursor atomically").
ProjectionMatchesLedger ==
  \A seq \in 1..MaxSeq :
    counted[seq] = IF seq \in CommittedSeqs /\ seq <= last_seq THEN 1 ELSE 0

\* Every committed event is eventually behind the cursor: no event is lost
\* between the batches and the failures of the cycles.
EventuallyProjected ==
  \A seq \in 1..MaxSeq : seq \in CommittedSeqs ~> last_seq >= seq

=============================================================================
