----------------------------- MODULE EventLedger -----------------------------
(***************************************************************************)
(* The event ledger (packages/events): appendEvent inside the transaction  *)
(* of a business write, and verifyChain, which audits the table while      *)
(* appends go on.                                                          *)
(*                                                                         *)
(* this_hash stands for SHA-256 over prev_hash and the body: it is the     *)
(* sequence of the bodies hashed so far, so two hashes are equal exactly   *)
(* when everything behind them is.  seq is a bigserial: nextval() is not   *)
(* undone by a ROLLBACK.                                                   *)
(***************************************************************************)
EXTENDS Integers, Sequences, FiniteSets, Ordering

CONSTANTS
  Transactions,   \* database transactions that append events
  Bodies,         \* event bodies
  MaxSeq,         \* bound on the sequence
  None            \* null

ASSUME MaxSeqAssumption == MaxSeq \in Nat
ASSUME NoneAssumption == None \notin Transactions

VARIABLES
  events,       \* events.events, the committed rows
  next_seq,     \* events_seq_seq
  chain_lock,   \* holder of pg_advisory_xact_lock('merited_events_chain')
  staged,       \* the rows each open transaction has inserted
  audit         \* a verifyChain walk: where it is and what it found

ledger == <<events, next_seq, chain_lock, staged>>
vars == <<ledger, audit>>

Genesis == << >>

\* The highest row of a set of rows.
HeadOf(rows) == CHOOSE row \in rows : \A other \in rows : other.seq <= row.seq

\* SELECT this_hash ... ORDER BY seq DESC LIMIT 1, or the genesis value.
HeadHash(rows) == IF rows = {} THEN Genesis ELSE HeadOf(rows).this_hash

\* Mutant of Visible: a transaction does not see the event it just appended.
CommittedOnly(t) == events

\* READ COMMITTED: what has committed and what the transaction itself wrote.
Visible(t) == events \cup staged[t]

\* The row that appendEvent inserts.
NextRow(t, body) ==
  LET prev == HeadHash(Visible(t))
  IN  [seq |-> next_seq, body |-> body,
       prev_hash |-> prev, this_hash |-> Append(prev, body)]

\* Mutant of AppendEvent: the advisory lock is not taken.
AppendEventUnlocked(t, body) ==
  /\ next_seq <= MaxSeq
  /\ chain_lock' = t
  /\ staged' = [staged EXCEPT ![t] = @ \cup {NextRow(t, body)}]
  /\ next_seq' = next_seq + 1
  /\ UNCHANGED <<events, audit>>

\* appendEvent: wait for the chain lock, then read the head and insert under
\* it.  A transaction may append several events and holds the lock until it
\* ends.
AppendEvent(t, body) ==
  /\ next_seq <= MaxSeq
  /\ chain_lock \in {None, t}
  /\ chain_lock' = t
  /\ staged' = [staged EXCEPT ![t] = @ \cup {NextRow(t, body)}]
  /\ next_seq' = next_seq + 1
  /\ UNCHANGED <<events, audit>>

\* The rows become visible before the lock is released.
Commit(t) ==
  /\ chain_lock = t
  /\ events' = events \cup staged[t]
  /\ staged' = [staged EXCEPT ![t] = {}]
  /\ chain_lock' = None
  /\ UNCHANGED <<next_seq, audit>>

\* The business write fails after its appendEvent, or the process dies: the
\* rows go, the numbers drawn for them do not come back.
Rollback(t) ==
  /\ chain_lock = t
  /\ staged' = [staged EXCEPT ![t] = {}]
  /\ chain_lock' = None
  /\ UNCHANGED <<events, next_seq, audit>>

-----------------------------------------------------------------------------
(***************************************************************************)
(* verifyChain: a walk over the table in batches, one query each, with     *)
(* nothing locked in between.  A batch is one row here: the smallest gives *)
(* the most interleavings with the appends.                                *)
(***************************************************************************)

StartOfWalk == [last_seq |-> 0, prev |-> Genesis, result |-> "walking"]

\* What the checks say of the next row.
RowResult(row) ==
  IF row.seq # audit.last_seq + 1 THEN "gap"
  ELSE IF row.prev_hash # audit.prev \/ row.this_hash # Append(audit.prev, row.body)
  THEN "broken"
  ELSE "walking"

Unwalked == {row \in events : row.seq > audit.last_seq}

WalkRow ==
  /\ audit.result = "walking"
  /\ \E row \in Unwalked :
       /\ \A other \in Unwalked : row.seq <= other.seq
       /\ audit' = [last_seq |-> row.seq, prev |-> row.this_hash,
                    result |-> RowResult(row)]
  /\ UNCHANGED ledger

FinishWalk ==
  /\ audit.result = "walking"
  /\ Unwalked = {}
  /\ audit' = [audit EXCEPT !.result = "ok"]
  /\ UNCHANGED ledger

\* The next run of the verify-chain command.
RestartWalk ==
  /\ audit.result # "walking"
  /\ audit' = StartOfWalk
  /\ UNCHANGED ledger

-----------------------------------------------------------------------------
Init ==
  /\ events = {}
  /\ next_seq = 1
  /\ chain_lock = None
  /\ staged = [t \in Transactions |-> {}]
  /\ audit = StartOfWalk

LedgerStep ==
  \E t \in Transactions :
    (\E body \in Bodies : AppendEvent(t, body)) \/ Commit(t) \/ Rollback(t)

Next == LedgerStep \/ WalkRow \/ FinishWalk \/ RestartWalk

Spec == Init /\ [][Next]_vars

-----------------------------------------------------------------------------
(***************************************************************************)
(* Properties.                                                             *)
(***************************************************************************)

Rows ==
  [seq : Nat \ {0}, body : Bodies, prev_hash : Seq(Bodies),
   this_hash : Seq(Bodies)]

\* The type invariant: every hash is one, the genesis value of the first row
\* included (append.ts:59 `?? GENESIS_PREV_HASH`).
TypeOK ==
  /\ events \subseteq Rows
  /\ next_seq \in Nat \ {0}
  /\ chain_lock \in Transactions \cup {None}
  /\ staged \in [Transactions -> SUBSET Rows]
  /\ audit \in [last_seq : Nat, prev : Seq(Bodies),
                result : {"walking", "ok", "gap", "broken"}]

Below(rows, seq) == {row \in rows : row.seq < seq}

\* A set of rows is a linear chain: no two rows share a number and every row
\* continues the one before it.
Linked(rows) ==
  /\ \A a, b \in rows : a.seq = b.seq => a = b
  /\ \A row \in rows :
       /\ row.prev_hash = HeadHash(Below(rows, row.seq))
       /\ row.this_hash = Append(row.prev_hash, row.body)

\* The committed chain never forks and never skips a link, with any number
\* of concurrent appenders and rollbacks (append.ts "linear under
\* concurrency").
ChainIsLinear == Linked(events)

\* The outbox rule that every cursor reader relies on (subscriber.ts,
\* framework.ts): an event never becomes visible below one that already is,
\* so `seq > cursor` misses nothing.
CommitsInOrder ==
  [][\A new \in events' \ events : \A old \in events : old.seq < new.seq]_vars

\* The bodies of the committed rows, ORDER BY seq.
CommittedBodies ==
  LET rows == SortedBy(events, {p \in events \X events : p[1].seq < p[2].seq})
  IN  [i \in 1 .. Cardinality(events) |-> rows[i].body]

Log == INSTANCE AppendOnlyLog WITH log <- CommittedBodies

\* The ledger implements the append-only log: a commit publishes its events
\* at the end, together, and every other step changes nothing a reader sees.
ImplementsLog == Log!Spec

\* verifyChain never calls an honest ledger broken, although appends commit
\* between its batches.
AuditNeverBroken == audit.result # "broken"

\* "Appends are serialised ... so the chain is gapless" (append.ts:39-40;
\* docs/spec/verification.md:50 "1-based, gapless"): verifyChain, which
\* insists on it, never reports a gap.
AuditNeverGap == audit.result # "gap"

=============================================================================
