----------------------------- MODULE Ledger_proofs -----------------------------
(***************************************************************************)
(* Proofs about the ledger and what is read from it.  EventLedger: for any *)
(* number of transactions, bodies and sequence numbers the committed chain *)
(* is linear and grows only at its end, so that it is a log.               *)
(* HeadPublication: the published heads are committed rows, and one        *)
(* publisher never rewrites a day.  ProofPacks: what the reference         *)
(* verifier says of a pack, over any ledger, set of heads and set of       *)
(* signed documents.  Projections: one worker applies every event up to    *)
(* the cursor once.  Analytics: the tables agree with the ledger and with  *)
(* each other, for any commitments, tokens and claims.                     *)
(***************************************************************************)
EXTENDS HeadPublication, ProofPacks, Projections, Analytics, SequenceTheorems, DataTheorems

\* A set of rows that is empty or has a highest row.
HasHead(rows) ==
  rows = {} \/ \E row \in rows : \A other \in rows : other.seq <= row.seq

\* Only the holder of the chain lock has uncommitted rows, they are above
\* everything committed, and what it sees is a linear chain.
Inv ==
  /\ TypeOK
  /\ \A t \in Transactions : staged[t] # {} => chain_lock = t
  /\ \A row \in events : row.seq < next_seq
  /\ \A t \in Transactions : \A row \in staged[t] :
       row.seq < next_seq /\ \A old \in events : old.seq < row.seq
  /\ Linked(events) /\ HasHead(events)
  /\ \A t \in Transactions : Linked(Visible(t)) /\ HasHead(Visible(t))

\* The head of a set of rows is a hash.
LEMMA HeadHashType ==
  ASSUME NEW rows \in SUBSET Rows, HasHead(rows)
  PROVE  HeadHash(rows) \in Seq(Bodies)
<1>1. CASE rows = {}
  BY <1>1 DEF HeadHash, Genesis
<1>2. CASE rows # {}
  <2>1. HeadOf(rows) \in rows
    BY <1>2 DEF HasHead, HeadOf
  <2> QED
    BY <1>2, <2>1 DEF HeadHash, Rows
<1> QED
  BY <1>1, <1>2

\* Adding, above a linear chain, the row that continues its head keeps it
\* linear.
LEMMA LinkedExtends ==
  ASSUME NEW rows \in SUBSET Rows, Linked(rows), HasHead(rows),
         NEW new \in Rows, \A row \in rows : row.seq < new.seq,
         new.prev_hash = HeadHash(rows),
         new.this_hash = Append(new.prev_hash, new.body)
  PROVE  Linked(rows \cup {new}) /\ HasHead(rows \cup {new})
<1> DEFINE S == rows \cup {new}
<1>1. \A row \in S : row.seq \in Nat
  BY DEF Rows
<1>2. Below(S, new.seq) = rows
  BY <1>1 DEF Below
<1>3. \A row \in rows : Below(S, row.seq) = Below(rows, row.seq)
  BY <1>1 DEF Below
<1>4. \A a, b \in S : a.seq = b.seq => a = b
  BY <1>1 DEF Linked
<1>5. \A row \in S :
        /\ row.prev_hash = HeadHash(Below(S, row.seq))
        /\ row.this_hash = Append(row.prev_hash, row.body)
  BY <1>2, <1>3 DEF Linked
<1>6. HasHead(S)
  BY <1>1 DEF HasHead
<1> HIDE DEF S
<1>7. Linked(S)
  BY <1>4, <1>5 DEF Linked
<1> QED
  BY <1>6, <1>7 DEF S

\* The ledger is empty and linear at first.
LEMMA InvInit == Init => Inv
<1> SUFFICES ASSUME Init PROVE Inv
  OBVIOUS
<1>1. TypeOK
  BY DEF Init, TypeOK, StartOfWalk, Genesis
<1>2. Linked({}) /\ HasHead({})
  BY DEF Linked, HasHead
<1>3. events = {} /\ \A t \in Transactions : Visible(t) = {}
  BY DEF Init, Visible
<1> QED
  BY <1>1, <1>2, <1>3 DEF Init, Inv

\* appendEvent adds the continuation of the head its transaction sees.
LEMMA AppendStep ==
  ASSUME Inv, NEW t \in Transactions, NEW body \in Bodies, AppendEvent(t, body)
  PROVE  Inv'
<1> DEFINE new == NextRow(t, body)
<1>1. /\ chain_lock \in {None, t} /\ chain_lock' = t
      /\ staged' = [staged EXCEPT ![t] = @ \cup {new}]
      /\ next_seq' = next_seq + 1
      /\ events' = events /\ audit' = audit
  BY DEF AppendEvent
<1>2. TypeOK /\ next_seq \in Nat \ {0} /\ Visible(t) \in SUBSET Rows
  BY DEF Inv, TypeOK, Visible
<1>3. HeadHash(Visible(t)) \in Seq(Bodies)
  BY <1>2, HeadHashType DEF Inv
<1>4. /\ new \in Rows
      /\ new.seq = next_seq
      /\ new.prev_hash = HeadHash(Visible(t))
      /\ new.this_hash = Append(new.prev_hash, new.body)
  BY <1>2, <1>3 DEF NextRow, Rows
<1> HIDE DEF new
<1>5. \A u \in Transactions : u # t => staged[u] = {}
  BY <1>1, NoneAssumption DEF Inv
<1>6. /\ staged'[t] = staged[t] \cup {new}
      /\ \A u \in Transactions : u # t => staged'[u] = {}
  BY <1>1, <1>2, <1>5 DEF TypeOK
<1>7. TypeOK'
  BY <1>1, <1>2, <1>4 DEF TypeOK
<1>8. Visible(t)' = Visible(t) \cup {new}
  BY <1>1, <1>6 DEF Visible
<1>9. \A u \in Transactions : u # t => Visible(u)' = events
  BY <1>1, <1>6 DEF Visible
<1>10. \A row \in Visible(t) : row.seq < new.seq
  BY <1>4 DEF Inv, Visible
<1>11. Linked(Visible(t) \cup {new}) /\ HasHead(Visible(t) \cup {new})
  BY <1>2, <1>4, <1>10, LinkedExtends DEF Inv
<1>12. \A u \in Transactions : Linked(Visible(u)') /\ HasHead(Visible(u)')
  BY <1>8, <1>9, <1>11 DEF Inv
<1>13. \A row \in events' : row.seq < next_seq'
  BY <1>1, <1>2 DEF Inv, TypeOK, Rows
<1>14. \A u \in Transactions : \A row \in staged'[u] :
         row.seq < next_seq' /\ \A old \in events' : old.seq < row.seq
  BY <1>1, <1>2, <1>4, <1>6 DEF Inv, TypeOK, Rows
<1>15. \A u \in Transactions : staged'[u] # {} => chain_lock' = u
  BY <1>1, <1>6
<1>16. Linked(events') /\ HasHead(events')
  BY <1>1 DEF Inv
<1>17. \A u \in Transactions : Linked(Visible(u))' /\ HasHead(Visible(u))'
  BY <1>12 DEF Linked, HasHead
<1> QED
  BY <1>7, <1>13, <1>14, <1>15, <1>16, <1>17 DEF Inv, Linked, HasHead

\* A commit publishes exactly what its transaction saw.
LEMMA CommitStep ==
  ASSUME Inv, NEW t \in Transactions, Commit(t)
  PROVE  Inv' /\ \A new \in events' \ events : \A old \in events : old.seq < new.seq
<1>1. /\ chain_lock = t /\ chain_lock' = None
      /\ events' = Visible(t)
      /\ staged' = [staged EXCEPT ![t] = {}]
      /\ next_seq' = next_seq /\ audit' = audit
  BY DEF Commit, Visible
<1>2. \A u \in Transactions : staged'[u] = {}
  BY <1>1, NoneAssumption DEF Inv, TypeOK
<1>3. TypeOK'
  BY <1>1 DEF Inv, TypeOK, Visible
<1>4. \A row \in events' : row.seq < next_seq'
  BY <1>1 DEF Inv, Visible
<1>5. Linked(events') /\ HasHead(events')
  BY <1>1 DEF Inv
<1>6. \A u \in Transactions : Visible(u)' = events'
  BY <1>2 DEF Visible
<1>7. \A new \in events' \ events : \A old \in events : old.seq < new.seq
  BY <1>1 DEF Inv, Visible
<1> QED
  BY <1>2, <1>3, <1>4, <1>5, <1>6, <1>7 DEF Inv, Linked, HasHead

\* A rollback leaves the committed chain alone.
LEMMA RollbackStep ==
  ASSUME Inv, NEW t \in Transactions, Rollback(t)
  PROVE  Inv' /\ events' = events
<1>1. /\ chain_lock = t /\ chain_lock' = None
      /\ staged' = [staged EXCEPT ![t] = {}]
      /\ events' = events /\ next_seq' = next_seq /\ audit' = audit
  BY DEF Rollback
<1>2. \A u \in Transactions : staged'[u] = {}
  BY <1>1, NoneAssumption DEF Inv, TypeOK
<1>3. TypeOK'
  BY <1>1 DEF Inv, TypeOK
<1>4. \A u \in Transactions : Visible(u)' = events
  BY <1>1, <1>2 DEF Visible
<1> QED
  BY <1>1, <1>2, <1>3, <1>4 DEF Inv, Linked, HasHead

\* verifyChain only reads.
LEMMA WalkStep ==
  ASSUME Inv, WalkRow \/ FinishWalk \/ RestartWalk \/ UNCHANGED vars
  PROVE  Inv' /\ events' = events
<1>1. UNCHANGED ledger
  BY DEF WalkRow, FinishWalk, RestartWalk, vars
<1>2. TypeOK'
  <2>1. TypeOK /\ UNCHANGED <<events, next_seq, chain_lock, staged>>
    BY <1>1 DEF Inv, ledger
  <2>2. CASE WalkRow
    <3>1. PICK row \in events :
            audit' = [last_seq |-> row.seq, prev |-> row.this_hash,
                      result |-> RowResult(row)]
      BY <2>2 DEF WalkRow, Unwalked
    <3>2. row.seq \in Nat /\ row.this_hash \in Seq(Bodies)
      BY <2>1 DEF TypeOK, Rows
    <3>3. RowResult(row) \in {"walking", "ok", "gap", "broken"}
      BY DEF RowResult
    <3> QED
      BY <2>1, <3>1, <3>2, <3>3 DEF TypeOK
  <2>3. CASE FinishWalk
    BY <2>1, <2>3 DEF TypeOK, FinishWalk
  <2>4. CASE RestartWalk
    BY <2>1, <2>4 DEF TypeOK, RestartWalk, StartOfWalk, Genesis
  <2>5. CASE UNCHANGED vars
    BY <2>1, <2>5 DEF TypeOK, vars
  <2> QED
    BY <2>2, <2>3, <2>4, <2>5
<1>3. \A t \in Transactions : Visible(t)' = Visible(t)
  BY <1>1 DEF Visible, ledger
<1>4. UNCHANGED <<events, next_seq, chain_lock, staged>>
  BY <1>1 DEF ledger
<1>5. \A t \in Transactions : Linked(Visible(t))' /\ HasHead(Visible(t))'
  BY <1>3 DEF Inv, Linked, HasHead
<1> QED
  BY <1>2, <1>4, <1>5 DEF Inv, Linked, HasHead

\* The inductive invariant holds in every reachable state, and no step adds
\* an event below another.
THEOREM InvCorrect == Spec => []Inv
<1>1. Inv /\ [Next]_vars => Inv'
  BY AppendStep, CommitStep, RollbackStep, WalkStep DEF Next, LedgerStep
<1> QED
  BY <1>1, InvInit, PTL DEF Spec

\* Every hash of the ledger is a hash of bodies, the genesis value included.
THEOREM TypeCorrect == Spec => []TypeOK
<1>1. Inv => TypeOK
  BY DEF Inv
<1> QED
  BY <1>1, InvCorrect, PTL

\* appendEvent never forks the chain, whatever commits, rolls back and
\* interleaves.
THEOREM ChainCorrect == Spec => []ChainIsLinear
<1>1. Inv => ChainIsLinear
  BY DEF Inv, ChainIsLinear
<1> QED
  BY <1>1, InvCorrect, PTL

\* Events become visible in the order of their numbers, which is what every
\* reader with a cursor relies on.
THEOREM OrderCorrect == Spec => CommitsInOrder
<1> DEFINE InOrder ==
      \A new \in events' \ events : \A old \in events : old.seq < new.seq
<1>1. Inv /\ [Next]_vars => [InOrder]_vars
  BY CommitStep, RollbackStep, WalkStep DEF Next, LedgerStep, AppendEvent
<1>2. [][InOrder]_vars => CommitsInOrder
  BY DEF CommitsInOrder
<1> HIDE DEF InOrder
<1> QED
  BY <1>1, <1>2, InvCorrect, PTL DEF Spec

\* Where a walk stands: at the start, or on a committed row.
WalkAt ==
  audit.result = "walking" =>
    \/ audit.last_seq = 0 /\ audit.prev = Genesis
    \/ \E row \in events :
         row.seq = audit.last_seq /\ row.this_hash = audit.prev

\* The row after the one a walk stands on continues it.
LEMMA NextRowContinues ==
  ASSUME Inv, WalkAt, audit.result = "walking",
         NEW row \in events, row.seq = audit.last_seq + 1
  PROVE  row.prev_hash = audit.prev /\ row.this_hash = Append(audit.prev, row.body)
<1> DEFINE S == Below(events, row.seq)
<1>1. TypeOK /\ Linked(events)
  BY DEF Inv
<1>2. /\ row.prev_hash = HeadHash(S)
      /\ row.this_hash = Append(row.prev_hash, row.body)
  BY <1>1 DEF Linked
<1>3. HeadHash(S) = audit.prev
  <2>1. \A r \in events : r.seq \in Nat \ {0}
    BY <1>1 DEF TypeOK, Rows
  <2>2. audit.last_seq \in Nat
    BY <1>1 DEF TypeOK
  <2>3. CASE audit.last_seq = 0 /\ audit.prev = Genesis
    <3>1. S = {}
      BY <2>1, <2>3 DEF Below
    <3> QED
      BY <2>3, <3>1 DEF HeadHash
  <2>4. ASSUME NEW last \in events, last.seq = audit.last_seq,
               last.this_hash = audit.prev
        PROVE  HeadHash(S) = audit.prev
    <3>1. last \in S /\ \A other \in S : other.seq <= last.seq
      BY <2>1, <2>2, <2>4 DEF Below
    <3>2. \A r \in S : r \in events
      BY DEF Below
    <3> HIDE DEF S
    <3>3. /\ HeadOf(S) \in S
          /\ \A other \in S : other.seq <= HeadOf(S).seq
      BY <3>1 DEF HeadOf
    <3>4. HeadOf(S).seq = last.seq
      BY <2>1, <3>1, <3>2, <3>3
    <3>5. HeadOf(S) = last
      BY <1>1, <3>2, <3>3, <3>4 DEF Linked
    <3> QED
      BY <2>4, <3>1, <3>5 DEF HeadHash
  <2> QED
    BY <2>3, <2>4 DEF WalkAt
<1> QED
  BY <1>2, <1>3

\* verifyChain never finds a broken link in a ledger that only appendEvent
\* wrote to, whatever commits while it walks.
THEOREM AuditCorrect == Spec => []AuditNeverBroken
<1>1. Init => WalkAt /\ AuditNeverBroken
  BY DEF Init, WalkAt, AuditNeverBroken, StartOfWalk
<1>2. Inv /\ WalkAt /\ AuditNeverBroken /\ [Next]_vars =>
        WalkAt' /\ AuditNeverBroken'
  <2> SUFFICES ASSUME Inv, WalkAt, AuditNeverBroken, [Next]_vars
               PROVE  WalkAt' /\ AuditNeverBroken'
    OBVIOUS
  <2>1. CASE WalkRow
    <3>1. PICK row \in events :
            audit' = [last_seq |-> row.seq, prev |-> row.this_hash,
                      result |-> RowResult(row)]
      BY <2>1 DEF WalkRow, Unwalked
    <3>2. audit.result = "walking" /\ events' = events
      BY <2>1 DEF WalkRow, ledger
    <3>3. RowResult(row) # "broken"
      BY <3>2, NextRowContinues DEF RowResult
    <3> QED
      BY <3>1, <3>2, <3>3 DEF WalkAt, AuditNeverBroken
  <2>2. CASE FinishWalk \/ RestartWalk
    BY <2>2 DEF FinishWalk, RestartWalk, WalkAt, AuditNeverBroken,
       StartOfWalk, Inv, TypeOK
  <2>3. CASE audit' = audit /\ events \subseteq events'
    BY <2>3 DEF WalkAt, AuditNeverBroken
  <2>4. CASE LedgerStep
    BY <2>3, <2>4 DEF LedgerStep, AppendEvent, Commit, Rollback
  <2>5. CASE UNCHANGED vars
    BY <2>3, <2>5 DEF vars, ledger
  <2> QED
    BY <2>1, <2>2, <2>4, <2>5 DEF Next
<1> QED
  BY <1>1, <1>2, InvCorrect, PTL DEF Spec

-----------------------------------------------------------------------------
(* HeadPublication.                                                        *)

allVars == <<vars, publication>>

\* One process runs the job; its ticks do not overlap (head-publication-job.ts).
OnePublisher == \A p, q \in Publishers : p = q

Steps == {"idle", "head", "put", "latest", "post"}
Object(row) == [seq |-> row.seq, head_hash |-> row.this_hash]

\* The types of the publication's variables.
PublicationTypeOK ==
  /\ today \in 1..MaxDay
  /\ heads \in [1..MaxDay -> Objects \cup {None}]
  /\ at \in [Publishers -> Steps]
  /\ date \in [Publishers -> (1..MaxDay) \cup {None}]
  /\ head \in [Publishers -> Rows \cup {None}]
  /\ against \in [todo : SUBSET (1..MaxDay),
                  result : {"idle", "checking", "mismatch", "cross-checked"}]

\* A publisher that goes on has a day, and then a committed row to publish.
HoldsCommitted ==
  \A p \in Publishers :
    /\ at[p] # "idle" => date[p] \in 1..MaxDay
    /\ at[p] \in {"put", "latest", "post"} => head[p] \in events

\* A check of the heads goes through days that have one.
ChecksPublished ==
  against.result = "checking" => \A d \in against.todo : heads[d] # None

\* What makes HeadsAreCommitted inductive, for any number of publishers.
CommittedInv ==
  PublicationTypeOK /\ HoldsCommitted /\ ChecksPublished /\ HeadsAreCommitted

\* Until it puts the object its day has none, and afterwards the object is its
\* own: true of a job whose ticks do not overlap.
OwnsTheDay ==
  \A p \in Publishers :
    /\ at[p] \in {"head", "put"} => heads[date[p]] = None
    /\ at[p] \in {"latest", "post"} => heads[date[p]] = Object(head[p])

\* Whatever was told of a day is what the store holds for it.
ToldOf(told) ==
  /\ told.date \in 1..MaxDay
  /\ heads[told.date] = [seq |-> told.seq, head_hash |-> told.head_hash]
  /\ heads[told.date] # None

RewriteInv ==
  OwnsTheDay /\ \A told \in posted \cup ({latest} \ {None}) : ToldOf(told)

\* The object of a row is one, and is not the absence of one.
LEMMA ObjectOfRow ==
  ASSUME NEW row \in Rows
  PROVE  Object(row) \in Objects /\ Object(row) # None
BY DayAssumption DEF Object, Objects, Rows

\* Committed rows stay.
LEMMA EventsStay == Next => events \subseteq events'
BY DEF Next, LedgerStep, AppendEvent, Commit, Rollback, WalkRow, FinishWalk, RestartWalk, ledger

\* The head of a ledger that has events is one of them.
LEMMA HeadIsCommitted ==
  ASSUME Inv, events # {}
  PROVE  HeadOf(events) \in events /\ HeadOf(events) \in Rows
BY DEF Inv, HasHead, HeadOf, TypeOK

\* At first nothing is published.
LEMMA CommittedInit == PublishedInit => CommittedInv /\ RewriteInv
<1> SUFFICES ASSUME PublishedInit PROVE CommittedInv /\ RewriteInv
  OBVIOUS
<1>1. PublicationTypeOK
  BY DayAssumption DEF PublishedInit, PublicationInit, PublicationTypeOK, Steps, Unchecked
<1>2. HoldsCommitted /\ ChecksPublished /\ HeadsAreCommitted
  BY DEF PublishedInit, PublicationInit, HoldsCommitted, ChecksPublished, HeadsAreCommitted, Unchecked
<1>3. RewriteInv
  BY DEF PublishedInit, PublicationInit, RewriteInv, OwnsTheDay
<1> QED
  BY <1>1, <1>2, <1>3 DEF CommittedInv

\* A step of the ledger leaves the publication alone and keeps its rows.
LEMMA LedgerKeeps ==
  ASSUME CommittedInv, events \subseteq events', UNCHANGED publication
  PROVE  CommittedInv' /\ (RewriteInv => RewriteInv')
<1> USE DEF publication
<1>1. PublicationTypeOK'
  BY DEF CommittedInv, PublicationTypeOK
<1>2. HoldsCommitted' /\ ChecksPublished'
  BY DEF CommittedInv, HoldsCommitted, ChecksPublished
<1>3. HeadsAreCommitted'
  BY DEF CommittedInv, HeadsAreCommitted
<1>4. RewriteInv => RewriteInv'
  BY DEF RewriteInv, OwnsTheDay, ToldOf
<1> QED
  BY <1>1, <1>2, <1>3, <1>4 DEF CommittedInv

\* The day ends.
LEMMA MidnightKeeps ==
  ASSUME CommittedInv, UNCHANGED vars, Midnight
  PROVE  CommittedInv' /\ (RewriteInv => RewriteInv')
<1> USE DEF vars, ledger, Midnight
<1>1. PublicationTypeOK'
  BY DayAssumption DEF CommittedInv, PublicationTypeOK
<1>2. HoldsCommitted' /\ ChecksPublished' /\ HeadsAreCommitted'
  BY DEF CommittedInv, HoldsCommitted, ChecksPublished, HeadsAreCommitted
<1>3. RewriteInv => RewriteInv'
  BY DEF RewriteInv, OwnsTheDay, ToldOf
<1> QED
  BY <1>1, <1>2, <1>3 DEF CommittedInv

\* A tick, and what the job reads before it writes.
LEMMA ReadingKeeps ==
  ASSUME Inv, CommittedInv, UNCHANGED vars, NEW p \in Publishers,
         StartPublication(p) \/ ReadHead(p) \/ FailPublication(p)
  PROVE  CommittedInv' /\ (RewriteInv => RewriteInv')
<1> USE DEF vars, ledger
<1>2. CASE StartPublication(p)
  <2>1. PublicationTypeOK'
    BY <1>2 DEF StartPublication, CommittedInv, PublicationTypeOK, Steps
  <2>2. HoldsCommitted'
    BY <1>2 DEF StartPublication, CommittedInv, PublicationTypeOK, HoldsCommitted
  <2>3. ChecksPublished' /\ HeadsAreCommitted'
    BY <1>2 DEF StartPublication, CommittedInv, ChecksPublished, HeadsAreCommitted
  <2>4. RewriteInv => RewriteInv'
    BY <1>2 DEF StartPublication, CommittedInv, PublicationTypeOK, RewriteInv, OwnsTheDay, ToldOf,
       GetObject
  <2> QED
    BY <2>1, <2>2, <2>3, <2>4 DEF CommittedInv
<1>3. CASE ReadHead(p)
  <2>1. PublicationTypeOK'
    BY <1>3, HeadIsCommitted DEF ReadHead, CommittedInv, PublicationTypeOK, Steps
  <2>2. HoldsCommitted'
    BY <1>3, HeadIsCommitted DEF ReadHead, CommittedInv, PublicationTypeOK, HoldsCommitted
  <2>3. ChecksPublished' /\ HeadsAreCommitted'
    BY <1>3 DEF ReadHead, CommittedInv, ChecksPublished, HeadsAreCommitted
  <2>4. RewriteInv => RewriteInv'
    BY <1>3 DEF ReadHead, CommittedInv, PublicationTypeOK, RewriteInv, OwnsTheDay, ToldOf
  <2> QED
    BY <2>1, <2>2, <2>3, <2>4 DEF CommittedInv
<1>4. CASE FailPublication(p)
  <2>1. PublicationTypeOK'
    BY <1>4 DEF FailPublication, CommittedInv, PublicationTypeOK, Steps
  <2>2. HoldsCommitted'
    BY <1>4 DEF FailPublication, CommittedInv, PublicationTypeOK, HoldsCommitted
  <2>3. ChecksPublished' /\ HeadsAreCommitted'
    BY <1>4 DEF FailPublication, CommittedInv, ChecksPublished, HeadsAreCommitted
  <2>4. RewriteInv => RewriteInv'
    BY <1>4 DEF FailPublication, CommittedInv, PublicationTypeOK, RewriteInv, OwnsTheDay, ToldOf
  <2> QED
    BY <2>1, <2>2, <2>3, <2>4 DEF CommittedInv
<1> QED
  BY <1>2, <1>3, <1>4

\* The put of the day's object: the row it names is committed, and with one
\* publisher nobody was told of that day before.
LEMMA PutKeeps ==
  ASSUME Inv, CommittedInv, UNCHANGED vars, NEW p \in Publishers, PutHead(p)
  PROVE  /\ CommittedInv'
         /\ OnePublisher /\ RewriteInv => RewriteInv'
<1> USE DEF vars, ledger
<1>1. /\ at[p] = "put" /\ date[p] \in 1..MaxDay /\ head[p] \in events /\ head[p] \in Rows
      /\ heads' = [heads EXCEPT ![date[p]] = Object(head[p])]
      /\ at' = [at EXCEPT ![p] = "latest"]
      /\ UNCHANGED <<events, today, latest, posted, date, head, against>>
  BY DEF PutHead, PutObject, Object, CommittedInv, HoldsCommitted, Inv, TypeOK
<1>2. Object(head[p]) \in Objects /\ Object(head[p]) # None
  BY <1>1, ObjectOfRow
<1>3. PublicationTypeOK
  BY DEF CommittedInv
<1>4. PublicationTypeOK'
  BY <1>1, <1>2, <1>3 DEF PublicationTypeOK, Steps
<1>5. HoldsCommitted'
  BY <1>1, <1>3 DEF CommittedInv, PublicationTypeOK, HoldsCommitted
<1>6. ChecksPublished'
  BY <1>1, <1>2, <1>3 DEF CommittedInv, PublicationTypeOK, ChecksPublished
<1>7. HeadsAreCommitted'
  BY <1>1, <1>2, <1>3 DEF CommittedInv, PublicationTypeOK, HeadsAreCommitted, Object
<1>8. ASSUME OnePublisher, RewriteInv PROVE RewriteInv'
  <2>1. heads[date[p]] = None
    BY <1>1, <1>8 DEF RewriteInv, OwnsTheDay
  <2>2. OwnsTheDay'
    BY <1>1, <1>2, <1>3, <1>8 DEF OnePublisher, OwnsTheDay, PublicationTypeOK
  <2>3. ASSUME NEW told \in posted \cup ({latest} \ {None}) PROVE ToldOf(told)'
    <3>1. ToldOf(told)
      BY <1>8 DEF RewriteInv
    <3>2. told.date # date[p]
      BY <2>1, <3>1 DEF ToldOf
    <3> QED
      BY <1>1, <1>3, <3>1, <3>2 DEF ToldOf, PublicationTypeOK
  <2> QED
    BY <1>1, <2>2, <2>3 DEF RewriteInv
<1> QED
  BY <1>4, <1>5, <1>6, <1>7, <1>8 DEF CommittedInv

\* The pointer and the webhooks get the object that the publisher put.
LEMMA TellingKeeps ==
  ASSUME Inv, CommittedInv, UNCHANGED vars, NEW p \in Publishers, PutLatest(p) \/ PostHead(p)
  PROVE  CommittedInv' /\ (RewriteInv => RewriteInv')
<1> USE DEF vars, ledger
<1> DEFINE told == [date |-> date[p], seq |-> head[p].seq, head_hash |-> head[p].this_hash]
<1>1. /\ at[p] \in {"latest", "post"}
      /\ \E step \in {"post", "idle"} : at' = [at EXCEPT ![p] = step]
      /\ posted' \cup ({latest'} \ {None}) \subseteq posted \cup ({latest} \ {None}) \cup {told}
      /\ UNCHANGED <<events, today, heads, date, head, against>>
  BY DEF PutLatest, PostHead
<1>2. PublicationTypeOK /\ HoldsCommitted
  BY DEF CommittedInv
<1>3. PublicationTypeOK'
  BY <1>1, <1>2 DEF PublicationTypeOK, Steps
<1>4. HoldsCommitted'
  BY <1>1, <1>2 DEF PublicationTypeOK, HoldsCommitted
<1>5. ChecksPublished' /\ HeadsAreCommitted'
  BY <1>1 DEF CommittedInv, ChecksPublished, HeadsAreCommitted
<1>6. ASSUME RewriteInv PROVE RewriteInv'
  <2>1. heads[date[p]] = Object(head[p]) /\ date[p] \in 1..MaxDay
    BY <1>1, <1>2, <1>6 DEF RewriteInv, OwnsTheDay, HoldsCommitted
  <2>2. Object(head[p]) # None
    BY <1>1, <1>2, ObjectOfRow DEF HoldsCommitted, Inv, TypeOK
  <2>3. ToldOf(told)
    BY <2>1, <2>2 DEF ToldOf, Object
  <2>4. OwnsTheDay'
    BY <1>1, <1>2, <1>6 DEF RewriteInv, OwnsTheDay, PublicationTypeOK
  <2>5. \A t \in posted' \cup ({latest'} \ {None}) : ToldOf(t)
    BY <1>1, <1>6, <2>3 DEF RewriteInv
  <2> QED
    BY <1>1, <2>4, <2>5 DEF RewriteInv, ToldOf
<1> QED
  BY <1>3, <1>4, <1>5, <1>6 DEF CommittedInv

\* The check of the heads finds every row it looks for.
LEMMA CheckingKeeps ==
  ASSUME CommittedInv, UNCHANGED vars, StartAgainstHeads \/ CheckHead \/ FinishAgainstHeads
  PROVE  CommittedInv' /\ (RewriteInv => RewriteInv')
<1> USE DEF vars, ledger
<1>1. PublicationTypeOK /\ HeadsAreCommitted
  BY DEF CommittedInv
<1>2. UNCHANGED <<events, today, heads, latest, posted, at, date, head>>
  BY DEF StartAgainstHeads, CheckHead, FinishAgainstHeads
<1>3. /\ against' \in [todo : SUBSET (1..MaxDay),
                       result : {"idle", "checking", "mismatch", "cross-checked"}]
      /\ against'.result # "mismatch"
      /\ against'.result = "checking" => \A d \in against'.todo : heads[d] # None
  <2>1. CASE StartAgainstHeads
    BY <2>1 DEF StartAgainstHeads, ListObjects
  <2>2. CASE CheckHead
    <3>1. PICK d \in against.todo :
            against' = IF \E row \in events : /\ row.seq = heads[d].seq
                                              /\ row.this_hash = heads[d].head_hash
                         THEN [against EXCEPT !.todo = @ \ {d}]
                         ELSE [against EXCEPT !.result = "mismatch"]
      BY <2>2 DEF CheckHead, GetObject
    <3>2. against.result = "checking" /\ d \in 1..MaxDay /\ heads[d] # None
      BY <1>1, <2>2 DEF CheckHead, CommittedInv, ChecksPublished, PublicationTypeOK
    <3>3. against' = [against EXCEPT !.todo = @ \ {d}]
      BY <1>1, <3>1, <3>2 DEF HeadsAreCommitted
    <3> QED
      BY <1>1, <3>2, <3>3 DEF CommittedInv, ChecksPublished, PublicationTypeOK
  <2>3. CASE FinishAgainstHeads
    BY <1>1, <2>3 DEF FinishAgainstHeads, PublicationTypeOK
  <2> QED
    BY <2>1, <2>2, <2>3
<1>4. PublicationTypeOK'
  BY <1>1, <1>2, <1>3 DEF PublicationTypeOK
<1>5. HoldsCommitted' /\ ChecksPublished' /\ HeadsAreCommitted'
  BY <1>2, <1>3 DEF CommittedInv, HoldsCommitted, ChecksPublished, HeadsAreCommitted
<1>6. RewriteInv => RewriteInv'
  BY <1>2 DEF RewriteInv, OwnsTheDay, ToldOf
<1> QED
  BY <1>4, <1>5, <1>6 DEF CommittedInv

\* Every step keeps both invariants, the second one with one publisher.
LEMMA PublishedStep ==
  ASSUME Inv, CommittedInv, [PublishedNext]_allVars
  PROVE  /\ Inv' /\ CommittedInv'
         /\ OnePublisher /\ RewriteInv => RewriteInv'
<1>1. CASE Next /\ UNCHANGED publication
  <2>1. Inv'
    BY <1>1, AppendStep, CommitStep, RollbackStep, WalkStep DEF Next, LedgerStep
  <2> QED
    BY <1>1, <2>1, EventsStay, LedgerKeeps
<1>2. CASE PublicationStep /\ UNCHANGED vars
  <2>1. Inv'
    BY <1>2, WalkStep
  <2>2. CASE \E p \in Publishers :
               StartPublication(p) \/ ReadHead(p) \/ FailPublication(p)
    BY <1>2, <2>1, <2>2, ReadingKeeps
  <2>3. CASE \E p \in Publishers : PutHead(p)
    BY <1>2, <2>1, <2>3, PutKeeps
  <2>4. CASE \E p \in Publishers : PutLatest(p) \/ PostHead(p)
    BY <1>2, <2>1, <2>4, TellingKeeps
  <2>5. CASE StartAgainstHeads \/ CheckHead \/ FinishAgainstHeads
    BY <1>2, <2>1, <2>5, CheckingKeeps
  <2>6. CASE Midnight
    BY <1>2, <2>1, <2>6, MidnightKeeps
  <2> QED
    BY <1>2, <2>2, <2>3, <2>4, <2>5, <2>6 DEF PublicationStep
<1>3. CASE UNCHANGED allVars
  <2>1. Inv'
    BY <1>3, WalkStep DEF allVars
  <2> QED
    BY <1>3, <2>1, LedgerKeeps DEF allVars, vars, ledger
<1> QED
  BY <1>1, <1>2, <1>3 DEF PublishedNext

\* Whatever appends, commits, rolls back, ticks, fails and checks, and with any
\* number of publishers, every published head names a committed row, and the
\* check of an honest ledger against its heads finds no mismatch.
THEOREM HeadsAreCommittedCorrect == PublishedSpec => []HeadsAreCommitted
<1>1. PublishedInit => Inv /\ CommittedInv
  BY InvInit, CommittedInit DEF PublishedInit
<1>2. Inv /\ CommittedInv /\ [PublishedNext]_<<vars, publication>> => Inv' /\ CommittedInv'
  BY PublishedStep DEF allVars
<1>3. CommittedInv => HeadsAreCommitted
  BY DEF CommittedInv
<1> QED
  BY <1>1, <1>2, <1>3, PTL DEF PublishedSpec

\* With one publisher, whose ticks do not overlap, a published head is in
\* addition the head of its day for ever.
THEOREM HeadsCorrect ==
  ASSUME OnePublisher
  PROVE  PublishedSpec => []HeadsAnchorTheChain
<1>1. PublishedInit => Inv /\ CommittedInv /\ RewriteInv
  BY InvInit, CommittedInit DEF PublishedInit
<1>2. Inv /\ CommittedInv /\ RewriteInv /\ [PublishedNext]_<<vars, publication>>
        => Inv' /\ CommittedInv' /\ RewriteInv'
  BY OnePublisher, PublishedStep DEF allVars
<1>3. CommittedInv /\ RewriteInv => HeadsAnchorTheChain
  BY DEF CommittedInv, RewriteInv, ToldOf, HeadsAnchorTheChain, NeverRewritten
<1> QED
  BY <1>1, <1>2, <1>3, PTL DEF PublishedSpec

-----------------------------------------------------------------------------
(***************************************************************************)
(* Proof packs.                                                            *)
(***************************************************************************)

PackBodies ==
     {CommitmentCreated(cor) : cor \in Committed}
  \cup {TokenMinted(token) : token \in Tokens}
  \cup {ConversionClaimed(claim) : claim \in Claims}
  \cup {Verdict(type, claim) :
          type \in {"ConversionVerified", "ConversionRejected", "ConversionReversed"}, claim \in Claims}

PackRows ==
  [seq : Nat, body : PackBodies, prev_hash : Seq(PackBodies), this_hash : Seq(PackBodies)]

PackHashed(rows) ==
  \A i \in 1..Len(rows) : rows[i].this_hash = Append(rows[i].prev_hash, rows[i].body)
PackLinked(rows) ==
  \A i \in 1..Len(rows) : i + 1 \in 1..Len(rows) => rows[i + 1].prev_hash = rows[i].this_hash
PackRising(rows) == \A i, j \in 1..Len(rows) : i < j => rows[i].seq < rows[j].seq
PackBelow(rows, number) == \A i \in 1..Len(rows) : rows[i].seq < number

\* The ledger is one chain, numbered upwards, and a head is one of its rows.
PacksInv ==
  /\ next_number \in Nat /\ chain \in Seq(PackRows)
  /\ PackHashed(chain) /\ PackLinked(chain) /\ PackRising(chain) /\ PackBelow(chain, next_number)
  /\ \A anchor \in anchors : \E i \in 1..Len(chain) :
       anchor = [seq |-> chain[i].seq, head_hash |-> chain[i].this_hash]

\* The packs start well.
LEMMA PacksInvInit == PacksInit => PacksInv
BY DEF PacksInit, PacksInv, PackHashed, PackLinked, PackRising, PackBelow

\* The tip of the chain is the hash of its last row.
LEMMA TipIsLast ==
  ASSUME PacksInv
  PROVE  Tip \in Seq(PackBodies) /\ (chain # <<>> => Tip = chain[Len(chain)].this_hash)
<1>1. chain \in Seq(PackRows)
  BY DEF PacksInv
<1>2. CASE chain = <<>>
  BY <1>2 DEF Tip
<1>3. CASE chain # <<>>
  <2>1. chain[Len(chain)] \in PackRows
    BY <1>1, <1>3
  <2> QED
    BY <1>3, <2>1 DEF Tip, PackRows
<1> QED
  BY <1>2, <1>3

\* What may be appended is a body.
LEMMA AppendableIsBody == Appendable \subseteq PackBodies
<1> DEFINE CreatedDocs == {CommitmentCreated(cor) : cor \in Committed}
           MintedDocs == {TokenMinted(t) : t \in {u \in Tokens :
             \E cor \in Committed : cor.commitment_id = u.cid /\ CommitmentCreated(cor) \in Said}}
           ClaimedDocs == {ConversionClaimed(c) : c \in {d \in Claims : TokenMinted(d.token) \in Said}}
           Decided == UNION {Verdicts(c) : c \in {d \in Claims :
             ConversionClaimed(d) \in Said /\ Verdicts(d) \cap Said = {}}}
           ReversedDocs == {Verdict("ConversionReversed", c) :
             c \in {d \in Claims : Verdict("ConversionVerified", d) \in Said}}
<1>1. CreatedDocs \subseteq PackBodies
  BY DEF PackBodies
<1>2. MintedDocs \subseteq PackBodies
  BY DEF PackBodies
<1>3. ClaimedDocs \subseteq PackBodies
  BY DEF PackBodies
<1>4. Decided \subseteq PackBodies
  <2>1. \A c \in Claims : Verdicts(c) \subseteq PackBodies
    BY DEF Verdicts, PackBodies
  <2> QED
    BY <2>1
<1>5. ReversedDocs \subseteq PackBodies
  BY DEF PackBodies
<1>6. Appendable = CreatedDocs \cup MintedDocs \cup ClaimedDocs \cup Decided \cup ReversedDocs
  BY DEF Appendable
<1> HIDE DEF CreatedDocs, MintedDocs, ClaimedDocs, Decided, ReversedDocs
<1> QED
  BY <1>1, <1>2, <1>3, <1>4, <1>5, <1>6

\* A row that is numbered on and holds the hash of the last extends the chain.
LEMMA RowExtends ==
  ASSUME NEW rows \in Seq(PackRows), NEW row \in PackRows, NEW more, more = Append(rows, row),
         PackHashed(rows), PackLinked(rows), PackRising(rows), PackBelow(rows, row.seq),
         row.this_hash = Append(row.prev_hash, row.body),
         rows # <<>> => row.prev_hash = rows[Len(rows)].this_hash
  PROVE  PackHashed(more) /\ PackLinked(more) /\ PackRising(more) /\ PackBelow(more, row.seq + 1)
<1>1. /\ Len(rows) \in Nat /\ Len(more) = Len(rows) + 1 /\ more[Len(rows) + 1] = row
      /\ \A i \in 1..Len(rows) : more[i] = rows[i] /\ rows[i] \in PackRows
      /\ Len(rows) # 0 => rows # <<>>
  OBVIOUS
<1>2. row.seq \in Nat /\ \A i \in 1..Len(rows) : rows[i].seq \in Nat
  BY <1>1 DEF PackRows
<1>3. PackHashed(more)
  BY <1>1 DEF PackHashed
<1>4. ASSUME NEW i \in 1..Len(more), i + 1 \in 1..Len(more)
      PROVE  more[i + 1].prev_hash = more[i].this_hash
  <2>1. i \in 1..Len(rows) /\ Len(rows) # 0
    BY <1>1, <1>4
  <2>2. CASE i = Len(rows)
    BY <1>1, <2>1, <2>2
  <2>3. CASE i # Len(rows)
    <3>1. i + 1 \in 1..Len(rows)
      BY <1>1, <2>1, <2>3
    <3> QED
      BY <1>1, <2>1, <3>1 DEF PackLinked
  <2> QED
    BY <2>2, <2>3
<1>5. ASSUME NEW i \in 1..Len(more), NEW j \in 1..Len(more), i < j
      PROVE  more[i].seq < more[j].seq
  <2>1. i \in 1..Len(rows) /\ more[i] = rows[i]
    BY <1>1, <1>5
  <2>2. CASE j = Len(rows) + 1
    <3>1. more[j] = row
      BY <1>1, <2>2
    <3>2. rows[i].seq < row.seq
      BY <2>1 DEF PackBelow
    <3> QED
      BY <2>1, <3>1, <3>2
  <2>3. CASE j # Len(rows) + 1
    <3>1. j \in 1..Len(rows) /\ more[j] = rows[j]
      BY <1>1, <2>3
    <3>2. rows[i].seq < rows[j].seq
      BY <1>5, <2>1, <3>1 DEF PackRising
    <3> QED
      BY <2>1, <3>1, <3>2
  <2> QED
    BY <2>2, <2>3
<1>6. ASSUME NEW i \in 1..Len(more) PROVE more[i].seq < row.seq + 1
  <2>1. CASE i = Len(rows) + 1
    BY <1>1, <1>2, <2>1
  <2>2. CASE i # Len(rows) + 1
    <3>1. i \in 1..Len(rows) /\ more[i] = rows[i]
      BY <1>1, <2>2
    <3>2. rows[i].seq < row.seq
      BY <3>1 DEF PackBelow
    <3> QED
      BY <1>2, <3>1, <3>2
  <2> QED
    BY <2>1, <2>2
<1> QED
  BY <1>3, <1>4, <1>5, <1>6 DEF PackLinked, PackRising, PackBelow

\* An append continues the chain.
LEMMA AppendBodyKeeps ==
  ASSUME PacksInv, NEW body \in Appendable, AppendBody(body)
  PROVE  PacksInv'
<1> PICK row : row = [seq |-> next_number, body |-> body, prev_hash |-> Tip,
                      this_hash |-> Append(Tip, body)]
  OBVIOUS
<1>1. row \in PackRows /\ row.seq = next_number
      /\ row.prev_hash = Tip /\ row.this_hash = Append(row.prev_hash, row.body)
  <2> DEFINE H == Seq(PackBodies)
  <2>1. Tip \in H /\ body \in PackBodies /\ next_number \in Nat
    BY TipIsLast, AppendableIsBody DEF PacksInv
  <2>2. Append(Tip, body) \in H
    BY <2>1
  <2> HIDE DEF H
  <2> QED
    BY <2>1, <2>2 DEF PackRows, H
<1>2. /\ chain' = Append(chain, row) /\ next_number' = next_number + 1 /\ anchors' = anchors
      /\ chain \in Seq(PackRows) /\ next_number \in Nat
  BY DEF AppendBody, PacksInv
<1>3. chain' \in Seq(PackRows) /\ next_number' \in Nat
  BY <1>1, <1>2
<1>4. PackHashed(chain') /\ PackLinked(chain') /\ PackRising(chain') /\ PackBelow(chain', next_number')
  <2>1. /\ PackHashed(chain) /\ PackLinked(chain) /\ PackRising(chain) /\ PackBelow(chain, row.seq)
        /\ chain # <<>> => row.prev_hash = chain[Len(chain)].this_hash
    BY <1>1, TipIsLast DEF PacksInv
  <2>2. PICK more : more = Append(chain, row)
    OBVIOUS
  <2>3. PackHashed(more) /\ PackLinked(more) /\ PackRising(more) /\ PackBelow(more, row.seq + 1)
    <3> DEFINE Known(rows, r) ==
          /\ rows \in Seq(PackRows) /\ r \in PackRows
          /\ PackHashed(rows) /\ PackLinked(rows) /\ PackRising(rows) /\ PackBelow(rows, r.seq)
          /\ r.this_hash = Append(r.prev_hash, r.body)
          /\ rows # <<>> => r.prev_hash = rows[Len(rows)].this_hash
    <3> DEFINE Extended(m, r) ==
          PackHashed(m) /\ PackLinked(m) /\ PackRising(m) /\ PackBelow(m, r.seq + 1)
    <3>1. Known(chain, row)
      BY <1>1, <1>2, <2>1
    <3>2. \A rows, r, m : Known(rows, r) /\ m = Append(rows, r) => Extended(m, r)
      BY RowExtends, Zenon
    <3> HIDE DEF Known, Extended
    <3>3. Extended(more, row)
      BY <3>1, <3>2, <2>2, Zenon
    <3> QED
      BY <3>3 DEF Extended
  <2>4. chain' = more /\ next_number' = row.seq + 1
    BY <1>1, <1>2, <2>2
  <2> QED
    BY <2>3, <2>4
<1>5. \A i \in 1..Len(chain) : i \in 1..Len(chain') /\ chain'[i] = chain[i]
  BY <1>2
<1>6. \A anchor \in anchors' : \E i \in 1..Len(chain') :
        anchor = [seq |-> chain'[i].seq, head_hash |-> chain'[i].this_hash]
  BY <1>2, <1>5 DEF PacksInv
<1> QED
  BY <1>3, <1>4, <1>6 DEF PacksInv

\* Every step of the packs keeps the invariant.
LEMMA PacksInvStep == PacksInv /\ [PacksNext]_packVars => PacksInv'
<1> SUFFICES ASSUME PacksInv, [PacksNext]_packVars PROVE PacksInv'
  OBVIOUS
<1>1. CASE LoseNumber
  <2>1. UNCHANGED <<chain, anchors>> /\ next_number' = next_number + 1
    BY <1>1 DEF LoseNumber
  <2>2. ASSUME NEW i \in 1..Len(chain) PROVE chain[i].seq < next_number + 1
    <3>1. chain[i] \in PackRows
      BY DEF PacksInv
    <3>2. chain[i].seq \in Nat
      BY <3>1 DEF PackRows
    <3> QED
      BY <3>2 DEF PacksInv, PackBelow
  <2>3. next_number' \in Nat /\ PackBelow(chain, next_number')
    BY <2>1, <2>2 DEF PacksInv, PackBelow
  <2> QED
    BY <2>1, <2>3 DEF PacksInv
<1>2. CASE PublishAnchor
  <2>1. Len(chain) \in 1..Len(chain) /\ Tip = chain[Len(chain)].this_hash
    BY <1>2, TipIsLast DEF PublishAnchor, PacksInv
  <2> QED
    BY <1>2, <2>1 DEF PublishAnchor, PacksInv
<1>3. CASE UNCHANGED packVars
  BY <1>3 DEF packVars, PacksInv
<1> QED
  BY <1>1, <1>2, <1>3, AppendBodyKeeps DEF PacksNext

-----------------------------------------------------------------------------
\* The first row found is one of the rows found, and there is one if any is.
LEMMA FirstIsFound ==
  ASSUME NEW rows, NEW found, found \subseteq Nat
  PROVE  /\ \A row \in FirstRow(rows, found) : \E i \in found : row = rows[i]
         /\ found # {} => \E i \in found : FirstRow(rows, found) = {rows[i]}
<1>1. CASE found = {}
  BY <1>1 DEF FirstRow
<1>2. CASE found # {}
  <2>1. \E i \in found : \A j \in found : i <= j
    BY <1>2, LeastNumber
  <2>2. PICK m \in found : m = CHOOSE i \in found : \A j \in found : i <= j
    BY <2>1
  <2> QED
    BY <1>2, <2>2 DEF FirstRow
<1> QED
  BY <1>1, <1>2

\* The first row found is one of those found ...
LEMMA FoundIsThere ==
  \A rows, found : found \subseteq Nat =>
    \A row \in FirstRow(rows, found) : \E i \in found : row = rows[i]
BY FirstIsFound, Zenon

\* A pack is valid when every step holds.
StepsHold(pack, trust) ==
  /\ trust # {} /\ pack.events # <<>>
  /\ ChainHolds(pack.events, trust) /\ CorHolds(pack) /\ TokenHolds(pack) /\ ClaimHolds(pack)
  /\ VerdictIn(pack) # {}

\* What the command says of a pack.
LEMMA ExitCodes ==
  ASSUME NEW pack, NEW trust
  PROVE  /\ exitCode(verifyProofPack(pack, trust)) \in {0, 1, 2}
         /\ exitCode(verifyProofPack(pack, trust)) # 1 <=> StepsHold(pack, trust)
         /\ exitCode(verifyProofPack(pack, trust)) # 1 =>
              \E row \in VerdictIn(pack) :
                 exitCode(verifyProofPack(pack, trust)) = 0 <=> row.body.type = "ConversionVerified"
<1>1. CASE StepsHold(pack, trust)
  <2>1. PICK row \in VerdictIn(pack) : row = CHOOSE r \in VerdictIn(pack) : TRUE
    BY <1>1 DEF StepsHold
  <2>2. verifyProofPack(pack, trust) = Outcome(row, pack.claim)
    BY <1>1, <2>1 DEF StepsHold, verifyProofPack, trustIsWellFormed
  <2>3. exitCode(Outcome(row, pack.claim)) = IF row.body.type = "ConversionVerified" THEN 0 ELSE 2
    BY DEF Outcome, exitCode
  <2> DEFINE code == exitCode(verifyProofPack(pack, trust))
  <2>4. code = IF row.body.type = "ConversionVerified" THEN 0 ELSE 2
    BY <2>2, <2>3
  <2> HIDE DEF code
  <2>5. code \in {0, 1, 2} /\ code # 1 /\ (code = 0 <=> row.body.type = "ConversionVerified")
    BY <2>4
  <2> QED
    BY <1>1, <2>1, <2>5 DEF code
<1>2. CASE ~StepsHold(pack, trust)
  <2>1. \E step : verifyProofPack(pack, trust) = Invalid(step)
    BY <1>2 DEF StepsHold, verifyProofPack, trustIsWellFormed
  <2> QED
    BY <1>2, <2>1 DEF Invalid, exitCode
<1> QED
  BY <1>1, <1>2

\* What a body says of itself.
LEMMA BodyShape ==
  ASSUME NEW body \in PackBodies
  PROVE  /\ body.type # "altered"
         /\ body.type = "CommitmentCreated" => body.data \in Committed /\ body = CommitmentCreated(body.data)
         /\ body.type = "TokenMinted" => body.data \in Tokens /\ body = TokenMinted(body.data)
         /\ body.type = "ConversionClaimed" =>
              \E c \in Claims : body = ConversionClaimed(c) /\ body.data.claim_id = c.claim_id
<1>1. CASE \E cor \in Committed : body = CommitmentCreated(cor)
  BY <1>1 DEF CommitmentCreated, Body
<1>2. CASE \E token \in Tokens : body = TokenMinted(token)
  BY <1>2 DEF TokenMinted, Body
<1>3. CASE \E claim \in Claims : body = ConversionClaimed(claim)
  BY <1>3 DEF ConversionClaimed, Body
<1>4. CASE \E type \in {"ConversionVerified", "ConversionRejected", "ConversionReversed"},
              claim \in Claims : body = Verdict(type, claim)
  BY <1>4 DEF Verdict, Body
<1> QED
  BY <1>1, <1>2, <1>3, <1>4 DEF PackBodies

\* The rows of a pack cut from the ledger are rows of the ledger.
RowsOfCut(rows, cut) ==
  /\ rows # <<>> /\ Len(rows) \in Nat \ {0}
  /\ DOMAIN rows = 1..Len(rows) /\ Len(rows) = cut[2] - cut[1] + 1
  /\ cut[2] \in 1..Len(chain) /\ rows[Len(rows)] = chain[cut[2]]
  /\ \A i \in DOMAIN rows :
       /\ cut[1] + i - 1 \in 1..Len(chain) /\ cut[1] + i - 1 \in cut[1] .. cut[2]
       /\ rows[i] = chain[cut[1] + i - 1] /\ rows[i] \in PackRows
       /\ rows[i].body \in Said /\ rows[i].body \in PackBodies
  /\ \A k \in cut[1] .. cut[2] : \E i \in DOMAIN rows : rows[i] = chain[k]

\* A slice of the chain has the rows of its cut.
LEMMA SliceRows ==
  ASSUME PacksInv, NEW cut \in Cuts
  PROVE  RowsOfCut(SubSeq(chain, cut[1], cut[2]), cut)
<1> PICK rows : rows = SubSeq(chain, cut[1], cut[2])
  OBVIOUS
<1>1. /\ chain \in Seq(PackRows) /\ Len(chain) \in Nat /\ DOMAIN chain = 1..Len(chain)
      /\ \A k \in 1..Len(chain) : chain[k] \in PackRows
  BY DEF PacksInv
<1>2. PICK a \in 1..Len(chain), b \in 1..Len(chain) : a = cut[1] /\ b = cut[2] /\ a <= b
  BY DEF Cuts
<1>3. \A i \in a..b : chain[i] \in PackRows
  BY <1>1, <1>2
<1>4. /\ rows \in Seq(PackRows) /\ Len(rows) = b - a + 1
      /\ \A i \in 1..(b - a + 1) : rows[i] = chain[a + i - 1]
  <2>1. a \in Int /\ b \in Int /\ rows = SubSeq(chain, a, b)
    BY <1>1, <1>2
  <2> HIDE DEF PackRows
  <2>2. PICK S : S = PackRows
    OBVIOUS
  <2>3. \A i \in a..b : chain[i] \in S
    BY <1>3, <2>2
  <2>4. /\ rows \in Seq(S)
        /\ Len(rows) = IF a <= b THEN b - a + 1 ELSE 0
        /\ \A i \in 1..(b - a + 1) : rows[i] = chain[a + i - 1]
    <3>1. /\ SubSeq(chain, a, b) \in Seq(S)
          /\ Len(SubSeq(chain, a, b)) = IF a <= b THEN b - a + 1 ELSE 0
          /\ \A i \in 1..(b - a + 1) : SubSeq(chain, a, b)[i] = chain[a + i - 1]
      BY <2>1, <2>3, SubSeqProperties, Z3
    <3> QED
      BY <2>1, <3>1
  <2> QED
    BY <1>2, <2>2, <2>4
<1>5. DOMAIN rows = 1..Len(rows) /\ Len(rows) \in Nat \ {0} /\ rows # <<>>
  <2> HIDE DEF PackRows
  <2>1. DOMAIN rows = 1..Len(rows) /\ Len(rows) \in Nat \ {0}
    BY <1>1, <1>2, <1>4
  <2> QED
    BY <2>1
<1>6. ASSUME NEW i \in DOMAIN rows
      PROVE  /\ a + i - 1 \in 1..Len(chain) /\ a + i - 1 \in a .. b
             /\ rows[i] = chain[a + i - 1] /\ rows[i] \in PackRows
             /\ rows[i].body \in Said /\ rows[i].body \in PackBodies
  <2>1. PICK k : k = a + i - 1
    OBVIOUS
  <2>2. k \in 1..Len(chain) /\ k \in a..b /\ rows[i] = chain[k]
    <3>1. i \in 1..(b - a + 1)
      BY <1>4, <1>5
    <3>2. rows[i] = chain[k]
      BY <1>4, <2>1, <3>1
    <3>3. k \in 1..Len(chain) /\ k \in a..b
      BY <1>1, <1>2, <2>1, <3>1
    <3> QED
      BY <3>2, <3>3
  <2>3. chain[k].body \in Said /\ chain[k] \in PackRows
    BY <1>1, <2>2 DEF Said
  <2>4. chain[k].body \in PackBodies
    BY <2>3 DEF PackRows
  <2> QED
    BY <2>1, <2>2, <2>3, <2>4
<1>7. ASSUME NEW k \in a .. b PROVE \E i \in DOMAIN rows : rows[i] = chain[k]
  <2>1. k - a + 1 \in 1..(b - a + 1) /\ a + (k - a + 1) - 1 = k
    BY <1>1, <1>2
  <2>2. rows[k - a + 1] = chain[k]
    BY <1>4, <2>1
  <2>3. k - a + 1 \in DOMAIN rows
    BY <1>4, <1>5, <2>1
  <2> QED
    BY <2>2, <2>3
<1>8. rows[Len(rows)] = chain[b]
  BY <1>1, <1>2, <1>4
<1> QED
  BY <1>2, <1>4, <1>5, <1>6, <1>7, <1>8 DEF RowsOfCut

\* What is accepted was said in the ledger, under a head.
LEMMA AcceptedIsSaid ==
  ASSUME PacksInv, NEW cor \in Committed, NEW claim \in Claims, NEW cut \in Cuts,
         NEW pack, pack = PackOf(cor, claim, cut[1], cut[2]), StepsHold(pack, anchors),
         NEW row \in VerdictIn(pack)
  PROVE  /\ {CommitmentCreated(cor), TokenMinted(claim.token), ConversionClaimed(claim)} \subseteq Said
         /\ row.body \in Said /\ row.body \in Verdicts(claim)
         /\ \E h \in anchors : h.seq >= chain[cut[2]].seq
<1>0. PICK rows : rows = pack.events
  OBVIOUS
<1>1. rows = SubSeq(chain, cut[1], cut[2]) /\ pack.cor = cor /\ pack.claim = claim
  BY <1>0 DEF PackOf
<1>2. /\ \A i \in DOMAIN rows : rows[i].body \in Said /\ rows[i].body \in PackBodies
      /\ DOMAIN rows \subseteq Nat /\ rows[Len(rows)] = chain[cut[2]] /\ chain[cut[2]] \in PackRows
  <2>1. RowsOfCut(rows, cut)
    BY <1>1, SliceRows, Zenon
  <2>2. Len(rows) \in DOMAIN rows
    BY <2>1 DEF RowsOfCut
  <2>3. DOMAIN rows \subseteq Nat
    BY <2>1 DEF RowsOfCut
  <2> QED
    BY <2>1, <2>2, <2>3, Zenon DEF RowsOfCut
<1>3. CommitmentCreated(cor) \in Said
  <2>0. PICK created : created = {i \in DOMAIN rows :
        rows[i].body.type = "CommitmentCreated" /\ rows[i].body.data.commitment_id = cor.commitment_id}
    OBVIOUS
  <2>1. PICK r : r \in FirstRow(rows, created) /\ r.body.data = cor
    BY <1>0, <1>1, <2>0 DEF StepsHold, CorHolds
  <2>2. created \subseteq Nat
    BY <1>2, <2>0
  <2>3. PICK i \in created : r = rows[i]
    <3>1. \A q \in FirstRow(rows, created) : \E i \in created : q = rows[i]
      BY <2>2, FoundIsThere, Zenon
    <3> QED
      BY <2>1, <3>1
  <2> QED
    BY <1>2, <2>0, <2>1, <2>3, BodyShape
<1>4. TokenMinted(claim.token) \in Said
  <2>0. PICK minted : minted = {i \in DOMAIN rows :
        rows[i].body.type = "TokenMinted" /\ rows[i].body.data.jti = claim.token.jti}
    OBVIOUS
  <2>1. PICK r : r \in FirstRow(rows, minted) /\ r.body.data = claim.token
    BY <1>0, <1>1, <2>0 DEF StepsHold, TokenHolds
  <2>2. minted \subseteq Nat
    BY <1>2, <2>0
  <2>3. PICK i \in minted : r = rows[i]
    <3>1. \A q \in FirstRow(rows, minted) : \E i \in minted : q = rows[i]
      BY <2>2, FoundIsThere, Zenon
    <3> QED
      BY <2>1, <3>1
  <2> QED
    BY <1>2, <2>0, <2>1, <2>3, BodyShape
<1>5. ConversionClaimed(claim) \in Said
  <2>0. PICK claimed : claimed = {i \in DOMAIN rows :
        rows[i].body.type = "ConversionClaimed" /\ rows[i].body.data.claim_id = claim.claim_id}
    OBVIOUS
  <2>1. PICK r : r \in FirstRow(rows, claimed) /\ r.body = ConversionClaimed(claim)
    BY <1>0, <1>1, <2>0 DEF StepsHold, ClaimHolds
  <2>2. claimed \subseteq Nat
    BY <1>2, <2>0
  <2>3. PICK i \in claimed : r = rows[i]
    <3>1. \A q \in FirstRow(rows, claimed) : \E i \in claimed : q = rows[i]
      BY <2>2, FoundIsThere, Zenon
    <3> QED
      BY <2>1, <3>1
  <2> QED
    BY <1>2, <2>0, <2>1, <2>3
<1>6. row.body \in Said /\ row.body \in Verdicts(claim)
  <2> DEFINE decided == {i \in DOMAIN rows : rows[i].body \in Verdicts(claim)}
  <2>1. row \in FirstRow(rows, decided)
    BY <1>0, <1>1 DEF VerdictIn
  <2>2. PICK i \in decided : row = rows[i]
    BY <1>2, <2>1, FirstIsFound
  <2> QED
    BY <1>2, <2>2
<1>7. \E h \in anchors : h.seq >= chain[cut[2]].seq
  <2>1. PICK h \in anchors : h = [seq |-> rows[Len(rows)].seq, head_hash |-> rows[Len(rows)].this_hash]
    BY <1>0 DEF StepsHold, ChainHolds
  <2>2. chain[cut[2]].seq \in Nat
    BY <1>2 DEF PackRows
  <2> QED
    BY <1>2, <2>1, <2>2
<1> QED
  BY <1>3, <1>4, <1>5, <1>6, <1>7

\* The end of a hash is what was hashed last.
LEMMA HashEnds ==
  ASSUME NEW S, NEW hash \in Seq(S), NEW x, NEW y, Append(hash, x) = Append(hash, y)
  PROVE  x = y
<1>1. hash \in Seq(S \cup {x, y}) /\ Len(hash) \in Nat
  OBVIOUS
<1>2. Append(hash, x)[Len(hash) + 1] = x /\ Append(hash, y)[Len(hash) + 1] = y
  BY <1>1
<1> QED
  BY <1>2

\* A row that was altered no longer has the hash it came with.
LEMMA AlteredRowIsFound ==
  ASSUME NEW rows, NEW i \in DOMAIN rows, NEW body, NEW altered, NEW trust,
         rows[i] \in PackRows, rows[i].this_hash = Append(rows[i].prev_hash, rows[i].body),
         body # rows[i].body,
         altered = [rows EXCEPT ![i] = [rows[i] EXCEPT !.body = body]]
  PROVE  ~ChainHolds(altered, trust)
<1>1. /\ i \in DOMAIN altered /\ altered[i] = [rows[i] EXCEPT !.body = body]
  OBVIOUS
<1>2. /\ altered[i].this_hash = rows[i].this_hash /\ altered[i].prev_hash = rows[i].prev_hash
      /\ altered[i].body = body /\ rows[i].prev_hash \in Seq(PackBodies)
  <2> DEFINE H == Seq(PackBodies)
  <2>1. rows[i] \in [seq : Nat, body : PackBodies, prev_hash : H, this_hash : H]
    BY DEF PackRows
  <2> HIDE DEF H
  <2>2. /\ altered[i].this_hash = rows[i].this_hash /\ altered[i].prev_hash = rows[i].prev_hash
        /\ altered[i].body = body /\ rows[i].prev_hash \in H
    BY <1>1, <2>1
  <2> QED
    BY <2>2 DEF H
<1>3. Append(rows[i].prev_hash, rows[i].body) # Append(rows[i].prev_hash, body)
  BY <1>2, HashEnds
<1> QED
  BY <1>1, <1>2, <1>3 DEF ChainHolds

\* Nothing that was altered is accepted.
LEMMA DamageIsFound ==
  ASSUME PacksInv, NEW cor \in Committed, NEW claim \in Claims, NEW cut \in Cuts,
         NEW pack, pack = PackOf(cor, claim, cut[1], cut[2]),
         NEW broken \in Damaged(pack), NEW trust
  PROVE  ~StepsHold(broken, trust)
<1> PICK rows : rows = pack.events
  OBVIOUS
<1>1. rows = SubSeq(chain, cut[1], cut[2]) /\ pack.cor = cor /\ pack.claim = claim
  BY DEF PackOf
<1>2. RowsOfCut(rows, cut)
  BY <1>1, SliceRows, Zenon
<1>3. CASE \E i \in DOMAIN pack.events :
             broken = [pack EXCEPT !.events[i].body = Body("altered", [claim_id |-> "none"])]
  <2>1. PICK i \in DOMAIN rows :
          broken = [pack EXCEPT !.events[i].body = Body("altered", [claim_id |-> "none"])]
    BY <1>3
  <2>2. PICK body : body = Body("altered", [claim_id |-> "none"])
    OBVIOUS
  <2>3. broken.events = [rows EXCEPT ![i] = [rows[i] EXCEPT !.body = body]]
    BY <2>1, <2>2 DEF PackOf
  <2>4. PICK k \in 1..Len(chain) : rows[i] = chain[k] /\ rows[i] \in PackRows /\ rows[i].body \in PackBodies
    BY <1>2 DEF RowsOfCut
  <2>5. rows[i].this_hash = Append(rows[i].prev_hash, rows[i].body)
    BY <2>4 DEF PacksInv, PackHashed
  <2>6. body # rows[i].body
    BY <2>2, <2>4, BodyShape DEF Body
  <2>7. ~ChainHolds(broken.events, trust)
    BY <2>3, <2>4, <2>5, <2>6, AlteredRowIsFound
  <2> QED
    BY <2>7 DEF StepsHold
<1>4. CASE broken = [pack EXCEPT !.cor.terms = "altered"]
  <2>1. broken.cor = [cor EXCEPT !.terms = "altered"] /\ broken.cor_merchant_sig = Signed(cor, cor.merchant)
    BY <1>4 DEF PackOf
  <2>2. broken.cor.terms = "altered" /\ cor.terms # "altered"
    BY <2>1, DocumentsAssumption
  <2>3. broken.cor_merchant_sig.over = cor
    BY <2>1 DEF Signed
  <2> QED
    BY <2>2, <2>3 DEF StepsHold, CorHolds, signatureVerifies, Signed
<1>5. CASE broken = [pack EXCEPT !.claim.order = "altered"]
  <2>1. broken.claim = [claim EXCEPT !.order = "altered"] /\ broken.claim_sig = Signed(claim, claim.merchant)
    BY <1>5 DEF PackOf
  <2>2. broken.claim.order = "altered" /\ claim.order # "altered"
    BY <2>1, DocumentsAssumption
  <2>3. broken.claim_sig.over = claim
    BY <2>1 DEF Signed
  <2> QED
    BY <2>2, <2>3 DEF StepsHold, ClaimHolds, signatureVerifies, Signed
<1> QED
  BY <1>3, <1>4, <1>5 DEF Damaged

\* ... and there is one if any is found.
LEMMA SomeIsFirst ==
  \A rows, found : found \subseteq Nat /\ found # {} =>
    \E i \in found : FirstRow(rows, found) = {rows[i]}
BY FirstIsFound, Zenon

\* A decided claim's rows lie between two rows, the last under a head, and no number
\* between them is lost.
Behind(cut) == {chain[i].body : i \in cut[1] .. cut[2]}
DecidedUnder(cor, claim, cut) ==
  /\ {CommitmentCreated(cor), TokenMinted(claim.token), ConversionClaimed(claim)} \subseteq Behind(cut)
  /\ Verdicts(claim) \cap Behind(cut) # {}
  /\ claim.token.cid = cor.commitment_id /\ claim.merchant = cor.merchant
  /\ Contiguous(cut[1], cut[2])
  /\ \E h \in anchors : h.seq = chain[cut[2]].seq

\* The pack of a decided claim is accepted when it is cut without a gap up to a head.
LEMMA DecidedIsAccepted ==
  ASSUME PacksInv, NEW cor \in Committed, NEW claim \in Claims, NEW cut \in Cuts,
         NEW pack, pack = PackOf(cor, claim, cut[1], cut[2]), DecidedUnder(cor, claim, cut)
  PROVE  StepsHold(pack, anchors)
<1> PICK rows : rows = pack.events
  OBVIOUS
<1>1. /\ rows = SubSeq(chain, cut[1], cut[2]) /\ pack.cor = cor /\ pack.claim = claim
      /\ pack.merchant_key = cor.merchant
      /\ pack.cor_merchant_sig = Signed(cor, cor.merchant)
      /\ pack.cor_platform_sig = Signed(cor, "platform/commitments")
      /\ pack.token_sig = Signed(claim.token, "platform/mint")
      /\ pack.claim_sig = Signed(claim, claim.merchant)
  BY DEF PackOf
<1>2. RowsOfCut(rows, cut)
  BY <1>1, SliceRows, Zenon
<1>3. ASSUME NEW body \in Behind(cut) PROVE \E i \in DOMAIN rows : rows[i].body = body
  <2>1. PICK k \in cut[1] .. cut[2] : body = chain[k].body
    BY DEF Behind
  <2>2. \E i \in DOMAIN rows : rows[i] = chain[k]
    BY <1>2, Zenon DEF RowsOfCut
  <2> QED
    BY <2>1, <2>2
<1>4. DOMAIN rows \subseteq Nat /\ \A i \in DOMAIN rows : rows[i].body \in PackBodies
  <2>1. DOMAIN rows \subseteq Nat
    BY <1>2 DEF RowsOfCut
  <2> QED
    BY <1>2, <2>1, Zenon DEF RowsOfCut
<1>5. ChainHolds(rows, anchors)
  <2>1. PICK a \in Nat, b \in Nat : a = cut[1] /\ b = cut[2] /\ 1 <= a /\ b <= Len(chain) /\ a <= b
    <3>1. Len(chain) \in Nat
      BY DEF PacksInv
    <3> QED
      BY <3>1 DEF Cuts
  <2>2. ASSUME NEW i \in DOMAIN rows
        PROVE  /\ rows[i].this_hash = Append(rows[i].prev_hash, rows[i].body)
               /\ i < Len(rows) => /\ rows[i + 1].seq = rows[i].seq + 1
                                   /\ rows[i + 1].prev_hash = rows[i].this_hash
    <3>1. PICK k : k = a + i - 1
      OBVIOUS
    <3>2. k \in 1..Len(chain) /\ rows[i] = chain[k] /\ i \in Nat /\ Len(rows) = b - a + 1
      BY <1>2, <1>4, <2>1, <3>1 DEF RowsOfCut
    <3>3. chain[k].this_hash = Append(chain[k].prev_hash, chain[k].body)
      BY <3>2 DEF PacksInv, PackHashed
    <3>4. ASSUME i < Len(rows)
          PROVE  /\ rows[i + 1] = chain[k + 1] /\ k + 1 \in 1..Len(chain) /\ k \in a .. (b - 1)
      <4>0. DOMAIN rows = 1..Len(rows) /\ Len(rows) \in Nat
        BY <1>2 DEF RowsOfCut
      <4>1. i + 1 \in DOMAIN rows
        BY <3>2, <3>4, <4>0
      <4>2. a + (i + 1) - 1 \in 1..Len(chain) /\ rows[i + 1] = chain[a + (i + 1) - 1]
        BY <1>2, <2>1, <4>1 DEF RowsOfCut
      <4>3. a + (i + 1) - 1 = k + 1 /\ k \in a .. (b - 1)
        <5>1. i \in 1..Len(rows) /\ i < Len(rows) /\ Len(rows) = b - a + 1
          BY <3>2, <3>4, <4>0
        <5>2. i \in Nat /\ 1 <= i /\ i < b - a + 1
          BY <3>2, <4>0, <5>1
        <5>3. PICK n \in Nat, l \in Nat, h \in Nat : n = i /\ l = a /\ h = b
          BY <2>1, <5>2
        <5>4. l + (n + 1) - 1 = (l + n - 1) + 1 /\ l + n - 1 \in l .. (h - 1)
          BY <5>2, <5>3
        <5> QED
          BY <3>1, <5>3, <5>4
      <4> QED
        BY <4>2, <4>3
    <3>5. ASSUME i < Len(rows)
          PROVE  chain[k + 1].seq = chain[k].seq + 1 /\ chain[k + 1].prev_hash = chain[k].this_hash
      BY <2>1, <3>2, <3>4, <3>5 DEF DecidedUnder, Contiguous, PacksInv, PackLinked
    <3> QED
      BY <3>2, <3>3, <3>4, <3>5
  <2>3. [seq |-> rows[Len(rows)].seq, head_hash |-> rows[Len(rows)].this_hash] \in anchors
    <3>1. PICK h \in anchors : h.seq = chain[b].seq
      BY <2>1 DEF DecidedUnder
    <3>2. PICK k \in 1..Len(chain) : h = [seq |-> chain[k].seq, head_hash |-> chain[k].this_hash]
      BY <3>1 DEF PacksInv
    <3>3. b \in 1..Len(chain) /\ rows[Len(rows)] = chain[b]
      BY <1>2, <2>1 DEF RowsOfCut
    <3>4. chain[b].seq \in Nat /\ chain[k].seq \in Nat
      <4>1. chain[b] \in PackRows /\ chain[k] \in PackRows
        BY <3>3 DEF PacksInv
      <4> QED
        BY <4>1 DEF PackRows
    <3>5. k = b
      BY <3>1, <3>2, <3>3, <3>4 DEF PacksInv, PackRising
    <3> QED
      BY <3>2, <3>3, <3>5
  <2> QED
    BY <2>2, <2>3 DEF ChainHolds
<1>6. CorHolds(pack)
  <2>0. PICK created : created = {i \in DOMAIN rows :
        rows[i].body.type = "CommitmentCreated" /\ rows[i].body.data.commitment_id = cor.commitment_id}
    OBVIOUS
  <2>1. PICK i \in DOMAIN rows : rows[i].body = CommitmentCreated(cor)
    BY <1>3 DEF DecidedUnder
  <2>2. i \in created
    BY <2>0, <2>1 DEF CommitmentCreated, Body
  <2>3. created \subseteq Nat /\ created # {}
    BY <1>4, <2>0, <2>2
  <2>4. \E k \in created : FirstRow(rows, created) = {rows[k]}
    BY <2>3, SomeIsFirst, Zenon
  <2>5. PICK k \in created : FirstRow(rows, created) = {rows[k]}
    BY <2>4
  <2>6. rows[k].body.data = cor
    <3>1. /\ rows[k].body \in PackBodies /\ rows[k].body.type = "CommitmentCreated"
          /\ rows[k].body.data.commitment_id = cor.commitment_id
      BY <1>4, <2>0, <2>5
    <3> QED
      BY <3>1, BodyShape, IdentifiersAssumption
  <2>7. \E row \in FirstRow(rows, created) : row.body.data = cor
    BY <2>5, <2>6
  <2>8. claim.token.cid = cor.commitment_id /\ claim.merchant = cor.merchant
    BY DEF DecidedUnder
  <2> QED
    BY <1>1, <2>0, <2>7, <2>8 DEF CorHolds, signatureVerifies
<1>7. TokenHolds(pack)
  <2>0. PICK minted : minted = {i \in DOMAIN rows :
        rows[i].body.type = "TokenMinted" /\ rows[i].body.data.jti = claim.token.jti}
    OBVIOUS
  <2>1. PICK i \in DOMAIN rows : rows[i].body = TokenMinted(claim.token)
    BY <1>3 DEF DecidedUnder
  <2>2. i \in minted /\ claim.token \in Tokens
    BY <1>4, <2>0, <2>1, BodyShape DEF TokenMinted, Body
  <2>3. minted \subseteq Nat /\ minted # {}
    BY <1>4, <2>0, <2>2
  <2>4. \E k \in minted : FirstRow(rows, minted) = {rows[k]}
    BY <2>3, SomeIsFirst, Zenon
  <2>5. PICK k \in minted : FirstRow(rows, minted) = {rows[k]}
    BY <2>4
  <2>6. rows[k].body.data = claim.token
    <3>1. /\ rows[k].body \in PackBodies /\ rows[k].body.type = "TokenMinted"
          /\ rows[k].body.data.jti = claim.token.jti
      BY <1>4, <2>0, <2>5
    <3> QED
      BY <3>1, <2>2, BodyShape, IdentifiersAssumption
  <2>7. \E row \in FirstRow(rows, minted) : row.body.data = claim.token
    BY <2>5, <2>6
  <2>8. claim.token.cid = cor.commitment_id /\ claim.merchant = cor.merchant
    BY DEF DecidedUnder
  <2> QED
    BY <1>1, <2>0, <2>7, <2>8 DEF TokenHolds, signatureVerifies
<1>8. ClaimHolds(pack)
  <2>0. PICK claimed : claimed = {i \in DOMAIN rows :
        rows[i].body.type = "ConversionClaimed" /\ rows[i].body.data.claim_id = claim.claim_id}
    OBVIOUS
  <2>1. PICK i \in DOMAIN rows : rows[i].body = ConversionClaimed(claim)
    BY <1>3 DEF DecidedUnder
  <2>2. i \in claimed
    BY <2>0, <2>1 DEF ConversionClaimed, Body
  <2>3. claimed \subseteq Nat /\ claimed # {}
    BY <1>4, <2>0, <2>2
  <2>4. \E k \in claimed : FirstRow(rows, claimed) = {rows[k]}
    BY <2>3, SomeIsFirst, Zenon
  <2>5. PICK k \in claimed : FirstRow(rows, claimed) = {rows[k]}
    BY <2>4
  <2>6. rows[k].body = ConversionClaimed(claim)
    <3>1. /\ rows[k].body \in PackBodies /\ rows[k].body.type = "ConversionClaimed"
          /\ rows[k].body.data.claim_id = claim.claim_id
      BY <1>4, <2>0, <2>5
    <3> QED
      BY <3>1, BodyShape, IdentifiersAssumption
  <2>7. \E row \in FirstRow(rows, claimed) : row.body = ConversionClaimed(claim)
    BY <2>5, <2>6
  <2>8. claim.token.cid = cor.commitment_id /\ claim.merchant = cor.merchant
    BY DEF DecidedUnder
  <2> QED
    BY <1>1, <2>0, <2>7, <2>8 DEF ClaimHolds, signatureVerifies
<1>9. VerdictIn(pack) # {}
  <2>0. PICK decided : decided = {i \in DOMAIN rows : rows[i].body \in Verdicts(claim)}
    OBVIOUS
  <2>1. PICK v \in Behind(cut) : v \in Verdicts(claim)
    BY DEF DecidedUnder
  <2>2. PICK i \in DOMAIN rows : rows[i].body = v
    BY <1>3
  <2>3. FirstRow(rows, decided) # {}
    <3>1. decided \subseteq Nat /\ decided # {}
      BY <1>4, <2>0, <2>1, <2>2
    <3>2. \E k \in decided : FirstRow(rows, decided) = {rows[k]}
      BY <3>1, SomeIsFirst, Zenon
    <3> QED
      BY <3>2
  <2> QED
    BY <1>1, <2>0, <2>3 DEF VerdictIn
<1>10. rows # <<>> /\ anchors # {}
  BY <1>2 DEF RowsOfCut, DecidedUnder
<1> QED
  BY <1>5, <1>6, <1>7, <1>8, <1>9, <1>10 DEF StepsHold

\* The invariant implies that proofs follow the ledger.
LEMMA PacksInvImplies == PacksInv => ProofsFollowTheLedger
<1> SUFFICES ASSUME PacksInv PROVE ProofsFollowTheLedger
  OBVIOUS
<1> SUFFICES ASSUME NEW cor \in Committed, NEW claim \in Claims, NEW cut \in Cuts
             PROVE  LET pack == PackOf(cor, claim, cut[1], cut[2])
                        result == verifyProofPack(pack, anchors)
                        behind == {chain[i].body : i \in cut[1] .. cut[2]}
                        type == IF exitCode(result) = 0 THEN "ConversionVerified"
                                ELSE "ConversionRejected"
                    IN  /\ exitCode(result) \in {0, 2} =>
                             /\ {CommitmentCreated(cor), TokenMinted(claim.token),
                                 ConversionClaimed(claim), Verdict(type, claim)} \subseteq Said
                             /\ \E h \in anchors : h.seq >= chain[cut[2]].seq
                        /\ \A broken \in Damaged(pack) :
                             exitCode(verifyProofPack(broken, anchors)) = 1
                        /\ /\ {CommitmentCreated(cor), TokenMinted(claim.token),
                               ConversionClaimed(claim)} \subseteq behind
                           /\ Verdicts(claim) \cap behind # {}
                           /\ claim.token.cid = cor.commitment_id /\ claim.merchant = cor.merchant
                           /\ Contiguous(cut[1], cut[2])
                           /\ \E h \in anchors : h.seq = chain[cut[2]].seq
                           => exitCode(result) # 1
  BY Zenon DEF ProofsFollowTheLedger
<1> DEFINE pack == PackOf(cor, claim, cut[1], cut[2])
           code == exitCode(verifyProofPack(pack, anchors))
           behind == {chain[i].body : i \in cut[1] .. cut[2]}
           type == IF code = 0 THEN "ConversionVerified" ELSE "ConversionRejected"
<1>1. ASSUME code \in {0, 2}
      PROVE  /\ {CommitmentCreated(cor), TokenMinted(claim.token), ConversionClaimed(claim),
                 Verdict(type, claim)} \subseteq Said
             /\ \E h \in anchors : h.seq >= chain[cut[2]].seq
  <2>1. StepsHold(pack, anchors)
    BY <1>1, ExitCodes
  <2>2. PICK row \in VerdictIn(pack) : code = 0 <=> row.body.type = "ConversionVerified"
    BY <1>1, ExitCodes
  <2>3. /\ {CommitmentCreated(cor), TokenMinted(claim.token), ConversionClaimed(claim)} \subseteq Said
        /\ row.body \in Said /\ row.body \in Verdicts(claim)
        /\ \E h \in anchors : h.seq >= chain[cut[2]].seq
    BY <2>1, <2>2, AcceptedIsSaid
  <2>4. row.body = Verdict(type, claim)
    <3> HIDE DEF code
    <3> QED
      BY <2>2, <2>3 DEF Verdicts, Verdict, Body
  <2> QED
    BY <2>3, <2>4
<1>2. ASSUME NEW broken \in Damaged(pack) PROVE exitCode(verifyProofPack(broken, anchors)) = 1
  BY ExitCodes, DamageIsFound
<1>3. ASSUME {CommitmentCreated(cor), TokenMinted(claim.token), ConversionClaimed(claim)} \subseteq behind,
             Verdicts(claim) \cap behind # {},
             claim.token.cid = cor.commitment_id, claim.merchant = cor.merchant,
             Contiguous(cut[1], cut[2]),
             \E h \in anchors : h.seq = chain[cut[2]].seq
      PROVE  code # 1
  <2>1. StepsHold(pack, anchors)
    BY <1>3, DecidedIsAccepted DEF DecidedUnder, Behind
  <2> QED
    BY <2>1, ExitCodes
<1> QED
  BY <1>1, <1>2, <1>3

\* What the reference verifier says of a pack is what the ledger under a head
\* says: what it accepts was decided there, what was altered is refused, and
\* the pack of a decided claim is not (packages/verifier/src/verify.ts).
THEOREM PacksCorrect == PacksSpec => []ProofsFollowTheLedger
<1>1. PacksInit => PacksInv
  BY PacksInvInit
<1>2. PacksInv /\ [PacksNext]_packVars => PacksInv'
  BY PacksInvStep
<1>3. PacksInv => ProofsFollowTheLedger
  BY PacksInvImplies
<1> QED
  BY <1>1, <1>2, <1>3, PTL DEF PacksSpec

-----------------------------------------------------------------------------
(* The ledger as a log.                                                    *)

BySeq(rows) == {p \in rows \X rows : p[1].seq < p[2].seq}

\* A linear chain of numbered rows is finite below its end, and in one order.
LEMMA RowsAreOrdered ==
  ASSUME NEW rows \in SUBSET Rows, Linked(rows), NEW top \in Nat, \A row \in rows : row.seq < top
  PROVE  IsFiniteSet(rows) /\ StrictOrder(rows, BySeq(rows))
<1>1. \A row \in rows : row.seq \in Nat \ {0}
  BY DEF Rows
<1>2. \A a, b \in rows : a.seq = b.seq => a = b
  BY DEF Linked
<1>3. IsFiniteSet(rows)
  <2> DEFINE number == [row \in rows |-> row.seq]
  <2>1. number \in [rows -> 1 .. top]
    <3>1. \A row \in rows : row.seq \in 1 .. top
      BY <1>1
    <3> QED
      BY <3>1
  <2>2. \A a, b \in rows : number[a] = number[b] => a = b
    BY <1>2
  <2>3. IsFiniteSet(1 .. top)
    <3>1. 1 \in Int /\ top \in Int
      OBVIOUS
    <3> QED
      BY <3>1, FS_Interval, Zenon
  <2> HIDE DEF number
  <2>4. number \in Injection(rows, 1 .. top)
    BY <2>1, <2>2 DEF Injection, IsInjective
  <2> QED
    BY <2>3, <2>4, FS_Injection
<1>4. \A a, b \in rows : <<a, b>> \in BySeq(rows) <=> a.seq < b.seq
  BY DEF BySeq
<1> QED
  BY <1>1, <1>2, <1>3, <1>4 DEF StrictOrder

\* What a reader sees of a chain.
BodiesOf(rows) == [i \in 1 .. Cardinality(rows) |-> SortedBy(rows, BySeq(rows))[i].body]

\* Bodies in the order of their numbers are a sequence.
LEMMA BodiesType ==
  ASSUME NEW rows \in SUBSET Rows, IsFiniteSet(rows), StrictOrder(rows, BySeq(rows))
  PROVE  BodiesOf(rows) \in Seq(Bodies) /\ Len(BodiesOf(rows)) = Cardinality(rows)
<1>1. Cardinality(rows) \in Nat /\ SortedBy(rows, BySeq(rows)) \in [1 .. Cardinality(rows) -> rows]
  BY SortedByIs
<1>2. \A row \in rows : row.body \in Bodies
  BY DEF Rows
<1> QED
  BY <1>1, <1>2 DEF BodiesOf

\* A chain that grows above its end: readers see the old one, and more after it.
LEMMA BodiesGrow ==
  ASSUME NEW more \in SUBSET Rows, NEW rows \in SUBSET more, more # rows,
         IsFiniteSet(more), StrictOrder(more, BySeq(more)), StrictOrder(rows, BySeq(rows)),
         \A new \in more \ rows : \A old \in rows : old.seq < new.seq
  PROVE  IsStrictPrefix(BodiesOf(rows), BodiesOf(more))
<1>1. IsFiniteSet(rows)
  BY FS_Subset
<1> PICK s, t : s = BodiesOf(rows) /\ t = BodiesOf(more)
  OBVIOUS
<1>2. /\ s \in Seq(Bodies) /\ Len(s) = Cardinality(rows)
      /\ t \in Seq(Bodies) /\ Len(t) = Cardinality(more)
  BY <1>1, BodiesType
<1>3. \A row \in more : row.seq \in Nat
  BY DEF Rows
<1>4. /\ \A x, y \in rows : <<x, y>> \in BySeq(more) <=> <<x, y>> \in BySeq(rows)
      /\ \A x \in rows : \A y \in more \ rows : <<y, x>> \notin BySeq(more)
  BY <1>3 DEF BySeq
<1>5. /\ Cardinality(rows) \in Nat /\ Cardinality(more) \in Nat /\ Cardinality(rows) <= Cardinality(more)
      /\ \A k \in 1 .. Cardinality(rows) :
           SortedBy(more, BySeq(more))[k] = SortedBy(rows, BySeq(rows))[k]
  BY <1>4, SortedByGrows
<1>6. \A k \in 1 .. Len(s) : k \in 1 .. Len(t) /\ t[k] = s[k]
  BY <1>2, <1>5 DEF BodiesOf
<1>7. SubSeq(s, 1, Len(s)) = SubSeq(t, 1, Len(s))
  <2> PICK n \in Nat : n = Len(s)
    BY <1>2
  <2>1. \A k \in 1 .. n : s[k] \in Bodies /\ t[k] \in Bodies
    BY <1>2, <1>6
  <2>2. 1 \in Int /\ n \in Int
    OBVIOUS
  <2>3. /\ SubSeq(s, 1, n) \in Seq(Bodies) /\ Len(SubSeq(s, 1, n)) = IF 1 <= n THEN n - 1 + 1 ELSE 0
        /\ \A k \in 1 .. n - 1 + 1 : SubSeq(s, 1, n)[k] = s[1 + k - 1]
    BY <2>1, <2>2, SubSeqProperties
  <2>4. /\ SubSeq(t, 1, n) \in Seq(Bodies) /\ Len(SubSeq(t, 1, n)) = IF 1 <= n THEN n - 1 + 1 ELSE 0
        /\ \A k \in 1 .. n - 1 + 1 : SubSeq(t, 1, n)[k] = t[1 + k - 1]
    BY <2>1, <2>2, SubSeqProperties
  <2>5. \A k \in 1 .. n : SubSeq(s, 1, n)[k] = SubSeq(t, 1, n)[k]
    <3>1. ASSUME NEW k \in 1 .. n PROVE SubSeq(s, 1, n)[k] = SubSeq(t, 1, n)[k]
      <4>1. k \in 1 .. n - 1 + 1 /\ 1 + k - 1 = k
        OBVIOUS
      <4> QED
        BY <1>6, <2>3, <2>4, <4>1
    <3> QED
      BY <3>1
  <2> QED
    BY <2>3, <2>4, <2>5, SeqEqual
<1>8. s # t
  <2>1. Cardinality(rows) # Cardinality(more)
    BY FS_Subset
  <2> QED
    BY <1>2, <2>1
<1> QED
  BY <1>2, <1>5, <1>7, <1>8 DEF IsStrictPrefix, IsPrefix

\* The ledger implements the append-only log, for any number of transactions,
\* bodies and sequence numbers.
THEOREM LogCorrect == Spec => ImplementsLog
<1>1. Init => Log!Init
  <2> SUFFICES ASSUME Init PROVE CommittedBodies = << >>
    BY DEF Log!Init
  <2>1. events = {} /\ Cardinality(events) = 0
    BY FS_EmptySet DEF Init
  <2> QED
    BY <2>1 DEF CommittedBodies
<1>2. Inv /\ [Next]_vars /\ Inv' => [Log!Publish]_CommittedBodies
  <2> SUFFICES ASSUME Inv, [Next]_vars, Inv' PROVE [Log!Publish]_CommittedBodies
    OBVIOUS
  <2>1. CASE events' = events
    BY <2>1 DEF CommittedBodies
  <2>2. CASE events' # events
    <3>1. /\ events \subseteq events'
          /\ \A new \in events' \ events : \A old \in events : old.seq < new.seq
      <4>1. PICK t \in Transactions : Commit(t)
        BY <2>2 DEF Next, LedgerStep, AppendEvent, Rollback, WalkRow, FinishWalk, RestartWalk,
           vars, ledger
      <4>2. events \subseteq events'
        BY <4>1 DEF Commit
      <4> QED
        BY <4>1, <4>2, CommitStep
    <3>2. PICK rows, more : rows = events /\ more = events'
      OBVIOUS
    <3>3. /\ rows \in SUBSET Rows /\ Linked(rows) /\ next_seq \in Nat
          /\ \A row \in rows : row.seq < next_seq
      BY <3>2 DEF Inv, TypeOK
    <3>4. /\ more \in SUBSET Rows /\ Linked(more) /\ next_seq' \in Nat
          /\ \A row \in more : row.seq < next_seq'
      BY <3>2 DEF Inv, TypeOK, Linked
    <3>5. /\ IsFiniteSet(rows) /\ StrictOrder(rows, BySeq(rows))
          /\ IsFiniteSet(more) /\ StrictOrder(more, BySeq(more))
      BY <3>3, <3>4, RowsAreOrdered
    <3>6. IsStrictPrefix(BodiesOf(rows), BodiesOf(more))
      BY <2>2, <3>1, <3>2, <3>4, <3>5, BodiesGrow
    <3>7. CommittedBodies = BodiesOf(rows) /\ CommittedBodies' = BodiesOf(more)
      BY <3>2 DEF CommittedBodies, BodiesOf, BySeq
    <3>8. BodiesOf(more) \in Seq(Bodies)
      BY <3>4, <3>5, BodiesType
    <3> QED
      BY <3>6, <3>7, <3>8 DEF Log!Publish, Log!IsStrictPrefix, Log!IsPrefix, IsStrictPrefix, IsPrefix
  <2> QED
    BY <2>1, <2>2
<1> QED
  BY <1>1, <1>2, InvCorrect, PTL DEF Spec, ImplementsLog, Log!Spec

-----------------------------------------------------------------------------
(* Projections.                                                            *)

projectedVars == <<vars, projection>>
ProjectedSpec == ProjectedInit /\ [][ProjectedNext]_projectedVars

\* The rebuild command runs while the monitor is stopped, and nothing tails the
\* projection beside it: one process at a time has the projection.
OneWorker == \A v, w \in Workers : v = w

\* What is committed between the cursor and an event still to be applied is to
\* be applied too.
NothingSkipped(w) ==
  \A seq \in batch[w] : \A other \in CommittedSeqs :
    last_seq < other /\ other < seq => other \in batch[w]

\* The cursor is at an event or at the start.  A worker's own copy of it is the
\* persisted one when it fetches, and what it fetched lies right above it.
ProjectionInv ==
  /\ Inv
  /\ next_seq <= MaxSeq + 1
  /\ counted \in [1..MaxSeq -> Int]
  /\ last_seq \in {0} \cup CommittedSeqs
  /\ ProjectionMatchesLedger
  /\ stage \in [Workers -> {"idle", "cursor", "fetch", "apply", "subscribed", "deliver"}]
  /\ position \in [Workers -> Int]
  /\ batch \in [Workers -> SUBSET CommittedSeqs]
  /\ \A w \in Workers :
       /\ stage[w] \in {"fetch", "subscribed", "deliver"} => position[w] = last_seq
       /\ stage[w] \in {"apply", "deliver"} =>
            NothingSkipped(w) /\ \A seq \in batch[w] : last_seq < seq

\* The numbers of the committed events are numbers of the sequence.
LEMMA SeqsAreNumbers ==
  ASSUME Inv, next_seq <= MaxSeq + 1
  PROVE  CommittedSeqs \subseteq 1..MaxSeq /\ CommittedSeqs \subseteq Nat \ {0}
<1>1. next_seq \in Nat /\ \A row \in events : row.seq \in Nat \ {0} /\ row.seq < next_seq
  BY DEF Inv, TypeOK, Rows
<1>2. ASSUME NEW row \in events PROVE row.seq \in 1..MaxSeq /\ row.seq \in Nat \ {0}
  BY <1>1, MaxSeqAssumption
<1> QED
  BY <1>2 DEF CommittedSeqs

\* The projection starts well.
LEMMA ProjectionInvInit == ProjectedInit => ProjectionInv
<1> SUFFICES ASSUME ProjectedInit PROVE ProjectionInv
  OBVIOUS
<1>1. Inv /\ events = {} /\ next_seq = 1
  BY InvInit DEF ProjectedInit, Init
<1>2. CommittedSeqs = {}
  BY <1>1 DEF CommittedSeqs
<1> QED
  BY <1>1, <1>2, MaxSeqAssumption
  DEF ProjectedInit, ProjectionInit, ProjectionInv, ProjectionMatchesLedger

\* A commit adds events above all that are there, and above every cursor.
LEMMA LedgerStepKeeps ==
  ASSUME ProjectionInv, LedgerStep \/ UNCHANGED vars, UNCHANGED projection
  PROVE  ProjectionInv'
<1>1. /\ Inv' /\ events \subseteq events'
      /\ \A new \in events' \ events : \A old \in events : old.seq < new.seq
  <2>0. Inv
    BY DEF ProjectionInv
  <2>1. CASE UNCHANGED vars
    BY <2>0, <2>1, WalkStep
  <2>2. ASSUME NEW t \in Transactions, NEW body \in Bodies, AppendEvent(t, body)
        PROVE  Inv' /\ events' = events
    BY <2>0, <2>2, AppendStep DEF AppendEvent
  <2>3. ASSUME NEW t \in Transactions, Commit(t)
        PROVE  /\ Inv' /\ events \subseteq events'
               /\ \A new \in events' \ events : \A old \in events : old.seq < new.seq
    <3>1. events \subseteq events'
      BY <2>3 DEF Commit
    <3> QED
      BY <2>0, <2>3, <3>1, CommitStep
  <2>4. ASSUME NEW t \in Transactions, Rollback(t) PROVE Inv' /\ events' = events
    BY <2>0, <2>4, RollbackStep
  <2> QED
    BY <2>1, <2>2, <2>3, <2>4 DEF LedgerStep
<1>2. next_seq' <= MaxSeq + 1
  <2>1. next_seq \in Nat /\ next_seq <= MaxSeq + 1
    BY DEF ProjectionInv, Inv, TypeOK
  <2>2. next_seq' = next_seq \/ (next_seq <= MaxSeq /\ next_seq' = next_seq + 1)
    BY DEF LedgerStep, AppendEvent, Commit, Rollback, vars, ledger
  <2> QED
    BY <2>1, <2>2, MaxSeqAssumption
<1>3. UNCHANGED <<counted, last_seq, stage, position, batch>>
  BY DEF projection
<1>4. CommittedSeqs \subseteq CommittedSeqs' /\ CommittedSeqs \subseteq 1..MaxSeq
      /\ CommittedSeqs' \subseteq 1..MaxSeq
  <2>1. CommittedSeqs' \subseteq 1..MaxSeq
    <3>1. CommittedSeqs' = {row.seq : row \in events'}
      BY DEF CommittedSeqs
    <3>2. next_seq' \in Nat /\ \A row \in events' : row.seq \in Nat \ {0} /\ row.seq < next_seq'
      BY <1>1 DEF Inv, TypeOK, Rows
    <3>3. \A row \in events' : row.seq \in 1..MaxSeq
      BY <1>2, <3>2, MaxSeqAssumption
    <3> QED
      BY <3>1, <3>3
  <2> QED
    BY <1>1, <2>1, SeqsAreNumbers DEF CommittedSeqs, ProjectionInv
<1>5. \A new \in CommittedSeqs' \ CommittedSeqs : \A old \in {0} \cup CommittedSeqs : old < new
  <2>1. ASSUME NEW new \in CommittedSeqs' \ CommittedSeqs, NEW old \in CommittedSeqs
        PROVE  old < new
    <3>1. PICK row \in events' \ events : new = row.seq
      BY <2>1 DEF CommittedSeqs
    <3>2. PICK before \in events : old = before.seq
      BY <2>1 DEF CommittedSeqs
    <3> QED
      BY <1>1, <3>1, <3>2
  <2> QED
    BY <1>4, <2>1
<1> PICK S, T : S = CommittedSeqs /\ T = CommittedSeqs'
  OBVIOUS
<1>6. /\ counted \in [1..MaxSeq -> Int] /\ last_seq \in {0} \cup S
      /\ \A seq \in 1..MaxSeq : counted[seq] = IF seq \in S /\ seq <= last_seq THEN 1 ELSE 0
      /\ batch \in [Workers -> SUBSET S]
  BY DEF ProjectionInv, ProjectionMatchesLedger
<1>7. ProjectionMatchesLedger'
  <2>1. ASSUME NEW seq \in 1..MaxSeq
        PROVE  counted[seq] = IF seq \in T /\ seq <= last_seq THEN 1 ELSE 0
    <3>1. seq \in T /\ seq <= last_seq <=> seq \in S /\ seq <= last_seq
      BY <1>4, <1>5, <1>6
    <3> QED
      BY <1>6, <3>1
  <2> QED
    BY <1>3, <2>1 DEF ProjectionMatchesLedger
<1>8. \A w \in Workers : \A seq \in batch[w] : \A other \in T : other < seq => other \in S
  <2>1. ASSUME NEW w \in Workers, NEW seq \in batch[w], NEW other \in T, other < seq, other \notin S
        PROVE  FALSE
    <3>1. seq \in S /\ seq \in 1..MaxSeq /\ other \in 1..MaxSeq
      BY <1>4, <1>6
    <3>2. seq < other
      BY <1>5, <2>1, <3>1
    <3> QED
      BY <2>1, <3>1, <3>2
  <2> QED
    BY <2>1
<1>9. ASSUME NEW w \in Workers, NothingSkipped(w) PROVE NothingSkipped(w)'
  BY <1>3, <1>8, <1>9 DEF NothingSkipped
<1> QED
  BY <1>1, <1>2, <1>3, <1>4, <1>6, <1>7, <1>9 DEF ProjectionInv

\* What a query returns is downward closed among the rows above its cursor.
LEMMA FetchSkipsNothing ==
  ASSUME ProjectionInv, NEW w \in Workers
  PROVE  /\ FirstOf(Unread(w)) \in SUBSET CommittedSeqs
         /\ \A seq \in FirstOf(Unread(w)) : position[w] < seq
         /\ \A seq \in FirstOf(Unread(w)) : \A other \in CommittedSeqs :
              position[w] < other /\ other < seq => other \in FirstOf(Unread(w))
<1>1. CommittedSeqs \subseteq 1..MaxSeq /\ position[w] \in Int /\ BatchSize \in Nat
  BY SeqsAreNumbers, BatchAssumption DEF ProjectionInv
<1> PICK U : U = Unread(w)
  OBVIOUS
<1>2. U = {seq \in CommittedSeqs : seq > position[w]}
  BY DEF Unread
<1>3. IsFiniteSet(U)
  <2>1. 1 \in Int /\ MaxSeq \in Int
    BY MaxSeqAssumption
  <2>2. IsFiniteSet(1..MaxSeq)
    BY <2>1, FS_Interval, Zenon
  <2> QED
    BY <1>1, <1>2, <2>2, FS_Subset
<1>4. ASSUME NEW seq \in FirstOf(U), NEW other \in U, other < seq PROVE other \in FirstOf(U)
  <2> DEFINE Low(n) == {q \in U : q < n}
  <2>1. seq \in U /\ Cardinality(Low(seq)) < BatchSize
    BY DEF FirstOf
  <2>2. Low(other) \subseteq Low(seq)
    <3>1. seq \in Int /\ other \in Int /\ \A q \in U : q \in Int
      BY <1>1, <1>2, <2>1
    <3>2. \A q \in U : q < other => q < seq
      BY <1>4, <3>1
    <3> QED
      BY <3>2
  <2>3. Low(seq) \in SUBSET U /\ Low(other) \in SUBSET U
    OBVIOUS
  <2> HIDE DEF Low
  <2>4. IsFiniteSet(Low(seq)) /\ IsFiniteSet(Low(other))
    BY <1>3, <2>3, FS_Subset
  <2>5. Cardinality(Low(other)) <= Cardinality(Low(seq))
    BY <2>2, <2>4, FS_Subset
  <2>6. Cardinality(Low(seq)) \in Nat /\ Cardinality(Low(other)) \in Nat
    BY <2>4, FS_CardinalityType
  <2>7. Cardinality(Low(other)) < BatchSize
    BY <1>1, <2>1, <2>5, <2>6
  <2> QED
    BY <2>7 DEF FirstOf, Low
<1>5. FirstOf(U) \subseteq U
  BY DEF FirstOf
<1>6. \A seq \in U : seq \in CommittedSeqs /\ position[w] < seq
  BY <1>1, <1>2
<1>7. \A other \in CommittedSeqs : position[w] < other => other \in U
  BY <1>1, <1>2
<1> QED
  BY <1>4, <1>5, <1>6, <1>7

\* An event applied with its cursor: the first of those above it.
LEMMA ApplyKeeps ==
  ASSUME OneWorker, ProjectionInv, NEW w \in Workers, ApplyWithCursor(w) \/ Deliver(w), UNCHANGED vars
  PROVE  ProjectionInv'
<1>1. PICK seq \in batch[w] :
        /\ \A other \in batch[w] : seq <= other
        /\ counted' = [counted EXCEPT ![seq] = @ + 1]
        /\ last_seq' = seq
        /\ batch' = [batch EXCEPT ![w] = @ \ {seq}]
        /\ \/ position' = position /\ stage'[w] \in {"cursor", "apply"}
           \/ position' = [position EXCEPT ![w] = seq]
        /\ \E to \in {"cursor", "apply", "subscribed", "deliver"} :
             stage' = [stage EXCEPT ![w] = to]
        /\ stage[w] \in {"apply", "deliver"}
  <2>1. stage[w] \in {"idle", "cursor", "fetch", "apply", "subscribed", "deliver"}
        /\ DOMAIN stage = Workers
    BY DEF ProjectionInv
  <2>2. CASE ApplyWithCursor(w)
    BY <2>1, <2>2 DEF ApplyWithCursor
  <2>3. CASE Deliver(w)
    BY <2>1, <2>3 DEF Deliver
  <2> QED
    BY <2>2, <2>3
<1>2. \A v \in Workers : v = w
  BY DEF OneWorker
<1> PICK S : S = CommittedSeqs
  OBVIOUS
<1>3. /\ S \subseteq 1..MaxSeq /\ CommittedSeqs' = S /\ seq \in S
      /\ seq \in 1..MaxSeq /\ last_seq \in {0} \cup S /\ last_seq < seq
      /\ \A other \in S : last_seq < other /\ other < seq => other \in batch[w]
  <2>1. CommittedSeqs' = S
    BY DEF CommittedSeqs, vars, ledger
  <2> QED
    BY <1>1, <2>1, SeqsAreNumbers DEF ProjectionInv, NothingSkipped
<1>4. \A other \in S : last_seq < other => seq <= other
  <2>1. ASSUME NEW other \in S, last_seq < other, other < seq PROVE FALSE
    <3>1. other \in batch[w]
      BY <1>3, <2>1
    <3>2. seq <= other /\ seq \in Int /\ other \in Int
      BY <1>1, <1>3, <3>1
    <3> QED
      BY <2>1, <3>2
  <2> QED
    BY <1>3, <2>1
<1>5. ProjectionMatchesLedger'
  <2>1. \A n \in 1..MaxSeq : counted[n] = IF n \in S /\ n <= last_seq THEN 1 ELSE 0
    BY DEF ProjectionInv, ProjectionMatchesLedger
  <2>2. ASSUME NEW n \in 1..MaxSeq
        PROVE  counted'[n] = IF n \in S /\ n <= seq THEN 1 ELSE 0
    <3>1. CASE n = seq
      BY <1>1, <1>3, <2>1, <3>1 DEF ProjectionInv
    <3>2. CASE n # seq
      <4>1. counted'[n] = counted[n]
        BY <1>1, <3>2 DEF ProjectionInv
      <4>2. n \in S /\ n <= seq <=> n \in S /\ n <= last_seq
        BY <1>3, <1>4, <3>2
      <4> QED
        BY <2>1, <4>1, <4>2
    <3> QED
      BY <3>1, <3>2
  <2> QED
    BY <1>1, <1>3, <2>2 DEF ProjectionMatchesLedger
<1>6. Inv' /\ next_seq' <= MaxSeq + 1
  <2>1. Inv'
    BY WalkStep DEF ProjectionInv
  <2> QED
    BY <2>1 DEF ProjectionInv, vars, ledger
<1>7. /\ counted' \in [1..MaxSeq -> Int] /\ last_seq' \in {0} \cup CommittedSeqs'
      /\ stage' \in [Workers -> {"idle", "cursor", "fetch", "apply", "subscribed", "deliver"}]
      /\ position' \in [Workers -> Int] /\ batch' \in [Workers -> SUBSET CommittedSeqs']
  BY <1>1, <1>3 DEF ProjectionInv
<1>8. ASSUME NEW v \in Workers
      PROVE  stage'[v] \in {"fetch", "subscribed", "deliver"} => position'[v] = last_seq'
  BY <1>1, <1>2, <1>3 DEF ProjectionInv
<1>9. ASSUME NEW v \in Workers
      PROVE  NothingSkipped(v)' /\ \A n \in batch'[v] : last_seq' < n
  <2>1. batch'[v] = batch[w] \ {seq} /\ batch[w] \subseteq S
    BY <1>1, <1>2 DEF ProjectionInv
  <2>2. \A n \in batch'[v] : seq < n
    <3>1. ASSUME NEW n \in batch[w], n # seq PROVE seq < n
      <4>0. n \in S
        BY <2>1
      <4>1. n \in Int /\ seq \in Int
        BY <1>3, <4>0
      <4>2. seq <= n
        BY <1>1
      <4> QED
        BY <3>1, <4>1, <4>2
    <3> QED
      BY <2>1, <3>1
  <2>3. ASSUME NEW n \in batch'[v], NEW other \in S, seq < other, other < n
        PROVE  other \in batch'[v]
    <3>1. last_seq < other /\ n \in batch[w] /\ other # seq
      BY <1>3, <2>1, <2>3
    <3>2. other \in batch[w]
      BY <1>1, <2>3, <3>1 DEF ProjectionInv, NothingSkipped
    <3> QED
      BY <2>1, <3>1, <3>2
  <2> QED
    BY <1>1, <1>3, <2>2, <2>3 DEF NothingSkipped
<1> QED
  BY <1>5, <1>6, <1>7, <1>8, <1>9 DEF ProjectionInv

\* Every step of the only worker is kept.
LEMMA WorkerStepKeeps ==
  ASSUME OneWorker, ProjectionInv, ProjectionStep, UNCHANGED vars
  PROVE  ProjectionInv'
<1> PICK S : S = CommittedSeqs
  OBVIOUS
<1>1. CommittedSeqs' = S /\ S \subseteq 1..MaxSeq
  BY SeqsAreNumbers DEF CommittedSeqs, vars, ledger, ProjectionInv
<1>2. Inv' /\ next_seq' <= MaxSeq + 1
  <2>1. Inv'
    BY WalkStep DEF ProjectionInv
  <2> QED
    BY <2>1 DEF ProjectionInv, vars, ledger
<1> PICK w \in Workers :
      \/ StartCycle(w) \/ WipeAndReset(w) \/ ReadCursor(w) \/ FetchBatch(w)
      \/ ApplyWithCursor(w) \/ Subscribe(w) \/ Drain(w) \/ Deliver(w)
      \/ DeliveryFails(w) \/ FailCycle(w)
  BY DEF ProjectionStep
<1>3. \A v \in Workers : v = w
  BY DEF OneWorker
<1>4. /\ counted \in [1..MaxSeq -> Int] /\ last_seq \in {0} \cup S /\ last_seq \in Int
      /\ stage \in [Workers -> {"idle", "cursor", "fetch", "apply", "subscribed", "deliver"}]
      /\ position \in [Workers -> Int] /\ batch \in [Workers -> SUBSET S]
  BY <1>1 DEF ProjectionInv
<1> DEFINE Holds(v) ==
      /\ stage[v] \in {"fetch", "subscribed", "deliver"} => position[v] = last_seq
      /\ stage[v] \in {"apply", "deliver"} =>
           NothingSkipped(v) /\ \A seq \in batch[v] : last_seq < seq
<1>5. CASE UNCHANGED <<counted, last_seq>> /\ Holds(w)'
           /\ stage' \in [Workers -> {"idle", "cursor", "fetch", "apply", "subscribed", "deliver"}]
           /\ position' \in [Workers -> Int] /\ batch' \in [Workers -> SUBSET S]
  <2>1. ProjectionMatchesLedger'
    BY <1>1, <1>5 DEF ProjectionInv, ProjectionMatchesLedger
  <2>2. \A v \in Workers : Holds(v)'
    BY <1>3, <1>5
  <2> QED
    BY <1>1, <1>2, <1>4, <1>5, <2>1, <2>2 DEF ProjectionInv
<1>6. CASE StartCycle(w)
  BY <1>4, <1>5, <1>6 DEF StartCycle
<1>7. CASE WipeAndReset(w)
  <2>1. /\ counted' = [seq \in 1..MaxSeq |-> 0] /\ last_seq' = 0 /\ UNCHANGED <<position, batch>>
        /\ stage' = [stage EXCEPT ![w] = "cursor"]
    BY <1>7 DEF WipeAndReset
  <2>2. \A seq \in S : ~(seq <= 0)
    BY <1>1
  <2>3. ProjectionMatchesLedger'
    BY <1>1, <2>1, <2>2 DEF ProjectionMatchesLedger
  <2>4. \A v \in Workers : stage'[v] = "cursor"
    BY <1>3, <1>4, <2>1
  <2> QED
    BY <1>1, <1>2, <1>4, <2>1, <2>3, <2>4 DEF ProjectionInv
<1>8. CASE ReadCursor(w)
  BY <1>4, <1>5, <1>8 DEF ReadCursor
<1>9. CASE FetchBatch(w)
  <2>1. batch'[w] = FirstOf(Unread(w)) /\ position[w] = last_seq /\ UNCHANGED <<counted, last_seq, position>>
        /\ stage'[w] \in {"idle", "apply"}
    BY <1>4, <1>9 DEF FetchBatch, ProjectionInv
  <2>2. NothingSkipped(w)' /\ (\A seq \in batch'[w] : last_seq' < seq) /\ batch'[w] \in SUBSET S
    BY <1>1, <2>1, FetchSkipsNothing DEF NothingSkipped
  <2> QED
    BY <1>4, <1>5, <1>9, <2>1, <2>2 DEF FetchBatch
<1>10. CASE Subscribe(w)
  BY <1>4, <1>5, <1>10 DEF Subscribe
<1>11. CASE Drain(w)
  <2>1. batch'[w] = FirstOf(Unread(w)) /\ position[w] = last_seq /\ UNCHANGED <<counted, last_seq, position>>
        /\ stage'[w] = "deliver"
    BY <1>4, <1>11 DEF Drain, ProjectionInv
  <2>2. NothingSkipped(w)' /\ (\A seq \in batch'[w] : last_seq' < seq) /\ batch'[w] \in SUBSET S
    BY <1>1, <2>1, FetchSkipsNothing DEF NothingSkipped
  <2> QED
    BY <1>4, <1>5, <1>11, <2>1, <2>2 DEF Drain
<1>12. CASE DeliveryFails(w)
  BY <1>4, <1>5, <1>12 DEF DeliveryFails, ProjectionInv
<1>13. CASE FailCycle(w)
  BY <1>4, <1>5, <1>13 DEF FailCycle
<1> QED
  BY <1>6, <1>7, <1>8, <1>9, <1>10, <1>11, <1>12, <1>13, ApplyKeeps

\* The tables of a projection say what the ledger says, over any ledger and batch
\* size, whatever fails: a rebuild, a cycle or a subscription counts every event
\* up to the cursor once.
THEOREM ProjectionCorrect ==
  ASSUME OneWorker
  PROVE  ProjectedSpec => []ProjectionMatchesLedger
<1>1. ProjectionInv /\ [ProjectedNext]_projectedVars => ProjectionInv'
  <2> SUFFICES ASSUME ProjectionInv, [ProjectedNext]_projectedVars PROVE ProjectionInv'
    OBVIOUS
  <2>1. CASE ProjectionStep /\ UNCHANGED vars
    BY <2>1, WorkerStepKeeps
  <2>2. CASE LedgerStep /\ UNCHANGED projection
    BY <2>2, LedgerStepKeeps
  <2>3. CASE UNCHANGED projectedVars
    BY <2>3, LedgerStepKeeps DEF projectedVars
  <2> QED
    BY <2>1, <2>2, <2>3 DEF ProjectedNext
<1>2. ProjectionInv => ProjectionMatchesLedger
  BY DEF ProjectionInv
<1> QED
  BY <1>1, <1>2, ProjectionInvInit, PTL DEF ProjectedSpec

-----------------------------------------------------------------------------
(* Analytics: what an event does to the tables.                            *)

Created == "CommitmentCreated"
Minted == "TokenMinted"
Claimed == "ConversionClaimed"
Verified == "ConversionVerified"
Rejected == "ConversionRejected"
Reversed == "ConversionReversed"

FactRecords ==
  [type : {Created, Minted, Claimed, Verified, Rejected, Reversed},
   of : AnalysedCommitments \cup Jtis \cup ClaimIds, reason : Reasons \cup {NotThere}, day : Days]

\* An event is about something there is; only a rejection has a claim without a token.
FactOK(e) ==
  /\ e \in FactRecords
  /\ e.type = Created => e.of \in AnalysedCommitments
  /\ e.type = Minted => e.of \in Jtis
  /\ e.type \in {Claimed, Verified, Reversed} => e.of \in ClaimIds /\ ClaimOf[e.of].jti \in Jtis
  /\ e.type = Rejected => e.of \in ClaimIds /\ e.reason \in Reasons

TableRecords ==
  [commitments : SUBSET AnalysedCommitments, tokens : SUBSET Jtis,
   claims : [ClaimIds -> Int \cup {NotThere}],
   conversions : [AgentsSeen \X Days -> [count : Int, gross : Int]],
   funnel : [(Shops \cup {Missing}) \X Days -> [Columns -> Int]],
   rejections : [Days \X Reasons \X Shops \X AgentsSeen -> Int],
   burn : [AnalysedCommitments \X Days -> Int]]

Cid(k) == TokenOf[ClaimOf[k].jti].commitment

\* A quotient rounded down is the one number p with p * 10000 <= n < (p + 1) * 10000.
Quotient(n) == CHOOSE p \in 0 .. n : p * 10000 <= n /\ n < (p + 1) * 10000

\* Division rounds down.
LEMMA RoundedDown ==
  ASSUME NEW n \in Nat
  PROVE  n \div 10000 \in Nat /\ n \div 10000 = Quotient(n)
<1>1. PICK q \in Int : q = n \div 10000
  OBVIOUS
<1>2. q * 10000 <= n /\ n < (q + 1) * 10000
  BY <1>1
<1>3. q \in 0 .. n
  BY <1>2
<1>4. \A p \in 0 .. n : p * 10000 <= n /\ n < (p + 1) * 10000 => p = q
  BY <1>2
<1> QED
  BY <1>1, <1>2, <1>3, <1>4 DEF Quotient

\* The bounty that is burned is the bounty that is due.
LEMMA BountyIsDue ==
  ASSUME NEW k \in ClaimIds, ClaimOf[k].jti \in Jtis
  PROVE  /\ Cid(k) \in AnalysedCommitments
         /\ BountyDue(Cid(k), k) \in Int
         /\ bountyFor(Terms[Cid(k)].bounty, ClaimOf[k].gross) = BountyDue(Cid(k), k)
<1>1. /\ Cid(k) \in AnalysedCommitments /\ ClaimOf[k].gross \in Nat
      /\ Terms[Cid(k)].bounty.type = "fixed" => Terms[Cid(k)].bounty.amount \in Nat
      /\ Terms[Cid(k)].bounty.type # "fixed" => Terms[Cid(k)].bounty.pct_bps \in Nat
  BY AnalyticsAssumption DEF Cid
<1>2. CASE Terms[Cid(k)].bounty.type = "fixed"
  BY <1>1, <1>2 DEF BountyDue, bountyFor
<1>3. CASE Terms[Cid(k)].bounty.type # "fixed"
  <2>1. PICK n \in Nat : n = ClaimOf[k].gross * Terms[Cid(k)].bounty.pct_bps
    BY <1>1, <1>3
  <2>2. bountyFor(Terms[Cid(k)].bounty, ClaimOf[k].gross) = n \div 10000
    BY <1>3, <2>1 DEF bountyFor
  <2>3. BountyDue(Cid(k), k) = Quotient(n)
    BY <1>3, <2>1 DEF BountyDue, Quotient
  <2> QED
    BY <1>1, <2>2, <2>3, RoundedDown
<1> QED
  BY <1>2, <1>3

\* The row of an agent's conversions that an event adds to, and of its rejections.
AgentOf(t, e) == agentForToken(t, ClaimOf[e.of].jti)
ConversionRow(t, e) == <<AgentOf(t, e), e.day>>
RejectionRow(t, e) == <<e.day, e.reason, ClaimOf[e.of].merchant, AgentOf(t, e)>>
FunnelRow(t, e) ==
  <<IF e.type = Minted THEN merchantForCommitment(t, TokenOf[e.of].commitment)
    ELSE ClaimOf[e.of].merchant, e.day>>
FunnelColumn(e) ==
  CASE e.type = Minted -> "mints" [] e.type = Claimed -> "claims" [] e.type = Verified -> "verified"
    [] OTHER -> "rejected"

\* The rows that an event adds to are rows.
LEMMA RowsAreThere ==
  ASSUME NEW t \in TableRecords, NEW e, FactOK(e)
  PROVE  /\ e.type \in {Verified, Rejected} => ConversionRow(t, e) \in AgentsSeen \X Days
         /\ e.type = Rejected => RejectionRow(t, e) \in Days \X Reasons \X Shops \X AgentsSeen
         /\ e.type \in {Minted, Claimed, Verified, Rejected} =>
              FunnelRow(t, e) \in (Shops \cup {Missing}) \X Days
         /\ FunnelColumn(e) \in Columns
         /\ e.type \in {Verified, Rejected} => FunnelRow(t, e) = <<ClaimOf[e.of].merchant, e.day>>
         /\ e.of \in ClaimIds => ClaimOf[e.of].merchant \in Shops
<1>1. e.day \in Days /\ e.type \in {Created, Minted, Claimed, Verified, Rejected, Reversed}
  BY DEF FactOK, FactRecords
<1>2. t.tokens \subseteq Jtis /\ t.commitments \subseteq AnalysedCommitments
  BY DEF TableRecords
<1>3. AgentOf(t, e) \in AgentsSeen
  BY <1>2 DEF AgentOf, agentForToken, AgentsSeen
<1>4. \A c : merchantForCommitment(t, c) \in Shops \cup {Missing}
  BY <1>2 DEF merchantForCommitment, Shops
<1>5. e.of \in ClaimIds => ClaimOf[e.of].merchant \in Shops
  BY DEF Shops
<1>6. FunnelColumn(e) \in Columns
  BY DEF FunnelColumn, Columns
<1> QED
  BY <1>1, <1>3, <1>4, <1>5, <1>6 DEF FactOK, ConversionRow, RejectionRow, FunnelRow, Created, Minted,
     Claimed, Verified, Rejected, Reversed

\* What the fragments make of the tables, one table at a time.
ConversionsAfter(t, e) ==
  IF e.type = Verified
  THEN [t.conversions EXCEPT ![ConversionRow(t, e)] =
          [count |-> @.count + 1, gross |-> @.gross + ClaimOf[e.of].gross]]
  ELSE t.conversions
FunnelAfter(t, e) ==
  IF e.type \in {Created, Reversed} THEN t.funnel
  ELSE [t.funnel EXCEPT ![FunnelRow(t, e)][FunnelColumn(e)] = @ + 1]
RejectionsAfter(t, e) ==
  IF e.type = Rejected THEN [t.rejections EXCEPT ![RejectionRow(t, e)] = @ + 1] ELSE t.rejections
BurnAfter(t, e) ==
  CASE e.type = Verified /\ Cid(e.of) \in t.commitments ->
         [t.burn EXCEPT ![<<Cid(e.of), e.day>>] = @ + bountyFor(Terms[Cid(e.of)].bounty, ClaimOf[e.of].gross)]
    [] e.type = Reversed /\ t.claims[e.of] # NotThere ->
         [t.burn EXCEPT ![<<Cid(e.of), e.day>>] = @ - t.claims[e.of]]
    [] OTHER -> t.burn
ClaimsAfter(t, e) ==
  IF e.type = Verified /\ Cid(e.of) \in t.commitments
  THEN [t.claims EXCEPT ![e.of] =
          IF @ = NotThere THEN bountyFor(Terms[Cid(e.of)].bounty, ClaimOf[e.of].gross) ELSE @]
  ELSE t.claims

\* What an event does to each table.
LEMMA FragmentsAre ==
  ASSUME NEW t \in TableRecords, NEW e, FactOK(e)
  PROVE  /\ applyFragments(t, e) \in TableRecords
         /\ applyFragments(t, e).commitments = t.commitments \cup (IF e.type = Created THEN {e.of} ELSE {})
         /\ applyFragments(t, e).claims = ClaimsAfter(t, e)
         /\ applyFragments(t, e).conversions = ConversionsAfter(t, e)
         /\ applyFragments(t, e).funnel = FunnelAfter(t, e)
         /\ applyFragments(t, e).rejections = RejectionsAfter(t, e)
         /\ applyFragments(t, e).burn = BurnAfter(t, e)
<1>0. e.type \in {Created, Minted, Claimed, Verified, Rejected, Reversed} /\ e.day \in Days
  BY DEF FactOK, FactRecords
<1>1. PICK t1 : t1 = indexes(t, e)
  OBVIOUS
<1>2. /\ t1 \in TableRecords
      /\ t1.commitments = t.commitments \cup (IF e.type = Created THEN {e.of} ELSE {})
      /\ e.type \notin {Created, Minted} => t1.tokens = t.tokens
      /\ t1.claims = t.claims /\ t1.conversions = t.conversions /\ t1.funnel = t.funnel
      /\ t1.rejections = t.rejections /\ t1.burn = t.burn
  BY <1>1 DEF indexes, TableRecords, FactOK, Created, Minted
<1>3. PICK t2 : t2 = conversionsByAgentDay(t1, e)
  OBVIOUS
<1>4. /\ t2 \in TableRecords /\ t2.conversions = ConversionsAfter(t, e)
      /\ t2.commitments = t1.commitments /\ t2.tokens = t1.tokens /\ t2.claims = t1.claims
      /\ t2.funnel = t1.funnel /\ t2.rejections = t1.rejections /\ t2.burn = t1.burn
  <2>1. CASE e.type # Verified
    BY <1>2, <1>3, <2>1 DEF conversionsByAgentDay, ConversionsAfter, Verified
  <2>2. CASE e.type = Verified
    <3>1. PICK c : c = ConversionsAfter(t, e)
      OBVIOUS
    <3>2. ConversionRow(t, e) \in AgentsSeen \X Days /\ ClaimOf[e.of].gross \in Nat
      BY <2>2, RowsAreThere, AnalyticsAssumption DEF FactOK, Verified
    <3>3. c \in [AgentsSeen \X Days -> [count : Int, gross : Int]]
      BY <2>2, <3>1, <3>2 DEF ConversionsAfter, TableRecords
    <3>4. ConversionRow(t, e) = ConversionRow(t1, e)
      BY <1>2, <2>2 DEF ConversionRow, AgentOf, agentForToken, Created, Minted, Verified
    <3>5. t2 = [t1 EXCEPT !.conversions = c]
      BY <1>2, <1>3, <2>2, <3>1, <3>4
      DEF conversionsByAgentDay, ConversionsAfter, Verified, ConversionRow, AgentOf, TableRecords
    <3> QED
      BY <1>2, <3>1, <3>3, <3>5 DEF TableRecords
  <2> QED
    BY <2>1, <2>2
<1>5. PICK t3 : t3 = mintVsClaimByMerchantDay(t2, e)
  OBVIOUS
<1>6. /\ t3 \in TableRecords /\ t3.funnel = FunnelAfter(t, e)
      /\ t3.commitments = t2.commitments /\ t3.tokens = t2.tokens /\ t3.claims = t2.claims
      /\ t3.conversions = t2.conversions /\ t3.rejections = t2.rejections /\ t3.burn = t2.burn
  <2>1. CASE e.type \in {Created, Reversed}
    BY <1>2, <1>4, <1>5, <2>1 DEF mintVsClaimByMerchantDay, FunnelAfter, Created, Reversed
  <2>2. CASE e.type \notin {Created, Reversed}
    <3>1. PICK f : f = FunnelAfter(t, e)
      OBVIOUS
    <3>2. FunnelRow(t, e) \in (Shops \cup {Missing}) \X Days /\ FunnelColumn(e) \in Columns
      BY <1>0, <2>2, RowsAreThere
    <3>3. f \in [(Shops \cup {Missing}) \X Days -> [Columns -> Int]]
      BY <2>2, <3>1, <3>2 DEF FunnelAfter, TableRecords
    <3>4. FunnelRow(t, e) = FunnelRow(t2, e)
      BY <1>2, <1>4, <2>2 DEF FunnelRow, merchantForCommitment, Created, Minted
    <3>5. t3 = [t2 EXCEPT !.funnel[FunnelRow(t2, e)][FunnelColumn(e)] = @ + 1]
      BY <1>5, <2>2 DEF mintVsClaimByMerchantDay, FunnelRow, FunnelColumn, Created, Reversed, Minted,
         Claimed, Verified
    <3>6. t3 = [t2 EXCEPT !.funnel = f]
      BY <1>2, <1>4, <2>2, <3>1, <3>4, <3>5 DEF FunnelAfter, TableRecords
    <3> QED
      BY <1>4, <3>1, <3>3, <3>6 DEF TableRecords
  <2> QED
    BY <2>1, <2>2
<1>7. PICK t4 : t4 = rejectionsByReasonDay(t3, e)
  OBVIOUS
<1>8. /\ t4 \in TableRecords /\ t4.rejections = RejectionsAfter(t, e)
      /\ t4.commitments = t3.commitments /\ t4.tokens = t3.tokens /\ t4.claims = t3.claims
      /\ t4.conversions = t3.conversions /\ t4.funnel = t3.funnel /\ t4.burn = t3.burn
  <2>1. CASE e.type # Rejected
    BY <1>2, <1>4, <1>6, <1>7, <2>1 DEF rejectionsByReasonDay, RejectionsAfter, Rejected
  <2>2. CASE e.type = Rejected
    <3>1. PICK r : r = RejectionsAfter(t, e)
      OBVIOUS
    <3>2. RejectionRow(t, e) \in Days \X Reasons \X Shops \X AgentsSeen
      BY <2>2, RowsAreThere
    <3>3. r \in [Days \X Reasons \X Shops \X AgentsSeen -> Int]
      BY <2>2, <3>1, <3>2 DEF RejectionsAfter, TableRecords
    <3>4. RejectionRow(t, e) = RejectionRow(t3, e)
      BY <1>2, <1>4, <1>6, <2>2 DEF RejectionRow, AgentOf, agentForToken, Created, Minted, Rejected
    <3>5. t4 = [t3 EXCEPT !.rejections = r]
      BY <1>2, <1>4, <1>6, <1>7, <2>2, <3>1, <3>4
      DEF rejectionsByReasonDay, RejectionsAfter, Rejected, RejectionRow, AgentOf, TableRecords
    <3> QED
      BY <1>6, <3>1, <3>3, <3>5 DEF TableRecords
  <2> QED
    BY <2>1, <2>2
<1>9. PICK t5 : t5 = budgetBurn(t4, e)
  OBVIOUS
<1>10. /\ t5 \in TableRecords /\ t5.burn = BurnAfter(t, e) /\ t5.claims = ClaimsAfter(t, e)
       /\ t5.commitments = t4.commitments /\ t5.conversions = t4.conversions
       /\ t5.funnel = t4.funnel /\ t5.rejections = t4.rejections
  <2>0. /\ t4.claims = t.claims /\ t4.burn = t.burn
        /\ e.type # Created => t4.commitments = t.commitments
    BY <1>2, <1>4, <1>6, <1>8
  <2>1. CASE e.type = Verified /\ Cid(e.of) \in t.commitments
    <3>1. PICK b, c : b = BurnAfter(t, e) /\ c = ClaimsAfter(t, e)
      OBVIOUS
    <3>2. /\ e.of \in ClaimIds /\ <<Cid(e.of), e.day>> \in AnalysedCommitments \X Days
          /\ bountyFor(Terms[Cid(e.of)].bounty, ClaimOf[e.of].gross) \in Int
      BY <1>0, <2>1, BountyIsDue DEF FactOK, Verified
    <3>3. /\ b \in [AnalysedCommitments \X Days -> Int]
          /\ c \in [ClaimIds -> Int \cup {NotThere}]
      BY <2>1, <3>1, <3>2 DEF BurnAfter, ClaimsAfter, TableRecords
    <3>4. t5 = [t4 EXCEPT !.claims = c, !.burn = b]
      <4>1. PICK bounty, row : /\ bounty = bountyFor(Terms[Cid(e.of)].bounty, ClaimOf[e.of].gross)
                              /\ row = <<Cid(e.of), e.day>>
        OBVIOUS
      <4>2. /\ c = [t4.claims EXCEPT ![e.of] = IF @ = NotThere THEN bounty ELSE @]
            /\ b = [t4.burn EXCEPT ![row] = @ + bounty]
        BY <2>0, <2>1, <3>1, <4>1 DEF BurnAfter, ClaimsAfter, Verified, Reversed
      <4>3. t5 = [t4 EXCEPT !.claims[e.of] = IF @ = NotThere THEN bounty ELSE @,
                            !.burn[row] = @ + bounty]
        BY <1>9, <2>0, <2>1, <4>1 DEF budgetBurn, Cid, Verified, Created
      <4> QED
        BY <1>8, <4>2, <4>3 DEF TableRecords
    <3> QED
      BY <1>8, <3>1, <3>3, <3>4 DEF TableRecords
  <2>2. CASE e.type = Reversed /\ t.claims[e.of] # NotThere
    <3>1. PICK b : b = BurnAfter(t, e)
      OBVIOUS
    <3>2. /\ e.of \in ClaimIds /\ <<Cid(e.of), e.day>> \in AnalysedCommitments \X Days
          /\ t.claims[e.of] \in Int
      BY <1>0, <2>2, BountyIsDue DEF FactOK, Reversed, TableRecords
    <3>3. b \in [AnalysedCommitments \X Days -> Int]
      BY <2>2, <3>1, <3>2 DEF BurnAfter, TableRecords, Reversed, Verified
    <3>4. t5 = [t4 EXCEPT !.burn = b]
      BY <1>8, <1>9, <2>0, <2>2, <3>1 DEF budgetBurn, BurnAfter, Cid, TableRecords, Reversed, Verified
    <3>5. ClaimsAfter(t, e) = t.claims
      BY <2>2 DEF ClaimsAfter, Reversed, Verified
    <3> QED
      BY <1>8, <2>0, <3>1, <3>3, <3>4, <3>5 DEF TableRecords
  <2>3. CASE ~(e.type = Verified /\ Cid(e.of) \in t.commitments) /\ ~(e.type = Reversed /\ t.claims[e.of] # NotThere)
    <3>1. t5 = t4
      BY <1>9, <2>0, <2>3 DEF budgetBurn, Cid, Verified, Reversed, Created
    <3>2. BurnAfter(t, e) = t.burn /\ ClaimsAfter(t, e) = t.claims
      BY <2>3 DEF BurnAfter, ClaimsAfter
    <3> QED
      BY <1>8, <2>0, <3>1, <3>2
  <2> QED
    BY <2>1, <2>2, <2>3
<1>11. applyFragments(t, e) = t5
  BY <1>1, <1>3, <1>5, <1>7, <1>9 DEF applyFragments
<1> QED
  BY <1>2, <1>4, <1>6, <1>8, <1>10, <1>11

-----------------------------------------------------------------------------
(* Analytics: the sums of the tables agree.                                *)

\* Tables are finite.
LEMMA IndicesAreFinite ==
  /\ IsFiniteSet(Days) /\ IsFiniteSet(Shops) /\ IsFiniteSet(AgentsSeen)
  /\ IsFiniteSet(Shops \X Days) /\ IsFiniteSet(AgentsSeen \X Days)
  /\ \A m : IsFiniteSet(Days \X Reasons \X {m} \X AgentsSeen)
<1>1. IsFiniteSet(Days)
  <2>1. 1 \in Int /\ MaxDays \in Int
    BY AnalyticsAssumption
  <2> QED
    BY <2>1, FS_Interval, Zenon DEF Days
<1>2. IsFiniteSet(AgentsSeen)
  <2> DEFINE f == [j \in Jtis |-> TokenOf[j].agent]
  <2>1. f \in Surjection(Jtis, {TokenOf[j].agent : j \in Jtis})
    BY DEF Surjection
  <2>2. IsFiniteSet({TokenOf[j].agent : j \in Jtis})
    BY <2>1, AnalyticsAssumption, FS_Surjection
  <2> QED
    BY <2>2, FS_AddElement DEF AgentsSeen
<1>3. IsFiniteSet(Shops)
  <2> DEFINE f == [c \in AnalysedCommitments |-> Terms[c].merchant]
             g == [k \in ClaimIds |-> ClaimOf[k].merchant]
  <2>1. /\ f \in Surjection(AnalysedCommitments, {Terms[c].merchant : c \in AnalysedCommitments})
        /\ g \in Surjection(ClaimIds, {ClaimOf[k].merchant : k \in ClaimIds})
    BY DEF Surjection
  <2>2. /\ IsFiniteSet({Terms[c].merchant : c \in AnalysedCommitments})
        /\ IsFiniteSet({ClaimOf[k].merchant : k \in ClaimIds})
    BY <2>1, AnalyticsAssumption, FS_Surjection
  <2> QED
    BY <2>2, FS_Union DEF Shops
<1>4. IsFiniteSet(Shops \X Days) /\ IsFiniteSet(AgentsSeen \X Days)
  BY <1>1, <1>2, <1>3, FS_Product
<1>5. ASSUME NEW m PROVE IsFiniteSet(Days \X Reasons \X {m} \X AgentsSeen)
  <2> DEFINE S == (Days \X Reasons) \X AgentsSeen
             T == Days \X Reasons \X {m} \X AgentsSeen
             f == [x \in S |-> <<x[1][1], x[1][2], m, x[2]>>]
  <2>1. IsFiniteSet(S)
    BY <1>1, <1>2, AnalyticsAssumption, FS_Product
  <2>2. ASSUME NEW x \in S PROVE f[x] \in T
    OBVIOUS
  <2>3. ASSUME NEW y \in T PROVE \E x \in S : f[x] = y
    <3>1. PICK x : x = <<<<y[1], y[2]>>, y[4]>>
      OBVIOUS
    <3>2. x \in S /\ f[x] = y
      BY <3>1
    <3> QED
      BY <3>2
  <2>4. f \in Surjection(S, T)
    BY <2>2, <2>3 DEF Surjection
  <2> QED
    BY <2>1, <2>4, FS_Surjection
<1> QED
  BY <1>1, <1>2, <1>3, <1>4, <1>5

\* The columns of the tables that are summed, by the tables t, the verified
\* claims V and the reversed ones R.
Burned(t, c) == [d \in Days |-> t.burn[<<c, d>>]]
OwedOn(V, R, c) == {k \in V \ R : Cid(k) = c}
DueOn(V, R, c) == [k \in OwedOn(V, R, c) |-> BountyDue(c, k)]
VerifiedRows(t) == [x \in Shops \X Days |-> t.funnel[x]["verified"]]
CountRows(t) == [x \in AgentsSeen \X Days |-> t.conversions[x].count]
GrossRows(t) == [x \in AgentsSeen \X Days |-> t.conversions[x].gross]
GrossOf(V) == [k \in V |-> ClaimOf[k].gross]
RejectedRows(t, m) == [d \in Days |-> t.funnel[<<m, d>>]["rejected"]]
ReasonRows(t, m) == [x \in Days \X Reasons \X {m} \X AgentsSeen |-> t.rejections[x]]

BurnAgrees(t, V, R) == \A c \in AnalysedCommitments : SumFunction(Burned(t, c)) = SumFunction(DueOn(V, R, c))
CountsAgree(t) == SumFunction(VerifiedRows(t)) = SumFunction(CountRows(t))
GrossAgrees(t, V) == SumFunction(GrossRows(t)) = SumFunction(GrossOf(V))
RejectionsAgree(t) == \A m \in Shops : SumFunction(RejectedRows(t, m)) = SumFunction(ReasonRows(t, m))

\* The agreement of the tables, sum by sum.
LEMMA AgreementIs ==
  TablesAgree <=> /\ BurnAgrees(tables, Counted(Verified), Counted(Reversed))
                  /\ CountsAgree(tables) /\ GrossAgrees(tables, Counted(Verified)) /\ RejectionsAgree(tables)
BY DEF TablesAgree, BurnAgrees, CountsAgree, GrossAgrees, RejectionsAgree, Burned, DueOn, OwedOn,
   VerifiedRows, CountRows, GrossRows, GrossOf, RejectedRows, ReasonRows, StandingOn, Standing, Cid,
   Verified, Reversed

With(S, e, type) == S \cup (IF e.type = type THEN {e.of} ELSE {})

\* Agents have the conversions that merchants have: a verified one is a row of each.
LEMMA CountsKept ==
  ASSUME NEW t \in TableRecords, NEW e, FactOK(e), CountsAgree(t)
  PROVE  CountsAgree(applyFragments(t, e))
<1>1. PICK u : u = applyFragments(t, e)
  OBVIOUS
<1>2. u.conversions = ConversionsAfter(t, e) /\ u.funnel = FunnelAfter(t, e) /\ u \in TableRecords
  BY <1>1, FragmentsAre
<1>3. /\ VerifiedRows(t) \in [Shops \X Days -> Int] /\ CountRows(t) \in [AgentsSeen \X Days -> Int]
      /\ DOMAIN VerifiedRows(u) = Shops \X Days /\ DOMAIN CountRows(u) = AgentsSeen \X Days
  BY DEF VerifiedRows, CountRows, TableRecords, Columns
<1>4. CASE e.type = Verified
  <2>1. /\ ConversionRow(t, e) \in AgentsSeen \X Days
        /\ FunnelRow(t, e) \in Shops \X Days
    BY <1>4, RowsAreThere DEF FactOK, FactRecords
  <2>2. /\ CountRows(u)[ConversionRow(t, e)] = CountRows(t)[ConversionRow(t, e)] + 1
        /\ \A x \in AgentsSeen \X Days : x # ConversionRow(t, e) => CountRows(u)[x] = CountRows(t)[x]
    BY <1>2, <1>4, <2>1 DEF CountRows, ConversionsAfter, TableRecords
  <2>3. FunnelColumn(e) = "verified"
    BY <1>4 DEF FunnelColumn, Minted, Claimed, Verified
  <2>4. /\ VerifiedRows(u)[FunnelRow(t, e)] = VerifiedRows(t)[FunnelRow(t, e)] + 1
        /\ \A x \in Shops \X Days : x # FunnelRow(t, e) => VerifiedRows(u)[x] = VerifiedRows(t)[x]
    BY <1>2, <1>4, <2>1, <2>3 DEF VerifiedRows, FunnelAfter, TableRecords, Columns, Created, Reversed, Verified
  <2>5. SumFunction(CountRows(u)) = SumFunction(CountRows(t)) + 1
    BY <1>3, <2>1, <2>2, TotalGrows, IndicesAreFinite
  <2>6. SumFunction(VerifiedRows(u)) = SumFunction(VerifiedRows(t)) + 1
    BY <1>3, <2>1, <2>4, TotalGrows, IndicesAreFinite
  <2> QED
    BY <1>1, <2>5, <2>6 DEF CountsAgree
<1>5. CASE e.type # Verified
  <2>1. CountRows(u) = CountRows(t)
    BY <1>2, <1>5 DEF CountRows, ConversionsAfter
  <2>2. FunnelColumn(e) # "verified" /\ FunnelColumn(e) \in Columns
    BY <1>5, RowsAreThere DEF FunnelColumn, Minted, Claimed, Verified
  <2>3. \A x \in (Shops \cup {Missing}) \X Days : u.funnel[x]["verified"] = t.funnel[x]["verified"]
    BY <1>2, <2>2 DEF FunnelAfter, TableRecords, Columns
  <2>4. VerifiedRows(u) = VerifiedRows(t)
    BY <2>3 DEF VerifiedRows
  <2> QED
    BY <1>1, <2>1, <2>4 DEF CountsAgree
<1> QED
  BY <1>4, <1>5

\* The gross of the conversions is that of the verified claims.
LEMMA GrossKept ==
  ASSUME NEW t \in TableRecords, NEW e, FactOK(e), NEW V \in SUBSET ClaimIds, GrossAgrees(t, V),
         e.type = Verified => e.of \notin V
  PROVE  GrossAgrees(applyFragments(t, e), With(V, e, Verified))
<1>1. PICK u : u = applyFragments(t, e)
  OBVIOUS
<1>2. u.conversions = ConversionsAfter(t, e) /\ u \in TableRecords
  BY <1>1, FragmentsAre
<1>3. CASE e.type = Verified
  <2>1. ConversionRow(t, e) \in AgentsSeen \X Days
    BY <1>3, RowsAreThere
  <2>2. e.of \in ClaimIds /\ ClaimOf[e.of].gross \in Int
    BY <1>3, AnalyticsAssumption DEF FactOK, Verified
  <2>3. /\ GrossRows(t) \in [AgentsSeen \X Days -> Int] /\ DOMAIN GrossRows(u) = AgentsSeen \X Days
    BY DEF GrossRows, TableRecords
  <2>4. /\ GrossRows(u)[ConversionRow(t, e)] = GrossRows(t)[ConversionRow(t, e)] + ClaimOf[e.of].gross
        /\ \A x \in AgentsSeen \X Days : x # ConversionRow(t, e) => GrossRows(u)[x] = GrossRows(t)[x]
    BY <1>2, <1>3, <2>1 DEF GrossRows, ConversionsAfter, TableRecords
  <2>5. SumFunction(GrossRows(u)) = SumFunction(GrossRows(t)) + ClaimOf[e.of].gross
    BY <2>1, <2>2, <2>3, <2>4, TotalGrows, IndicesAreFinite
  <2>6. With(V, e, Verified) = V \cup {e.of} /\ IsFiniteSet(V)
    BY <1>3, AnalyticsAssumption, FS_Subset DEF With
  <2>7. GrossOf(V \cup {e.of}) \in [V \cup {e.of} -> Int] /\ DOMAIN GrossOf(V) = V
    BY <2>2, AnalyticsAssumption DEF GrossOf
  <2>8. /\ GrossOf(V \cup {e.of})[e.of] = ClaimOf[e.of].gross
        /\ \A k \in V : GrossOf(V)[k] = GrossOf(V \cup {e.of})[k]
    BY DEF GrossOf
  <2>9. SumFunction(GrossOf(V \cup {e.of})) = SumFunction(GrossOf(V)) + ClaimOf[e.of].gross
    <3>1. PICK k, f, g : k = e.of /\ f = GrossOf(V) /\ g = GrossOf(V \cup {e.of})
      OBVIOUS
    <3>2. k \notin V /\ g \in [V \cup {k} -> Int] /\ DOMAIN f = V /\ \A l \in V : f[l] = g[l]
      BY <1>3, <2>7, <2>8, <3>1
    <3>3. SumFunction(g) = SumFunction(f) + g[k]
      BY <2>6, <3>2, TotalExtends
    <3> QED
      BY <2>8, <3>1, <3>3
  <2> QED
    BY <1>1, <2>5, <2>6, <2>9 DEF GrossAgrees
<1>4. CASE e.type # Verified
  <2>1. GrossRows(u) = GrossRows(t) /\ With(V, e, Verified) = V
    BY <1>2, <1>4 DEF GrossRows, ConversionsAfter, With
  <2> QED
    BY <1>1, <2>1 DEF GrossAgrees
<1> QED
  BY <1>3, <1>4

\* Every rejection has a reason.
LEMMA RejectionsKept ==
  ASSUME NEW t \in TableRecords, NEW e, FactOK(e), RejectionsAgree(t)
  PROVE  RejectionsAgree(applyFragments(t, e))
<1>1. PICK u : u = applyFragments(t, e)
  OBVIOUS
<1>2. u.rejections = RejectionsAfter(t, e) /\ u.funnel = FunnelAfter(t, e) /\ u \in TableRecords
  BY <1>1, FragmentsAre
<1> SUFFICES ASSUME NEW m \in Shops
             PROVE  SumFunction(RejectedRows(u, m)) = SumFunction(ReasonRows(u, m))
  BY <1>1 DEF RejectionsAgree
<1>3. SumFunction(RejectedRows(t, m)) = SumFunction(ReasonRows(t, m))
  BY DEF RejectionsAgree
<1>4. CASE e.type = Rejected /\ ClaimOf[e.of].merchant = m
  <2>1. e.day \in Days /\ RejectionRow(t, e) \in Days \X Reasons \X {m} \X AgentsSeen
    BY <1>4, RowsAreThere DEF FactOK, FactRecords, RejectionRow
  <2>2. FunnelRow(t, e) = <<m, e.day>> /\ FunnelColumn(e) = "rejected"
    BY <1>4, RowsAreThere DEF FunnelColumn, Minted, Claimed, Verified, Rejected
  <2>3. /\ RejectedRows(t, m) \in [Days -> Int] /\ DOMAIN RejectedRows(u, m) = Days
        /\ ReasonRows(t, m) \in [Days \X Reasons \X {m} \X AgentsSeen -> Int]
        /\ DOMAIN ReasonRows(u, m) = Days \X Reasons \X {m} \X AgentsSeen
    BY DEF RejectedRows, ReasonRows, TableRecords, Columns
  <2>4. /\ RejectedRows(u, m)[e.day] = RejectedRows(t, m)[e.day] + 1
        /\ \A d \in Days : d # e.day => RejectedRows(u, m)[d] = RejectedRows(t, m)[d]
    BY <1>2, <1>4, <2>1, <2>2 DEF RejectedRows, FunnelAfter, TableRecords, Columns, Created, Reversed, Rejected
  <2>5. /\ ReasonRows(u, m)[RejectionRow(t, e)] = ReasonRows(t, m)[RejectionRow(t, e)] + 1
        /\ \A x \in Days \X Reasons \X {m} \X AgentsSeen :
             x # RejectionRow(t, e) => ReasonRows(u, m)[x] = ReasonRows(t, m)[x]
    <3>1. Days \X Reasons \X {m} \X AgentsSeen \subseteq Days \X Reasons \X Shops \X AgentsSeen
      OBVIOUS
    <3>2. u.rejections = [t.rejections EXCEPT ![RejectionRow(t, e)] = @ + 1]
      BY <1>2, <1>4 DEF RejectionsAfter
    <3>3. t.rejections \in [Days \X Reasons \X Shops \X AgentsSeen -> Int]
      BY DEF TableRecords
    <3> QED
      BY <2>1, <3>1, <3>2, <3>3 DEF ReasonRows
  <2>6. SumFunction(RejectedRows(u, m)) = SumFunction(RejectedRows(t, m)) + 1
    BY <2>1, <2>3, <2>4, TotalGrows, IndicesAreFinite
  <2>7. SumFunction(ReasonRows(u, m)) = SumFunction(ReasonRows(t, m)) + 1
    <3>1. IsFiniteSet(Days \X Reasons \X {m} \X AgentsSeen)
      BY IndicesAreFinite
    <3> QED
      BY <2>1, <2>3, <2>5, <3>1, TotalGrows
  <2> QED
    BY <1>3, <2>6, <2>7
<1>5. CASE ~(e.type = Rejected /\ ClaimOf[e.of].merchant = m)
  <2>1. ReasonRows(u, m) = ReasonRows(t, m)
    <3>1. CASE e.type # Rejected
      BY <1>2, <3>1 DEF ReasonRows, RejectionsAfter
    <3>2. CASE e.type = Rejected
      <4>1. RejectionRow(t, e) \notin Days \X Reasons \X {m} \X AgentsSeen
        BY <1>5, <3>2 DEF RejectionRow
      <4>2. u.rejections = [t.rejections EXCEPT ![RejectionRow(t, e)] = @ + 1]
        BY <1>2, <3>2 DEF RejectionsAfter
      <4>3. t.rejections \in [Days \X Reasons \X Shops \X AgentsSeen -> Int]
        BY DEF TableRecords
      <4>4. \A x \in Days \X Reasons \X {m} \X AgentsSeen : u.rejections[x] = t.rejections[x]
        BY <4>1, <4>2, <4>3
      <4> QED
        BY <4>4 DEF ReasonRows
    <3> QED
      BY <3>1, <3>2
  <2>2. \A d \in Days : u.funnel[<<m, d>>]["rejected"] = t.funnel[<<m, d>>]["rejected"]
    <3>1. CASE e.type # Rejected
      <4>1. e.type \notin {Created, Reversed} => FunnelColumn(e) # "rejected" /\ FunnelColumn(e) \in Columns
        BY <3>1, RowsAreThere DEF FactOK, FactRecords, FunnelColumn, Minted, Claimed, Verified
      <4> QED
        BY <1>2, <4>1 DEF FunnelAfter, TableRecords, Columns
    <3>2. CASE e.type = Rejected
      <4>1. FunnelRow(t, e) = <<ClaimOf[e.of].merchant, e.day>> /\ ClaimOf[e.of].merchant # m
        BY <1>5, <3>2, RowsAreThere
      <4> QED
        BY <1>2, <3>2, <4>1 DEF FunnelAfter, TableRecords, Columns
    <3> QED
      BY <3>1, <3>2
  <2>3. RejectedRows(u, m) = RejectedRows(t, m)
    BY <2>2 DEF RejectedRows
  <2> QED
    BY <1>3, <2>1, <2>3
<1> QED
  BY <1>4, <1>5

\* A commitment has burned the bounties of the conversions that stand: a
\* verified claim burns its own, and a reversal credits what it burned.
LEMMA BurnKept ==
  ASSUME NEW t \in TableRecords, NEW e, FactOK(e),
         NEW V \in SUBSET {k \in ClaimIds : ClaimOf[k].jti \in Jtis}, NEW R \in SUBSET V,
         BurnAgrees(t, V, R), \A k \in V : t.claims[k] = BountyDue(Cid(k), k),
         e.type = Verified => e.of \notin V /\ Cid(e.of) \in t.commitments,
         e.type = Reversed => e.of \in V \ R
  PROVE  BurnAgrees(applyFragments(t, e), With(V, e, Verified), With(R, e, Reversed))
<1>1. PICK u, W, Q : u = applyFragments(t, e) /\ W = With(V, e, Verified) /\ Q = With(R, e, Reversed)
  OBVIOUS
<1>2. u.burn = BurnAfter(t, e) /\ u \in TableRecords
  BY <1>1, FragmentsAre
<1> SUFFICES ASSUME NEW c \in AnalysedCommitments
             PROVE  SumFunction(Burned(u, c)) = SumFunction(DueOn(W, Q, c))
  BY <1>1 DEF BurnAgrees
<1>3. /\ SumFunction(Burned(t, c)) = SumFunction(DueOn(V, R, c))
      /\ Burned(t, c) \in [Days -> Int] /\ DOMAIN Burned(u, c) = Days
  BY DEF BurnAgrees, Burned, TableRecords
<1>4. \A k \in ClaimIds : ClaimOf[k].jti \in Jtis /\ Cid(k) = c => BountyDue(c, k) \in Int
  BY BountyIsDue
<1>5. \A S : S \in SUBSET ClaimIds => IsFiniteSet(S)
  BY AnalyticsAssumption, FS_Subset
<1>6. e.day \in Days
  BY DEF FactOK, FactRecords
<1>7. CASE e.type = Verified
  <2>1. /\ e.of \in ClaimIds /\ ClaimOf[e.of].jti \in Jtis /\ e.of \notin V /\ W = V \cup {e.of} /\ Q = R
    BY <1>1, <1>7 DEF FactOK, With, Verified, Reversed
  <2>2. u.burn = [t.burn EXCEPT ![<<Cid(e.of), e.day>>] = @ + BountyDue(Cid(e.of), e.of)]
    BY <1>2, <1>7, <2>1, BountyIsDue DEF BurnAfter
  <2>3. CASE Cid(e.of) = c
    <3>1. OwedOn(W, Q, c) = OwedOn(V, R, c) \cup {e.of} /\ e.of \notin OwedOn(V, R, c)
      BY <2>1, <2>3 DEF OwedOn
    <3>2. /\ DueOn(W, Q, c) \in [OwedOn(V, R, c) \cup {e.of} -> Int]
          /\ DOMAIN DueOn(V, R, c) = OwedOn(V, R, c) /\ IsFiniteSet(OwedOn(V, R, c))
      BY <1>4, <1>5, <2>1, <2>3, <3>1 DEF DueOn, OwedOn
    <3>3. /\ DueOn(W, Q, c)[e.of] = BountyDue(c, e.of)
          /\ \A k \in OwedOn(V, R, c) : DueOn(V, R, c)[k] = DueOn(W, Q, c)[k]
      BY <3>1 DEF DueOn
    <3>4. SumFunction(DueOn(W, Q, c)) = SumFunction(DueOn(V, R, c)) + BountyDue(c, e.of)
      BY <3>1, <3>2, <3>3, TotalExtends
    <3>5. /\ Burned(u, c)[e.day] = Burned(t, c)[e.day] + BountyDue(c, e.of)
          /\ \A d \in Days : d # e.day => Burned(u, c)[d] = Burned(t, c)[d]
      BY <1>6, <2>2, <2>3 DEF Burned, TableRecords
    <3>6. SumFunction(Burned(u, c)) = SumFunction(Burned(t, c)) + BountyDue(c, e.of)
      BY <1>3, <1>4, <1>6, <2>1, <2>3, <3>5, TotalGrows, IndicesAreFinite
    <3> QED
      BY <1>3, <3>4, <3>6
  <2>4. CASE Cid(e.of) # c
    <3>1. OwedOn(W, Q, c) = OwedOn(V, R, c)
      BY <2>1, <2>4 DEF OwedOn
    <3>2. \A d \in Days : u.burn[<<c, d>>] = t.burn[<<c, d>>]
      BY <2>2, <2>4 DEF TableRecords
    <3> QED
      BY <1>3, <3>1, <3>2 DEF DueOn, Burned
  <2> QED
    BY <2>3, <2>4
<1>8. CASE e.type = Reversed
  <2>1. /\ e.of \in ClaimIds /\ ClaimOf[e.of].jti \in Jtis /\ e.of \in V /\ e.of \notin R
        /\ W = V /\ Q = R \cup {e.of}
    BY <1>1, <1>8 DEF FactOK, With, Verified, Reversed
  <2>2. /\ BountyDue(Cid(e.of), e.of) \in Int /\ t.claims[e.of] = BountyDue(Cid(e.of), e.of)
        /\ t.claims[e.of] # NotThere
    BY <2>1, BountyIsDue, AnalyticsAssumption
  <2>3. u.burn = [t.burn EXCEPT ![<<Cid(e.of), e.day>>] = @ - BountyDue(Cid(e.of), e.of)]
    BY <1>2, <1>8, <2>2 DEF BurnAfter, Verified, Reversed
  <2>4. CASE Cid(e.of) = c
    <3>1. OwedOn(V, R, c) = OwedOn(W, Q, c) \cup {e.of} /\ e.of \notin OwedOn(W, Q, c)
      BY <2>1, <2>4 DEF OwedOn
    <3>2. /\ DueOn(V, R, c) \in [OwedOn(W, Q, c) \cup {e.of} -> Int]
          /\ DOMAIN DueOn(W, Q, c) = OwedOn(W, Q, c) /\ IsFiniteSet(OwedOn(W, Q, c))
      BY <1>4, <1>5, <2>1, <2>4, <3>1 DEF DueOn, OwedOn
    <3>3. /\ DueOn(V, R, c)[e.of] = BountyDue(c, e.of)
          /\ \A k \in OwedOn(W, Q, c) : DueOn(W, Q, c)[k] = DueOn(V, R, c)[k]
      BY <3>1 DEF DueOn
    <3>4. /\ SumFunction(DueOn(V, R, c)) = SumFunction(DueOn(W, Q, c)) + BountyDue(c, e.of)
          /\ SumFunction(DueOn(W, Q, c)) \in Int
      BY <3>1, <3>2, <3>3, TotalExtends
    <3>5. PICK loss \in Int : loss = 0 - BountyDue(c, e.of)
      BY <2>2, <2>4
    <3>6. /\ Burned(u, c)[e.day] = Burned(t, c)[e.day] + loss
          /\ \A d \in Days : d # e.day => Burned(u, c)[d] = Burned(t, c)[d]
      BY <1>3, <1>6, <2>2, <2>3, <2>4, <3>5 DEF Burned, TableRecords
    <3>7. SumFunction(Burned(u, c)) = SumFunction(Burned(t, c)) + loss
      BY <1>3, <1>6, <3>6, TotalGrows, IndicesAreFinite
    <3> QED
      BY <1>3, <2>2, <2>4, <3>4, <3>5, <3>7
  <2>5. CASE Cid(e.of) # c
    <3>1. OwedOn(W, Q, c) = OwedOn(V, R, c)
      BY <2>1, <2>5 DEF OwedOn
    <3>2. \A d \in Days : u.burn[<<c, d>>] = t.burn[<<c, d>>]
      BY <2>3, <2>5 DEF TableRecords
    <3> QED
      BY <1>3, <3>1, <3>2 DEF DueOn, Burned
  <2> QED
    BY <2>4, <2>5
<1>9. CASE e.type \notin {Verified, Reversed}
  <2>1. u.burn = t.burn /\ W = V /\ Q = R
    BY <1>1, <1>2, <1>9 DEF BurnAfter, With
  <2> QED
    BY <1>3, <2>1 DEF DueOn, Burned
<1> QED
  BY <1>7, <1>8, <1>9

-----------------------------------------------------------------------------
(* Analytics: the invariant.                                               *)

\* The facts there can be, and what each follows: the commitments come before
\* everything else, a conversion is verified once and reversed once, and it is
\* reversed after it was verified.
FactsInv ==
  /\ calendar \in Days
  /\ facts \in Seq(FactRecords)
  /\ \A i \in 1 .. Len(facts) : FactOK(facts[i])
  /\ \A c \in AnalysedCommitments : \E j \in 1 .. Len(facts) : facts[j].type = Created /\ facts[j].of = c
  /\ \A i \in 1 .. Len(facts) : facts[i].type # Created =>
       \A c \in AnalysedCommitments : \E j \in 1 .. i - 1 : facts[j].type = Created /\ facts[j].of = c
  /\ \A i, j \in 1 .. Len(facts) :
       facts[i].type = facts[j].type /\ facts[i].of = facts[j].of /\ facts[i].type \in {Verified, Reversed} => i = j
  /\ \A i \in 1 .. Len(facts) : facts[i].type = Reversed =>
       \E j \in 1 .. i - 1 : facts[j].type = Verified /\ facts[j].of = facts[i].of

\* The tables hold what was counted: the commitments, and of each verified
\* claim the bounty it burned.
TablesInv ==
  /\ seen \in 0 .. Len(facts)
  /\ tables \in TableRecords
  /\ tables.commitments = Counted(Created)
  /\ \A k \in ClaimIds :
       tables.claims[k] = IF k \in Counted(Verified) THEN BountyDue(Cid(k), k) ELSE NotThere
  /\ TablesAgree

AnalyticsInv == FactsInv /\ TablesInv

\* A finite set as a sequence is an enumeration of it.
LEMMA SequenceOfSet ==
  ASSUME NEW S, IsFiniteSet(S)
  PROVE  /\ SetToSeq(S) \in Seq(S)
         /\ \A x \in S : \E i \in 1 .. Len(SetToSeq(S)) : SetToSeq(S)[i] = x
         /\ \A i, j \in 1 .. Len(SetToSeq(S)) : SetToSeq(S)[i] = SetToSeq(S)[j] => i = j
<1>1. PICK n \in Nat : n = Cardinality(S)
  BY FS_CardinalityType
<1>2. \E f \in [1 .. n -> S] : IsInjective(f)
  BY <1>1, FS_CardinalityType DEF ExistsBijection, Bijection, Injection
<1>3. SetToSeq(S) \in [1 .. n -> S] /\ IsInjective(SetToSeq(S))
  BY <1>1, <1>2 DEF SetToSeq
<1>4. Cardinality(1 .. n) = n
  <2>1. 1 \in Int /\ n \in Int
    OBVIOUS
  <2>2. Cardinality(1 .. n) = IF 1 > n THEN 0 ELSE n - 1 + 1
    BY <2>1, FS_Interval, Zenon
  <2> QED
    BY <2>2
<1>5. SetToSeq(S) \in Surjection(1 .. n, S)
  <2>1. SetToSeq(S) \in Injection(1 .. n, S)
    BY <1>3 DEF Injection
  <2> QED
    BY <1>1, <1>4, <2>1, FS_Injection
<1>6. SetToSeq(S) \in Seq(S) /\ Len(SetToSeq(S)) = n
  BY <1>3
<1> QED
  BY <1>3, <1>5, <1>6 DEF Surjection, IsInjective

\* The facts are right at the start ...
LEMMA FactsInitially == AnalyticsInit => FactsInv
<1> SUFFICES ASSUME AnalyticsInit PROVE FactsInv
  OBVIOUS
<1> DEFINE F == {Fact(Created, c) : c \in AnalysedCommitments}
           f == [c \in AnalysedCommitments |-> Fact(Created, c)]
<1>1. IsFiniteSet(F)
  <2>1. f \in Surjection(AnalysedCommitments, F)
    BY DEF Surjection
  <2> QED
    BY <2>1, AnalyticsAssumption, FS_Surjection
<1>2. facts = SetToSeq(F) /\ calendar = 1
  BY DEF AnalyticsInit, Created
<1>3. /\ facts \in Seq(F)
      /\ \A x \in F : \E i \in 1 .. Len(facts) : facts[i] = x
  BY <1>1, <1>2, SequenceOfSet
<1>4. calendar \in Days
  BY <1>2, AnalyticsAssumption DEF Days
<1>5. \A x \in F : x \in FactRecords /\ FactOK(x) /\ x.type = Created
  BY <1>4 DEF Fact, FactRecords, FactOK, Created, Minted, Claimed, Verified, Rejected, Reversed
<1>6. \A i \in 1 .. Len(facts) : facts[i] \in F
  BY <1>3
<1>7. facts \in Seq(FactRecords)
  BY <1>3, <1>5
<1>8. \A c \in AnalysedCommitments : \E j \in 1 .. Len(facts) : facts[j].type = Created /\ facts[j].of = c
  <2>1. \A c \in AnalysedCommitments : Fact(Created, c) \in F /\ Fact(Created, c).type = Created /\ Fact(Created, c).of = c
    BY DEF Fact
  <2> QED
    BY <1>3, <2>1
<1>9. Created \notin {Verified, Reversed}
  BY DEF Created, Verified, Reversed
<1> QED
  BY <1>4, <1>5, <1>6, <1>7, <1>8, <1>9 DEF FactsInv

\* What can be told is about what there is.
LEMMA TellableIsOK ==
  ASSUME FactsInv, NEW fact \in Tellable
  PROVE  /\ FactOK(fact) /\ fact.type # Created
         /\ fact.type = Verified => ~Told(Verified, fact.of)
         /\ fact.type = Reversed => ~Told(Reversed, fact.of) /\ Told(Verified, fact.of)
<1>1. calendar \in Days /\ DOMAIN facts = 1 .. Len(facts) /\ \A i \in 1 .. Len(facts) : FactOK(facts[i])
  BY DEF FactsInv
<1>2. \A k \in ClaimIds : Told(Claimed, k) \/ Told(Verified, k) => ClaimOf[k].jti \in Jtis
  BY <1>1 DEF Told, FactOK
<1>3. CASE \E j \in Jtis : fact = Fact(Minted, j)
  BY <1>1, <1>3 DEF Fact, FactOK, FactRecords, Created, Minted, Claimed, Verified, Rejected, Reversed
<1>4. CASE \E k \in ClaimIds : ClaimOf[k].jti # NotThere /\ fact = Fact(Claimed, k)
  <2>1. \A k \in ClaimIds : ClaimOf[k].jti # NotThere => ClaimOf[k].jti \in Jtis
    BY AnalyticsAssumption
  <2> QED
    BY <1>1, <1>4, <2>1 DEF Fact, FactOK, FactRecords, Created, Minted, Claimed, Verified, Rejected, Reversed
<1>5. CASE \E k \in ClaimIds : Told(Claimed, k) /\ ~Told(Verified, k) /\ fact = Fact(Verified, k)
  BY <1>1, <1>2, <1>5 DEF Fact, FactOK, FactRecords, Created, Minted, Claimed, Verified, Rejected, Reversed
<1>6. CASE \E k \in ClaimIds, r \in Reasons : fact = [Fact(Rejected, k) EXCEPT !.reason = r]
  BY <1>1, <1>6 DEF Fact, FactOK, FactRecords, Created, Minted, Claimed, Verified, Rejected, Reversed
<1>7. CASE \E k \in ClaimIds : Told(Verified, k) /\ ~Told(Reversed, k) /\ fact = Fact(Reversed, k)
  BY <1>1, <1>2, <1>7 DEF Fact, FactOK, FactRecords, Created, Minted, Claimed, Verified, Rejected, Reversed
<1> QED
  BY <1>3, <1>4, <1>5, <1>6, <1>7 DEF Tellable, Undecided, Minted, Claimed, Verified, Rejected, Reversed

\* ... and stay so.
LEMMA FactsKept == FactsInv /\ [AnalyticsNext]_analyticsVars => FactsInv'
<1> SUFFICES ASSUME FactsInv, [AnalyticsNext]_analyticsVars PROVE FactsInv'
  OBVIOUS
<1>1. CASE \E fact \in Tellable : Tell(fact)
  <2>1. PICK fact \in Tellable : Tell(fact)
    BY <1>1
  <2>2. /\ FactOK(fact) /\ fact.type # Created
        /\ fact.type = Verified => ~Told(Verified, fact.of)
        /\ fact.type = Reversed => ~Told(Reversed, fact.of) /\ Told(Verified, fact.of)
    BY TellableIsOK
  <2>3. PICK n \in Nat : n = Len(facts)
    BY DEF FactsInv
  <2>4. facts' = Append(facts, fact) /\ calendar' = calendar /\ facts \in Seq(FactRecords) /\ fact \in FactRecords
    BY <2>1, <2>2 DEF Tell, FactsInv, FactOK
  <2>5. /\ facts' \in Seq(FactRecords) /\ Len(facts') = n + 1 /\ facts'[n + 1] = fact
        /\ \A i \in 1 .. n : facts'[i] = facts[i] /\ i \in 1 .. n + 1
    BY <2>3, <2>4
  <2>6. \A i \in 1 .. n + 1 : i \in 1 .. n \/ i = n + 1
    BY <2>3
  <2>7. \A type, k : Told(type, k) <=> \E i \in 1 .. n : facts[i].type = type /\ facts[i].of = k
    BY <2>3, <2>4 DEF Told
  <2>8. \A i \in 1 .. n + 1 : FactOK(facts'[i])
    BY <2>2, <2>3, <2>5, <2>6 DEF FactsInv
  <2>9. \A c \in AnalysedCommitments : \E j \in 1 .. n : facts'[j].type = Created /\ facts'[j].of = c
    BY <2>3, <2>5 DEF FactsInv
  <2>10. ASSUME NEW i \in 1 .. n + 1, facts'[i].type # Created, NEW c \in AnalysedCommitments
         PROVE  \E j \in 1 .. i - 1 : facts'[j].type = Created /\ facts'[j].of = c
    <3>1. CASE i = n + 1
      BY <2>9, <3>1
    <3>2. CASE i \in 1 .. n
      <4>1. PICK j \in 1 .. i - 1 : facts[j].type = Created /\ facts[j].of = c
        BY <2>3, <2>5, <2>10, <3>2 DEF FactsInv
      <4>2. j \in 1 .. n
        BY <3>2
      <4> QED
        BY <2>5, <4>1, <4>2
    <3> QED
      BY <2>6, <3>1, <3>2
  <2>11. ASSUME NEW i \in 1 .. n + 1, NEW j \in 1 .. n + 1, facts'[i].type = facts'[j].type,
                facts'[i].of = facts'[j].of, facts'[i].type \in {Verified, Reversed}
         PROVE  i = j
    <3>1. \A h \in 1 .. n : facts[h].type \in {Verified, Reversed} =>
            ~(facts[h].type = fact.type /\ facts[h].of = fact.of)
      BY <2>2, <2>7
    <3>2. CASE i \in 1 .. n /\ j \in 1 .. n
      BY <2>3, <2>5, <2>11, <3>2 DEF FactsInv
    <3>3. CASE i = n + 1 /\ j \in 1 .. n
      BY <2>5, <2>11, <3>1, <3>3
    <3>4. CASE i \in 1 .. n /\ j = n + 1
      BY <2>5, <2>11, <3>1, <3>4
    <3> QED
      BY <2>6, <3>2, <3>3, <3>4
  <2>12. ASSUME NEW i \in 1 .. n + 1, facts'[i].type = Reversed
         PROVE  \E j \in 1 .. i - 1 : facts'[j].type = Verified /\ facts'[j].of = facts'[i].of
    <3>1. CASE i = n + 1
      <4>1. PICK j \in 1 .. n : facts[j].type = Verified /\ facts[j].of = fact.of
        BY <2>2, <2>5, <2>7, <2>12, <3>1
      <4> QED
        BY <2>5, <3>1, <4>1
    <3>2. CASE i \in 1 .. n
      <4>1. PICK j \in 1 .. i - 1 : facts[j].type = Verified /\ facts[j].of = facts[i].of
        BY <2>3, <2>5, <2>12, <3>2 DEF FactsInv
      <4>2. j \in 1 .. n
        BY <3>2
      <4> QED
        BY <2>5, <3>2, <4>1, <4>2
    <3> QED
      BY <2>6, <3>1, <3>2
  <2>13. \A c \in AnalysedCommitments : \E j \in 1 .. n + 1 : facts'[j].type = Created /\ facts'[j].of = c
    BY <2>5, <2>9
  <2> QED
    BY <2>4, <2>5, <2>8, <2>10, <2>11, <2>12, <2>13 DEF FactsInv
<1>2. CASE NextDay
  <2>1. calendar' \in Days /\ facts' = facts
    BY <1>2, AnalyticsAssumption DEF NextDay, FactsInv, Days
  <2> QED
    BY <2>1 DEF FactsInv
<1>3. CASE UNCHANGED <<facts, calendar>>
  BY <1>3 DEF FactsInv
<1>4. MonitorStep \/ FailMonitorCycle \/ Rebuild \/ UNCHANGED analyticsVars => UNCHANGED <<facts, calendar>>
  BY DEF MonitorStep, StartMonitorCycle, ApplyNext, SelectRates, EndMonitorCycle, UpsertHealth,
     FailMonitorCycle, Rebuild, analyticsVars
<1> QED
  BY <1>1, <1>2, <1>3, <1>4 DEF AnalyticsNext

\* Empty tables agree on nothing: every sum is zero.
LEMMA EmptyAgrees == tables = EmptyTables /\ seen = 0 /\ facts \in Seq(FactRecords) => TablesInv
<1> SUFFICES ASSUME tables = EmptyTables, seen = 0, facts \in Seq(FactRecords) PROVE TablesInv
  OBVIOUS
<1>1. \A type : Counted(type) = {}
  BY DEF Counted
<1>2. EmptyTables \in TableRecords
  BY DEF EmptyTables, TableRecords
<1>3. \A S, f : IsFiniteSet(S) /\ DOMAIN f = S /\ (\A x \in S : f[x] = 0) => SumFunction(f) = 0
  BY SumOfZeros DEF SumFunction
<1>4. \A f : DOMAIN f = {} => SumFunction(f) = 0
  BY SumEmpty DEF SumFunction
<1>5. ASSUME NEW c \in AnalysedCommitments
      PROVE  SumFunction(Burned(tables, c)) = 0 /\ SumFunction(DueOn({}, {}, c)) = 0
  <2>1. DOMAIN Burned(tables, c) = Days /\ \A d \in Days : Burned(tables, c)[d] = 0
    BY DEF Burned, EmptyTables
  <2>2. DOMAIN DueOn({}, {}, c) = {}
    BY DEF DueOn, OwedOn
  <2> QED
    BY <1>3, <1>4, <2>1, <2>2, IndicesAreFinite
<1>6. SumFunction(VerifiedRows(tables)) = 0 /\ SumFunction(CountRows(tables)) = 0
  <2>1. /\ DOMAIN VerifiedRows(tables) = Shops \X Days /\ DOMAIN CountRows(tables) = AgentsSeen \X Days
        /\ \A x \in Shops \X Days : VerifiedRows(tables)[x] = 0
        /\ \A x \in AgentsSeen \X Days : CountRows(tables)[x] = 0
    BY DEF VerifiedRows, CountRows, EmptyTables, Columns
  <2> QED
    BY <1>3, <2>1, IndicesAreFinite
<1>7. SumFunction(GrossRows(tables)) = 0 /\ SumFunction(GrossOf({})) = 0
  <2>1. /\ DOMAIN GrossRows(tables) = AgentsSeen \X Days
        /\ \A x \in AgentsSeen \X Days : GrossRows(tables)[x] = 0
        /\ DOMAIN GrossOf({}) = {}
    BY DEF GrossRows, GrossOf, EmptyTables
  <2> QED
    BY <1>3, <1>4, <2>1, IndicesAreFinite
<1>8. ASSUME NEW m \in Shops
      PROVE  SumFunction(RejectedRows(tables, m)) = 0 /\ SumFunction(ReasonRows(tables, m)) = 0
  <2>1. /\ DOMAIN RejectedRows(tables, m) = Days
        /\ DOMAIN ReasonRows(tables, m) = Days \X Reasons \X {m} \X AgentsSeen
        /\ \A d \in Days : RejectedRows(tables, m)[d] = 0
    BY DEF RejectedRows, ReasonRows, EmptyTables, Columns
  <2>2. \A x \in Days \X Reasons \X {m} \X AgentsSeen : ReasonRows(tables, m)[x] = 0
    BY DEF ReasonRows, EmptyTables
  <2> QED
    BY <1>3, <2>1, <2>2, IndicesAreFinite
<1>9. TablesAgree
  BY <1>1, <1>5, <1>6, <1>7, <1>8, AgreementIs DEF BurnAgrees, CountsAgree, GrossAgrees, RejectionsAgree
<1>10. /\ seen \in 0 .. Len(facts) /\ tables.commitments = {}
       /\ \A k \in ClaimIds : tables.claims[k] = NotThere
  BY DEF EmptyTables
<1> QED
  BY <1>1, <1>2, <1>9, <1>10 DEF TablesInv

\* The agreement of the next state, likewise; nothing counted, nothing changed.
LEMMA AgreementNext ==
  TablesAgree' <=> /\ BurnAgrees(tables', Counted(Verified)', Counted(Reversed)')
                   /\ CountsAgree(tables') /\ GrossAgrees(tables', Counted(Verified)') /\ RejectionsAgree(tables')
BY DEF TablesAgree, BurnAgrees, CountsAgree, GrossAgrees, RejectionsAgree, Burned, DueOn, OwedOn,
   VerifiedRows, CountRows, GrossRows, GrossOf, RejectedRows, ReasonRows, StandingOn, Standing, Cid,
   Verified, Reversed

\* A step that leaves the tables and the facts alone leaves them agreeing.
LEMMA AgreementStays ==
  ASSUME tables' = tables, \A type : Counted(type)' = Counted(type), TablesAgree
  PROVE  TablesAgree'
BY AgreementIs, AgreementNext, Zenon

\* One more event is counted.
LEMMA AppliedKept ==
  ASSUME AnalyticsInv, ApplyNext
  PROVE  TablesInv'
<1>1. PICK n, e : n \in Nat /\ n = seen /\ e = facts[n + 1]
  BY DEF AnalyticsInv, TablesInv, FactsInv
<1>2. /\ seen' = n + 1 /\ facts' = facts /\ n + 1 \in 1 .. Len(facts) /\ Len(facts) \in Nat
      /\ FactOK(e) /\ tables' = applyFragments(tables, e) /\ tables \in TableRecords
  <2>1. facts \in Seq(FactRecords) /\ seen < Len(facts) /\ tables \in TableRecords
    BY DEF ApplyNext, AnalyticsInv, TablesInv, FactsInv
  <2>2. n + 1 \in 1 .. Len(facts) /\ Len(facts) \in Nat
    BY <1>1, <2>1
  <2>3. FactOK(e)
    BY <1>1, <2>2 DEF AnalyticsInv, FactsInv
  <2>4. seen' = n + 1 /\ facts' = facts /\ tables' = applyFragments(tables, e)
    BY <1>1 DEF ApplyNext
  <2> QED
    BY <2>1, <2>2, <2>3, <2>4
<1>3. ASSUME NEW type PROVE Counted(type)' = With(Counted(type), e, type)
  BY <1>1, <1>2 DEF Counted, With
<1>4. \A i \in 1 .. n : i \in 1 .. Len(facts) /\ i # n + 1
  BY <1>1, <1>2
<1>5. /\ Counted(Verified) \subseteq {k \in ClaimIds : ClaimOf[k].jti \in Jtis}
      /\ Counted(Reversed) \subseteq Counted(Verified)
  <2>1. Counted(Verified) \subseteq {k \in ClaimIds : ClaimOf[k].jti \in Jtis}
    BY <1>1, <1>4 DEF Counted, AnalyticsInv, FactsInv, FactOK
  <2>2. ASSUME NEW i \in 1 .. n, facts[i].type = Reversed PROVE facts[i].of \in Counted(Verified)
    <3>1. PICK j \in 1 .. i - 1 : facts[j].type = Verified /\ facts[j].of = facts[i].of
      BY <1>4, <2>2 DEF AnalyticsInv, FactsInv
    <3>2. j \in 1 .. n
      BY <1>1
    <3> QED
      BY <1>1, <3>1, <3>2 DEF Counted
  <2> QED
    BY <1>1, <2>1, <2>2 DEF Counted
<1>6. e.type # Created => \A c \in AnalysedCommitments : c \in tables.commitments
  <2> SUFFICES ASSUME e.type # Created, NEW c \in AnalysedCommitments PROVE c \in Counted(Created)
    BY DEF AnalyticsInv, TablesInv
  <2>1. PICK j \in 1 .. (n + 1) - 1 : facts[j].type = Created /\ facts[j].of = c
    BY <1>1, <1>2 DEF AnalyticsInv, FactsInv
  <2>2. j \in 1 .. n
    BY <1>1
  <2> QED
    BY <1>1, <2>1, <2>2 DEF Counted
<1>7. \A type \in {Verified, Reversed} : e.type = type => e.of \notin Counted(type)
  BY <1>1, <1>2, <1>4 DEF Counted, AnalyticsInv, FactsInv
<1>8. e.type = Reversed => e.of \in Counted(Verified)
  <2> SUFFICES ASSUME e.type = Reversed PROVE e.of \in Counted(Verified)
    OBVIOUS
  <2>1. PICK j \in 1 .. (n + 1) - 1 : facts[j].type = Verified /\ facts[j].of = e.of
    BY <1>1, <1>2 DEF AnalyticsInv, FactsInv
  <2>2. j \in 1 .. n
    BY <1>1
  <2> QED
    BY <1>1, <2>1, <2>2 DEF Counted
<1>9. e.type = Verified =>
        e.of \in ClaimIds /\ ClaimOf[e.of].jti \in Jtis /\ Cid(e.of) \in tables.commitments
  BY <1>2, <1>6, BountyIsDue DEF FactOK, Verified, Created
<1>10. \A k \in ClaimIds :
         tables.claims[k] = IF k \in Counted(Verified) THEN BountyDue(Cid(k), k) ELSE NotThere
  BY DEF AnalyticsInv, TablesInv
<1>11. /\ BurnAgrees(tables, Counted(Verified), Counted(Reversed))
       /\ CountsAgree(tables) /\ GrossAgrees(tables, Counted(Verified)) /\ RejectionsAgree(tables)
  BY AgreementIs DEF AnalyticsInv, TablesInv
<1>12. /\ BurnAgrees(tables', Counted(Verified)', Counted(Reversed)')
       /\ CountsAgree(tables') /\ GrossAgrees(tables', Counted(Verified)') /\ RejectionsAgree(tables')
  <2>1. BurnAgrees(tables', Counted(Verified)', Counted(Reversed)')
    <3>1. \A k \in Counted(Verified) : tables.claims[k] = BountyDue(Cid(k), k)
      BY <1>5, <1>10
    <3> QED
      BY <1>2, <1>3, <1>5, <1>7, <1>8, <1>9, <1>11, <3>1, BurnKept
  <2>2. CountsAgree(tables') /\ RejectionsAgree(tables')
    BY <1>2, <1>11, CountsKept, RejectionsKept
  <2>3. GrossAgrees(tables', Counted(Verified)')
    BY <1>2, <1>3, <1>5, <1>7, <1>11, GrossKept
  <2> QED
    BY <2>1, <2>2, <2>3
<1>13. TablesAgree'
  BY <1>12, AgreementNext
<1>14. tables' \in TableRecords /\ seen' \in 0 .. Len(facts')
  BY <1>1, <1>2, FragmentsAre
<1>15. tables'.commitments = Counted(Created)'
  BY <1>2, <1>3, FragmentsAre DEF With, AnalyticsInv, TablesInv
<1>16. \A k \in ClaimIds :
         tables'.claims[k] = IF k \in Counted(Verified)' THEN BountyDue(Cid(k), k) ELSE NotThere
  <2>1. tables'.claims = ClaimsAfter(tables, e)
    BY <1>2, FragmentsAre
  <2>2. CASE e.type = Verified
    <3>1. Counted(Verified)' = Counted(Verified) \cup {e.of}
      BY <1>3, <2>2 DEF With
    <3>2. tables'.claims = [tables.claims EXCEPT ![e.of] = BountyDue(Cid(e.of), e.of)]
      <4>1. tables.claims[e.of] = NotThere
        BY <1>7, <1>9, <1>10, <2>2
      <4> QED
        BY <1>9, <2>1, <2>2, <4>1, BountyIsDue DEF ClaimsAfter
    <3> QED
      BY <1>2, <1>9, <1>10, <2>2, <3>1, <3>2 DEF TableRecords
  <2>3. CASE e.type # Verified
    BY <1>3, <1>10, <2>1, <2>3 DEF ClaimsAfter, With
  <2> QED
    BY <2>2, <2>3
<1> QED
  BY <1>13, <1>14, <1>15, <1>16 DEF TablesInv

\* Up to the cursor the tables agree with the ledger and with each other, to the
\* penny, whatever is replayed or reversed (budget-burn.ts:8-13, rebuild.ts).
THEOREM TablesCorrect == AnalyticsInit /\ [][AnalyticsNext]_analyticsVars => []TablesAgree
<1>1. AnalyticsInit => AnalyticsInv
  BY FactsInitially, EmptyAgrees DEF AnalyticsInit, AnalyticsInv, FactsInv
<1>2. AnalyticsInv /\ [AnalyticsNext]_analyticsVars => AnalyticsInv'
  <2> SUFFICES ASSUME AnalyticsInv, [AnalyticsNext]_analyticsVars PROVE TablesInv'
    BY FactsKept DEF AnalyticsInv
  <2>1. FactsInv'
    BY FactsKept DEF AnalyticsInv
  <2>2. CASE ApplyNext
    BY <2>2, AppliedKept
  <2>3. CASE Rebuild
    <3>1. tables' = EmptyTables /\ seen' = 0 /\ facts' \in Seq(FactRecords)
      BY <2>1, <2>3 DEF Rebuild, FactsInv
    <3>2. EmptyTables' = EmptyTables /\ FactRecords' = FactRecords
      BY DEF EmptyTables, FactRecords
    <3>3. (tables = EmptyTables /\ seen = 0 /\ facts \in Seq(FactRecords) => TablesInv)'
      BY EmptyAgrees, PTL
    <3> QED
      BY <3>1, <3>2, <3>3
  <2>4. CASE \E fact \in Tellable : Tell(fact)
    <3>1. PICK fact \in Tellable : Tell(fact)
      BY <2>4
    <3>2. facts' = Append(facts, fact) /\ seen' = seen /\ tables' = tables /\ facts \in Seq(FactRecords)
      BY <3>1 DEF Tell, AnalyticsInv, FactsInv
    <3>3. /\ seen \in 0 .. Len(facts) /\ Len(facts) \in Nat /\ fact \in FactRecords
      BY <3>2, TellableIsOK DEF AnalyticsInv, TablesInv, FactOK
    <3>4. Len(facts') = Len(facts) + 1 /\ \A i \in 1 .. Len(facts) : facts'[i] = facts[i]
      BY <3>2, <3>3
    <3>5. ASSUME NEW type PROVE Counted(type)' = Counted(type)
      BY <3>2, <3>3, <3>4 DEF Counted
    <3>6. TablesAgree'
      BY <3>2, <3>5, AgreementStays DEF AnalyticsInv, TablesInv
    <3> QED
      BY <3>2, <3>3, <3>4, <3>5, <3>6 DEF AnalyticsInv, TablesInv
  <2>5. CASE UNCHANGED <<facts, seen, tables>>
    <3>1. ASSUME NEW type PROVE Counted(type)' = Counted(type)
      BY <2>5 DEF Counted
    <3>2. TablesAgree'
      BY <2>5, <3>1, AgreementStays DEF AnalyticsInv, TablesInv
    <3> QED
      BY <2>5, <3>1, <3>2 DEF AnalyticsInv, TablesInv
  <2>6. ASSUME \/ NextDay \/ StartMonitorCycle \/ SelectRates \/ EndMonitorCycle
               \/ (\E m \in Shops : UpsertHealth(m)) \/ FailMonitorCycle \/ UNCHANGED analyticsVars
        PROVE  UNCHANGED <<facts, seen, tables>>
    BY <2>6 DEF NextDay, StartMonitorCycle, SelectRates, EndMonitorCycle, UpsertHealth, FailMonitorCycle, analyticsVars
  <2>7. \/ ApplyNext \/ Rebuild \/ (\E fact \in Tellable : Tell(fact))
        \/ NextDay \/ StartMonitorCycle \/ SelectRates \/ EndMonitorCycle \/ (\E m \in Shops : UpsertHealth(m))
        \/ FailMonitorCycle \/ UNCHANGED analyticsVars
    BY Zenon DEF AnalyticsNext, MonitorStep
  <2> QED
    BY <2>2, <2>3, <2>4, <2>5, <2>6, <2>7
<1>3. AnalyticsInv => TablesAgree
  BY DEF AnalyticsInv, TablesInv
<1> QED
  BY <1>1, <1>2, <1>3, PTL

===============================================================================
