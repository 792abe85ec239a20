------------------------------- MODULE Netting -------------------------------
(***************************************************************************)
(* The trio's netting runs and statements (apps/trio/src/settlement/       *)
(* simulator.ts and statements.ts): entry sets are posted by transactions  *)
(* of their own, a netting run claims every set no run has claimed and     *)
(* folds it into one position per party, and a statement is recomputed     *)
(* from the rows on every read.                                            *)
(*                                                                         *)
(* A row is stamped with the month its transaction began in, and is seen   *)
(* when it commits.  Two runs that want the same set meet at the primary   *)
(* key of netted_sets: the later one waits for the earlier to end.         *)
(***************************************************************************)
EXTENDS Posting, Ordering, Functions

CONSTANTS
  Conversions,   \* verified conversions
  MerchantOf,    \* the merchant and
  AgentOf,       \* the agent of each conversion,
  BountyOf,      \* and its bounty in pence
  TakeRateBps, CommissionBps,
  PartyOrder,    \* the parties in the order of their names
  Clerks,        \* processes serving POST /trio/netting/run
  MaxMonth,      \* bound on the clock
  MaxRuns        \* bound on netting runs

Months == 1..MaxMonth
Parties == {PartyOrder[i] : i \in DOMAIN PartyOrder}
Roles == {"merchant_payable", "agent_receivable", "platform_revenue", "reserve"}

\* `set_<claim>` and `set_rev_<claim>`
EntrySetIds == [kind : {"set", "set_rev"}, conversion : Conversions]

\* Each party is named once; money and rates are whole numbers
\* (contracts: Money; the commitment's and the directory's schemas).
ASSUME NettingAssumption ==
  /\ PartyOrder \in Seq(Parties)
  /\ \A i, j \in DOMAIN PartyOrder : PartyOrder[i] = PartyOrder[j] => i = j
  /\ \A c \in Conversions : BountyOf[c] \in Int
  /\ TakeRateBps \in Int /\ CommissionBps \in Int

VARIABLES
  month,             \* the calendar month of the database clock
  posting,           \* entry sets whose transactions are open
  entry_sets,        \* [id, at]: the committed ones, with their created_at
  clerk,             \* the transaction of each netting process
  netting_runs,      \* [netting_run_id, period, at]
  netted_sets,       \* [entry_set_id, netting_run_id]
  settlement_netted, \* the SettlementNetted events, in the ledger's order
  runs               \* runs begun so far

netting == <<month, posting, entry_sets, clerk, netting_runs, netted_sets,
             settlement_netted, runs>>

-----------------------------------------------------------------------------
\* The account of a role, read as the party it belongs to: the suffix of
\* merchant_payable:<mer> and agent_receivable:<agt>, and one holding party
\* for every reserve account.
partyForAccount(role, conversion) ==
  CASE role = "merchant_payable" -> MerchantOf[conversion]
    [] role = "agent_receivable" -> AgentOf[conversion]
    [] role = "platform_revenue" -> "platform"
    [] role = "reserve"          -> "reserve"

\* The lines of an entry set: those of the conversion, or their side-flip.
LinesOf(id) ==
  LET bounty == BountyOf[id.conversion]
      lines  == ConversionLines(bounty,
                                SplitBounty(bounty, TakeRateBps, CommissionBps))
  IN  IF id.kind = "set" THEN lines ELSE ReversalLines(lines)

\* The signed lines of one set in the accounts of one party.
SignedOf ==
  [id \in EntrySetIds |-> [party \in Parties |->
     SumFunction([role \in {r \in Roles : partyForAccount(r, id.conversion) = party} |->
                    LinesOf(id)[role]])]]

\* SUM ... GROUP BY account, over the accounts of the party.
SignedFor(party, ids) == SumFunction([id \in ids |-> SignedOf[id][party]])

\* One position per party whose fold is not zero, in the order of names.
foldPositions(ids) ==
  LET folded == [i \in DOMAIN PartyOrder |->
                   [party |-> PartyOrder[i], signed |-> SignedFor(PartyOrder[i], ids)]]
  IN  Only(folded, {i \in DOMAIN PartyOrder : folded[i].signed # 0})

Posted == {row.id : row \in entry_sets}
Netted == {row.entry_set_id : row \in netted_sets}

livePosition(party) == SignedFor(party, Posted)

SetsNettedBy(run) ==
  {row.entry_set_id : row \in {r \in netted_sets : r.netting_run_id = run}}

Touches(party, ids) ==
  \E id \in ids, role \in Roles : partyForAccount(role, id.conversion) = party

\* Mutant of nettingEvents: Date.UTC takes the month as it is written, so
\* every period reads the month after it.
nettingEventsOfNextMonth(party, period) ==
  {[netting_run_id |-> row.netting_run_id,
    signed |-> SignedFor(party, SetsNettedBy(row.netting_run_id))] :
     row \in {r \in netting_runs :
                /\ r.at = period + 1
                /\ Touches(party, SetsNettedBy(r.netting_run_id))}}

\* The runs created within the calendar month `period` that folded a line
\* of the party.
nettingEvents(party, period) ==
  {[netting_run_id |-> row.netting_run_id,
    signed |-> SignedFor(party, SetsNettedBy(row.netting_run_id))] :
     row \in {r \in netting_runs :
                /\ r.at = period
                /\ Touches(party, SetsNettedBy(r.netting_run_id))}}

buildStatement(party, period) ==
  LET before == {row.id : row \in {r \in entry_sets : r.at < period}}
      within == {row.id : row \in {r \in entry_sets : r.at = period}}
  IN  [opening        |-> SignedFor(party, before),
       netting_events |-> nettingEvents(party, period),
       closing        |-> SignedFor(party, before) + SignedFor(party, within)]

-----------------------------------------------------------------------------
\* Verification and reversal post in transactions of their own; a reversal
\* needs the set it flips, and the primary key admits each id once.
BeginPosting(id) ==
  /\ id \notin Posted
  /\ \A row \in posting : row.id # id
  /\ id.kind = "set_rev" => [id EXCEPT !.kind = "set"] \in Posted
  /\ posting' = posting \cup {[id |-> id, at |-> month]}
  /\ UNCHANGED <<month, entry_sets, clerk, netting_runs, netted_sets,
                 settlement_netted, runs>>

CommitPosting(row) ==
  /\ row \in posting
  /\ posting' = posting \ {row}
  /\ entry_sets' = entry_sets \cup {row}
  /\ UNCHANGED <<month, clerk, netting_runs, netted_sets, settlement_netted,
                 runs>>

NextMonth ==
  /\ month < MaxMonth
  /\ month' = month + 1
  /\ UNCHANGED <<posting, entry_sets, clerk, netting_runs, netted_sets,
                 settlement_netted, runs>>

Resting == [stage |-> "idle"]

\* runNetting inserts its own row, for whatever period it was asked, and
\* selects the sets that no committed run holds.
BeginNetting(n, period) ==
  /\ clerk[n] = Resting
  /\ runs < MaxRuns
  /\ runs' = runs + 1
  /\ clerk' = [clerk EXCEPT ![n] =
       [stage |-> "wait", period |-> period, at |-> month,
        netting_run_id |-> runs + 1, sets |-> Posted \ Netted]]
  /\ UNCHANGED <<month, posting, entry_sets, netting_runs, netted_sets,
                 settlement_netted>>

HeldBy(n) == IF clerk[n].stage = "fold" THEN clerk[n].sets ELSE {}

\* Mutant of ClaimSets: what was selected is claimed.
ClaimSetsAsSelected(n) ==
  /\ clerk[n].stage = "wait"
  /\ clerk' = [clerk EXCEPT ![n].stage = "fold"]
  /\ UNCHANGED <<month, posting, entry_sets, netting_runs, netted_sets,
                 settlement_netted, runs>>

\* ON CONFLICT DO NOTHING waits for a run that holds one of the sets to
\* end, and leaves alone those it then finds claimed.
ClaimSets(n) ==
  /\ clerk[n].stage = "wait"
  /\ \A other \in Clerks \ {n} : HeldBy(other) \cap clerk[n].sets = {}
  /\ clerk' = [clerk EXCEPT ![n].stage = "fold", ![n].sets = @ \ Netted]
  /\ UNCHANGED <<month, posting, entry_sets, netting_runs, netted_sets,
                 settlement_netted, runs>>

\* The fold, the event and the COMMIT.
CommitNetting(n) ==
  /\ clerk[n].stage = "fold"
  /\ LET run == clerk[n].netting_run_id
     IN  /\ netting_runs' = netting_runs \cup
              {[netting_run_id |-> run, period |-> clerk[n].period,
                at |-> clerk[n].at]}
         /\ netted_sets' = netted_sets \cup
              {[entry_set_id |-> id, netting_run_id |-> run] :
                 id \in clerk[n].sets}
         /\ settlement_netted' = Append(settlement_netted,
              [netting_run_id |-> run, period |-> clerk[n].period,
               positions |-> foldPositions(clerk[n].sets)])
  /\ clerk' = [clerk EXCEPT ![n] = Resting]
  /\ UNCHANGED <<month, posting, entry_sets, runs>>

\* The transaction is rolled back: nothing it inserted remains.
AbortNetting(n) ==
  /\ clerk[n] # Resting
  /\ clerk' = [clerk EXCEPT ![n] = Resting]
  /\ UNCHANGED <<month, posting, entry_sets, netting_runs, netted_sets,
                 settlement_netted, runs>>

NettingInit ==
  /\ month = 1
  /\ posting = {}
  /\ entry_sets = {}
  /\ clerk = [n \in Clerks |-> Resting]
  /\ netting_runs = {}
  /\ netted_sets = {}
  /\ settlement_netted = <<>>
  /\ runs = 0

NettingStep ==
  \/ \E id \in EntrySetIds : BeginPosting(id)
  \/ \E row \in posting : CommitPosting(row)
  \/ NextMonth
  \/ \E n \in Clerks :
       \/ \E period \in Months : BeginNetting(n, period)
       \/ ClaimSets(n) \/ CommitNetting(n) \/ AbortNetting(n)

-----------------------------------------------------------------------------
\* What the netting events told a party so far.
ToldBy(event, party) ==
  SumFunction([i \in {j \in DOMAIN event.positions : event.positions[j].party = party} |->
                 event.positions[i].signed])
ToldTo(party) ==
  SumFunction([i \in DOMAIN settlement_netted |-> ToldBy(settlement_netted[i], party)])

\* Whatever runs overlap or roll back, for every party the positions of the
\* netting events and the sets still un-netted make up its live position:
\* a set "folds into exactly one run ever" (simulator.ts:123), and none is
\* lost.
NettingLosesNothing ==
  \A party \in Parties :
    ToldTo(party) + SignedFor(party, Posted \ Netted) = livePosition(party)

=============================================================================
