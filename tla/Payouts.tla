------------------------------- MODULE Payouts -------------------------------
(***************************************************************************)
(* The payout worker of Core (apps/core/src/modules/adapters/payouts): the *)
(* projection that turns each SettlementNetted event into one transfer and *)
(* one payout statement per position, on either rail.  The events and the  *)
(* statements are those of Netting; events of other types only move the    *)
(* cursor and are left out.                                                *)
(*                                                                         *)
(* The projection writes outside the transaction that moves its cursor     *)
(* (apply ignores the client it is given), so every statement of it is a   *)
(* step of its own, and all of them are done again after a failure.        *)
(***************************************************************************)
EXTENDS Netting

CONSTANTS
  PayoutWorkers,   \* processes tailing the ledger with the projection
  MaxFailures,     \* bound on failures that no check of the code raises
  MaxWipes         \* bound on rebuilds

VARIABLES
  rail,              \* which PayoutRail the environment selects
  last_seq,          \* the cursor of simulated_payouts
  worker,            \* where each worker stands
  payout_accounts,   \* parties with an account
  payout_statements, \* [key, amount, enriched]
  stripe_accounts,   \* the accounts Stripe opened: [key, amount], the amount none
  transfers,         \* the transfers Stripe made: [key, amount]
  lapses, wipes     \* failures and rebuilds so far

stripe == <<stripe_accounts, transfers>>
payouts == <<rail, last_seq, worker, payout_accounts, payout_statements,
             stripe, lapses, wipes>>

Waiting == [stage |-> "idle"]

Size(signed) == IF signed < 0 THEN -signed ELSE signed

EventOf(w) == settlement_netted[worker[w].seq]
PositionOf(w) == EventOf(w).positions[worker[w].index]

\* `<netting_run_id>/<party>`
IdempotencyKey(w) ==
  [netting_run_id |-> EventOf(w).netting_run_id, party |-> PositionOf(w).party]

Advance(w, stage) == worker' = [worker EXCEPT ![w].stage = stage]

\* The next event after the persisted cursor.
TakeEvent(w) ==
  /\ worker[w] = Waiting
  /\ last_seq < Len(settlement_netted)
  /\ worker' = [worker EXCEPT ![w] =
       [stage |-> "next", seq |-> last_seq + 1, index |-> 1]]
  /\ UNCHANGED <<rail, last_seq, payout_accounts, payout_statements,
                 stripe, lapses, wipes>>

HasFold(w) ==
  \E event \in buildStatement(PositionOf(w).party, EventOf(w).period).netting_events :
    /\ event.netting_run_id = EventOf(w).netting_run_id
    /\ event.signed = PositionOf(w).signed

\* The statement of the party for the event's period must carry this fold.
Resolve(w) ==
  /\ worker[w].stage = "next"
  /\ worker[w].index \in DOMAIN EventOf(w).positions
  /\ IF HasFold(w)
     THEN Advance(w, "account")
     ELSE worker' = [worker EXCEPT ![w] = Waiting]  \* throws: ROLLBACK
  /\ UNCHANGED <<rail, last_seq, payout_accounts, payout_statements,
                 stripe, lapses, wipes>>

\* Both rails pin one account per party; the simulated one is named after it.
CreateAccount(w) ==
  /\ worker[w].stage = "account" /\ rail = "simulated"
  /\ payout_accounts' = payout_accounts \cup {PositionOf(w).party}
  /\ Advance(w, "transfer")
  /\ UNCHANGED <<rail, last_seq, payout_statements, stripe, lapses, wipes>>

\* Stripe makes an object once for an idempotency key, and returns the one it
\* made when it is asked again.
Post(objects, key, amount) ==
  IF \E made \in objects : made.key = key
  THEN objects
  ELSE objects \cup {[key |-> key, amount |-> amount]}

\* An account that is not pinned is asked for under the key of its party.
CreateStripeAccount(w) ==
  /\ worker[w].stage = "account" /\ rail = "stripe"
  /\ IF PositionOf(w).party \in payout_accounts
     THEN Advance(w, "transfer") /\ UNCHANGED stripe_accounts
     ELSE /\ stripe_accounts' = Post(stripe_accounts, PositionOf(w).party, 0)
          /\ Advance(w, "pin")
  /\ UNCHANGED <<rail, last_seq, payout_accounts, payout_statements,
                 transfers, lapses, wipes>>

PinStripeAccount(w) ==
  /\ worker[w].stage = "pin"
  /\ payout_accounts' = payout_accounts \cup {PositionOf(w).party}
  /\ Advance(w, "transfer")
  /\ UNCHANGED <<rail, last_seq, payout_statements, stripe, lapses, wipes>>

HasStatement(key) == \E row \in payout_statements : row.key = key

\* INSERT ... ON CONFLICT (idempotency_key) DO NOTHING
Inserted(key, amount) ==
  IF HasStatement(key)
  THEN payout_statements
  ELSE payout_statements \cup
         {[key |-> key, amount |-> amount, enriched |-> FALSE]}

\* The row is the payout; the position's amount is not negative.
Transfer(w) ==
  /\ worker[w].stage = "transfer" /\ rail = "simulated"
  /\ payout_statements' = Inserted(IdempotencyKey(w), Size(PositionOf(w).signed))
  /\ Advance(w, "record")
  /\ UNCHANGED <<rail, last_seq, payout_accounts, stripe, lapses, wipes>>

StripeTransfer(w) ==
  /\ worker[w].stage = "transfer" /\ rail = "stripe"
  /\ transfers' = Post(transfers, IdempotencyKey(w), Size(PositionOf(w).signed))
  /\ Advance(w, "record")
  /\ UNCHANGED <<rail, last_seq, payout_accounts, payout_statements,
                 stripe_accounts, lapses, wipes>>

\* The platform's own execution record.
RecordTransfer(w) ==
  /\ worker[w].stage = "record"
  /\ payout_statements' =
       Inserted(IdempotencyKey(w), Size(PositionOf(w).signed))
  /\ Advance(w, "enrich")
  /\ UNCHANGED <<rail, last_seq, payout_accounts, stripe, lapses, wipes>>

\* UPDATE direction, run and period; then the next position.
Enrich(w) ==
  /\ worker[w].stage = "enrich"
  /\ payout_statements' =
       {IF row.key = IdempotencyKey(w) THEN [row EXCEPT !.enriched = TRUE]
        ELSE row : row \in payout_statements}
  /\ worker' = [worker EXCEPT ![w].stage = "next", ![w].index = @ + 1]
  /\ UNCHANGED <<rail, last_seq, payout_accounts, stripe, lapses, wipes>>

\* Mutant of MoveCursor: a failed event is passed over.
MoveCursorAnyway(w) ==
  /\ worker[w].stage = "next"
  /\ last_seq' = worker[w].seq
  /\ worker' = [worker EXCEPT ![w] = Waiting]
  /\ UNCHANGED <<rail, payout_accounts, payout_statements, stripe,
                 lapses, wipes>>

\* setCursor and COMMIT, when every position is done.
MoveCursor(w) ==
  /\ worker[w].stage = "next"
  /\ worker[w].index \notin DOMAIN EventOf(w).positions
  /\ last_seq' = worker[w].seq
  /\ worker' = [worker EXCEPT ![w] = Waiting]
  /\ UNCHANGED <<rail, payout_accounts, payout_statements, stripe,
                 lapses, wipes>>

\* A request fails or the process dies: the cursor stays where it was.
FailPayout(w) ==
  /\ worker[w] # Waiting
  /\ lapses < MaxFailures
  /\ lapses' = lapses + 1
  /\ worker' = [worker EXCEPT ![w] = Waiting]
  /\ UNCHANGED <<rail, last_seq, payout_accounts, payout_statements,
                 stripe, wipes>>

\* rebuildProjection, with the workers stopped: reset and cursor are one
\* transaction; the vendor's transfers stay.
Wipe ==
  /\ \A w \in PayoutWorkers : worker[w] = Waiting
  /\ wipes < MaxWipes
  /\ wipes' = wipes + 1
  /\ payout_statements' = {}
  /\ payout_accounts' = {}
  /\ last_seq' = 0
  /\ UNCHANGED <<rail, worker, stripe, lapses>>

\* With a Stripe key in the environment, Stripe's.
payoutRailFromEnv == {"simulated", "stripe"}

PayoutsInit ==
  /\ rail \in payoutRailFromEnv
  /\ last_seq = 0
  /\ worker = [w \in PayoutWorkers |-> Waiting]
  /\ payout_accounts = {}
  /\ payout_statements = {}
  /\ stripe_accounts = {} /\ transfers = {}
  /\ lapses = 0
  /\ wipes = 0

Pay(w) ==
  \/ TakeEvent(w) \/ Resolve(w)
  \/ CreateAccount(w) \/ CreateStripeAccount(w) \/ PinStripeAccount(w)
  \/ Transfer(w) \/ StripeTransfer(w) \/ RecordTransfer(w) \/ Enrich(w) \/ MoveCursor(w)

PayoutsStep == Wipe \/ \E w \in PayoutWorkers : Pay(w) \/ FailPayout(w)

Init == NettingInit /\ PayoutsInit

Next ==
  \/ NettingStep /\ UNCHANGED payouts
  \/ PayoutsStep /\ UNCHANGED netting

\* A worker polls the ledger for as long as it runs.
Spec ==
  /\ Init
  /\ [][Next]_<<netting, payouts>>
  /\ \A w \in PayoutWorkers : WF_<<netting, payouts>>(Pay(w) /\ UNCHANGED netting)

-----------------------------------------------------------------------------
\* The payouts of one position: what Stripe transferred and what the table
\* of the platform records.
PaidFor(run, party, rows) ==
  {row \in rows : row.key.netting_run_id = run /\ row.key.party = party}

\* However often an event is redone, by whichever worker, and however often
\* the projection is rebuilt, no position is transferred twice or with an
\* amount its netting event does not name; and behind the cursor every
\* position has its account and its one record, of its amount, enriched, and
\* on Stripe the account and the transfer that the record speaks of (simulated.ts:102 "a replayed event or projection rebuild
\* converges on the same artefacts").  The folds themselves lose nothing.
EachFoldIsPaidOnce ==
  /\ NettingLosesNothing
  /\ \A i \in DOMAIN settlement_netted :
       \A j \in DOMAIN settlement_netted[i].positions :
         LET position == settlement_netted[i].positions[j]
             paid(rows) == PaidFor(settlement_netted[i].netting_run_id,
                                   position.party, rows)
         IN  /\ \A rows \in {transfers, payout_statements} :
                  /\ Cardinality(paid(rows)) <= 1
                  /\ \A row \in paid(rows) : row.amount = Size(position.signed)
             /\ i <= last_seq =>
                  /\ paid(payout_statements) # {}
                  /\ \A row \in paid(payout_statements) : row.enriched
                  /\ position.party \in payout_accounts
                  /\ rail = "stripe" =>
                       /\ paid(transfers) # {}
                       /\ \E account \in stripe_accounts : account.key = position.party
  /\ \A row \in transfers \cup payout_statements :
       \E i \in DOMAIN settlement_netted :
         settlement_netted[i].netting_run_id = row.key.netting_run_id

RunOf(i) ==
  CHOOSE row \in netting_runs :
    row.netting_run_id = settlement_netted[i].netting_run_id

\* Every run netted under the month it is made in is paid out, whatever
\* fails on the way, once the runs before it are.
RunsOfTheMonthArePaidOut ==
  \A i \in 1..MaxRuns :
    (/\ i <= Len(settlement_netted)
     /\ \A j \in 1..i : RunOf(j).period = RunOf(j).at)
    ~> (last_seq >= i)

=============================================================================
