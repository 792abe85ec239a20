# A TLA+ verification of Merited

Merited is a platform for agent-attributed commerce: merchants sign commitments,
agents receive quotes with single-use attribution tokens, and a merchant's claim
that an order came from a token is verified, posted in a double-entry ledger,
netted and paid out. This directory models the parts of it where concurrency,
failure and money meet, model-checks them with TLC and proves their invariants
with TLAPS.

    tlc -workers 2 -config VerifyCap.cfg MCVerification      # any run of PROJECT.json
    tlapm Wallet_proofs.tla                                  # any *_proofs module

`PROJECT.json` maps every definition to the lines it models, and lists the runs,
the mutants, the findings, the hazards (each at its line) and the theorems.

## 1. The system

| Component | State it keeps | Operations | What is hard |
|---|---|---|---|
| **Trio: verification** (`apps/trio/src/verification`) | `minted_tokens`, `consumed_jtis`, `idempotency_keys`, Redis replay cache | mint, verify (six stages and a verdict transaction) | unlocked reads before the transaction, retries, crashes, replayed and re-minted tokens |
| **Trio: settlement** (`settlement`) | `entry_sets`, `entry_lines`, `counters`, `netted_sets` | post, reverse, net, statements | caps and budgets under concurrency, exact reversal, a set netted once |
| **Trio: commitments** (`commitment`) | `commitments`, `commitment_terminations` | create, end, status | a mint racing an end |
| **Signing keys** (`packages/signing`, `pg-key-store.ts`) | key versions, a cache per process | create, sign, verify, rotate, revoke | caches that outlive a rotation or a revocation |
| **Event ledger** (`packages/events`) | `events.events`, its sequence | appendEvent, verifyChain | a linear chain under concurrent transactions and rollbacks |
| **Projections, subscriber, analytics** | cursors, read models, health badges | catchUp, subscribe, rebuild; monitor cycle | a crash between count and cursor, badges written from old rates |
| **Head publication, proof packs** (`head-publisher.ts`, `packages/verifier`) | objects `heads/<date>.json`, `latest.json` | publish, verifyAgainstHeads, verifyProofPack | a head is never rewritten; a pack cut by its holder |
| **Core: claim intake** (`adapters/idempotency.ts`, `grade-b`) | `core.idempotency_keys`, `claims_intake` | reserve, claim, call the trio, record, answer | crash of a reservation, timeout against a late verdict |
| **Core: doors and merchants** (`merchants`, `adapters`) | merchants, secrets, API keys, limiter windows | sign-up, rotate, suspend, webhooks of five protocols | an operator's change between two checks of a delivery |
| **Core: agents** (`agents`) | agents, keys, nonces | register, revoke, authenticate, signed requests | replays while the nonce cache fails or forgets |
| **Core: offers and reads** (`offers`, `eligibility`, `decisioning`, `guardrails`, `quotes`) | offers, history of commitments, quotes | publish, reprice, edit; read, quote | lost answers of the trio, a read over moving rows |
| **Core: identity, payouts** | seeded members, transfers, statements | resolve a shopper; pay a fold | look-ups one after the other, a projection that writes outside its transaction |
| **Wallet** (`apps/wallet`) | mandates, approvals, requests, links, sessions, points | grant, attenuate, revoke, approve, decline; sign in; link, unlink, credit | row and event in two transactions, races on a key, failures of the brand |
| **Valet** (`apps/valet`) | errands and their log, its identity | brief, search, drive, check out on four rails, retry, resume | restart in any state, a rail that gives up on a shop that goes on |
| **Front ends, Shopify app, demo shop, decision model, tools** | none that others rely on | | not modelled |

How they interact. The core mints through the trio while it serves offers, and
submits claims to it with a five-second timeout. The trio asks the wallet's
directory for approvals and mandates at claim time. Every service appends to the
one event ledger inside its own transactions; projections, the payout worker, the
points projection, the head job and the auditors read it by sequence number. The
valet polls quotes and the wallet's approval requests, buys at a shop, and the
shop's webhook becomes a delivery at a door of the core.

What makes each one correct: a token, a quote and a claim convert once; caps and
budgets are never overspent; verdict, money and event are one; a retry gets the
first answer; a revocation takes effect; the chain never forks and is read in
order; a projection and a badge say what the ledger says; a published head stays;
an approval lies within every grant above it; a link says what was consented to;
a delivery is admitted on a live secret only; a fold is paid once; an errand buys
what was quoted and approved.

## 2. Modules

| Module | Models | Builds on |
|---|---|---|
| `Posting` | bounty, split, entry lines, reversal (posting.ts) | |
| `ConversionVerification` | mint, verify, reverse, commitments, directory | extends `Posting` |
| `Netting`, `Payouts` | netting runs and statements; the payout worker over their events | extend `Posting`; `Netting` |
| `SigningKeys` | key versions, signers and verifiers with caches | |
| `AppendOnlyLog` | what the ledger promises: one sequence that only grows at its end | |
| `EventLedger` | appendEvent, commit, rollback, verifyChain | refines `AppendOnlyLog` |
| `Projections` | catchUp, applyWithCursor, subscribe, runProjection, rebuild | extends `EventLedger` |
| `Analytics` | five fragments behind one cursor, the monitor, its badges | |
| `HeadPublication` | publishHead, its job, the check against the heads | extends `EventLedger` |
| `ProofPacks` | verifyProofPack over packs cut from a ledger | |
| `OneAnswer` | what an idempotency key promises to those who deliver under it | |
| `ClaimIntake` | reservation of a key, the claim funnel, the call to the trio | refines `OneAnswer` |
| `MerchantDoors` | sign-up, secrets, suspension, the doors, the Redis limiter | |
| `AgentRequests` | registration, three ways to authenticate, the signed client, nonces | |
| `Ordering` | ORDER BY and WHERE: the elements of a set in an order, those of a sequence at chosen places | |
| `Pricing`, `Eligibility` | mechanics; filter chain, stacking, ranking, guardrails, as functions | `Eligibility` extends `Pricing`, `Ordering` |
| `Offers`, `OfferReading` | operators and commitments; reads, checks, quotes, consent | extend `Eligibility`; `Offers` |
| `Identity` | tier and segment of a shopper from three signals | |
| `Mandates`, `Wallet` | one grant within another; consent, approvals, keys, pushes | `Wallet` extends `Mandates` |
| `RateLimiter`, `SignIn` | the bounded window map; magic links and sessions behind it | `SignIn` extends `RateLimiter` |
| `Linking` | OAuth and hosted linking, unlinking, points, the brand | |
| `ErrandReducer`, `ErrandRecord` | the errand's diagram; what row and log promise | `ErrandRecord` extends the reducer |
| `Errand` | drivers, store, mirror, gate, poller, rail and shop of one errand | refines `ErrandRecord` |
| `Shopping` | the valet around its errands: brief, identity, four rails and their shops | |
| `MC...` | instances for TLC; `MCCore`, `MCWallet`, `MCLedger` hold several parts | |
| `DataTheorems` | lemmas about data: least numbers, smallest subsets, sums, sorted sequences | extends `Ordering` |
| `..._proofs` | theorems: `ConversionVerification`, `Ledger` (EventLedger, HeadPublication, ProofPacks, Projections, Analytics), `ClaimIntake`, `Errand`, `Wallet`, `ControlPlane` (Offers, OfferReading, AgentRequests, MerchantDoors, Netting, Payouts), `Accounts` (SigningKeys, Shopping, Linking, Identity, SignIn) | extend their modules and TLAPS |

In every module a step ends where the code awaits something another process can
change; what a handler does between two awaits is one action. Ids, secrets,
tokens and signatures stand for themselves: a signature is who signed what, a
hash is what was hashed.

### ConversionVerification

| Action | Code |
|---|---|
| `Arrive` | idempotency lookup of verify() |
| `CheckReplay` | stages 1 and 2: signatures, mint row, cache, `consumed_jtis` |
| `CheckTerms` | stages 3 to 5 and the guard of stage 6 |
| `CheckApproval`, `CheckMonth` | the directory lookups of stage 6, the transaction limit; the month's spend |
| `LockCounters` | `SELECT ... FOR UPDATE`, cap and budget again |
| `CommitVerified`, `CommitRejected` | the rest of the verdict transaction |
| `ClashOnClaimId` | the primary key of entry_sets refuses: rollback, 500 |
| `LoseRace`, `Converge` | `IdempotencyRaceLost`, then the winner's verdict |
| `MarkCache`, `Deliver`, `Crash` | after the commit: cache, answer, or the process dies and PostgreSQL rolls back |
| `CheckMint`, `InsertToken`, `AbandonMint` | mint(): status check, then transaction |
| `CheckReverse`, `CommitReverse`, `AbandonReverse` | reverse(): checks, then transaction |
| `CreateCommitment`, `EndCommitment`, `RevokeMandate`, `Tick` | environment of the above |

- The rest of the verdict transaction is one step: everything it writes is guarded
  by unique indexes or by the row lock and is invisible until COMMIT; conflicts on
  an index make the second transaction wait for the first and then see it.
- A cache miss and a cache that cannot be reached are the same step. A crash
  includes every abort that is not an answer (deadlock victim, lost connection).
- `revoked` stands for any status that is not `active`; a directory lookup may
  fail at any time.
- The month's spend is read outside the transaction and never re-checked: two
  approved claims in flight together exceed the mandate's monthly limit. No
  property claims otherwise.

### EventLedger and its readers

`this_hash` is the sequence of the bodies hashed so far. `AppendEvent` waits for
the advisory lock, reads the head and inserts under it; a row becomes visible at
`Commit`. In `Projections` the batch of fetched rows and the cursor are apart, as
in the code; one process catches up, tails or rebuilds. (A rebuild by a *second*
process moves the fresh cursor over wiped events, and a COMMIT whose answer is
lost makes subscribe() deliver an event twice. The repository runs one at a time;
neither is a step.) runProjection and subscribe() are used by tests only; stopping
one while its handler runs and subscribing again is not modelled.

`Analytics` has typed events on a committed ledger, five fragments behind one
cursor and the monitor's cycle: refresh, rates, one upsert per merchant. The
rebuild command runs between two cycles. A merchant whose rows left the window
keeps its last badge, which the property excludes. `OfferSuppressed` and events of
other services only move the cursor and are left out.

`HeadPublication` has any number of publishers and a store in which put replaces.
The check-then-put of a day's head is not atomic: two publishers *can* rewrite a
head, and the repository schedules one. A tick whose put of `latest.json` failed
finds the day published and leaves pointer and webhooks behind until the next day.

`ProofPacks` lets a holder of the events cut any pack: rows left out, rows of other
conversions, altered documents with their old signatures. A number lost to a
rollback makes an honest pack non-contiguous, and it is refused.

### ClaimIntake

| Action | Code |
|---|---|
| `Receive`, `Reserve`, `LoseReservation` | the route; `INSERT ... ON CONFLICT DO NOTHING RETURNING` |
| `FindReleased`, `RefuseConflict`, `Replay`, `WaitForWinner`, `GiveUp` | the read of the holder's row and what follows from it |
| `DropTokenless`, `RefuseUnsigned` | the two early returns of `processConfirmedOrder` |
| `RecordClaim` | ConversionClaimed and the intake row, one transaction |
| `Submit`, `ReceiveVerdict`, `RecordVerdict` | the two ends of the HTTP call; the intake row |
| `FailWork`, `Release` | `work()` throws, the pending row is deleted |
| `StoreResponse`, `SendReply`, `FailQuery`, `Crash` | the answer is stored, then sent; or a query fails, or the process dies |
| `TrioVerifies` | the trio handles a claim, in time or not |

An order gets a fresh claim id per attempt, named after its delivery. The trio is
a service that gives a claim one verdict and verifies a token once, which is what
`ConversionVerification` shows of it; it may handle a claim whose caller has given
up. After such a timeout a retry makes a second claim, whose rejection is final
for the merchant although the conversion stands under the first. The delete and
the update of a key's row do not ask who reserved it, in the code and here: that
they meet only their own row is proved. A second consumer of a key gets
no replay of his own.

### MerchantDoors and AgentRequests

`MerchantDoors` follows a delivery through its door: slug, pre-check, signature
under the merchant's live secrets (or an API key), limiter, admission; and the
sign-up of a merchant through two systems, statement by statement, with failures
and key requests that time out. Operators rotate and revoke secrets, suspend and
edit. `update()` writes back the status it read, so an edit that overlaps a
suspension undoes it; an `INCR` whose `EXPIRE` fails leaves a counter that refuses
for ever. Both are in the model. `RedisRateLimiter` and `AgentRequestVerifier` are
wired by no program outside the tests.

`AgentRequests` has the three tiers, the SDK's signer with clocks that are off, and
requests sent once, twice, late, early or altered. `registeredPublicKey` ignores
revocation, so the property asks it of API keys only; a nonce first seen a full
skew early is forgotten in the last second in which it is still in time, so the
property is about remembered nonces. Nothing in the repository sets
`agents.status`.

### Offers, OfferReading, Identity

An operator's request is a sequence of statements and calls to the trio, any of
which may be answered, fail, or take effect with its answer lost; two reprices
interleave. `createDraft` and the feed are not actions. A read is the sequence
candidates, statuses, filter, mandate, items, ranking, mints, quotes; the decision
model answers with any order, an order with a duplicate, or not at all. A
check_eligibility keeps the offers it asks about *before* stacking, so an offer
that a read would dedupe may be eligible in a check.

`Identity` answers three look-ups one by one, each after a probe of its own unless one
is remembered, while links are made and revoked. A
seeded row's `sub_hash` is derived otherwise than a link's, so an agent presenting
the seeded one is not downgraded by a revoked link; a probe that found no table
before the wallet's migration is remembered until the restart. `touchSoftIdentity`
is called by tests only.

### Wallet, SignIn, Linking, SigningKeys

`Wallet` has one caller per request in flight; rows and events are two
transactions, so an event may be missing after a crash. A key is looked up without
its consumer; the property is about the consumer who owns it. A re-minted token
carries the requested mandate. Calls and crashes are bounded by `MaxCalls` and
`MaxCrashes`.

`SignIn` has links, sessions and the two limiters with eviction; the operators'
password login is not modelled. `Linking` has attempts (OAuth with state and
PKCE, hosted with a mailed token), codes at the brand, sealed tokens, unlinking in
three steps, and points credited under the brand's idempotency. Claims below a
pound, `StaticTableLoyalty`, token refresh and the polling of revocations, none of
them wired, are left out; a member whom the brand has revoked can still link by
the hosted flow. `SigningKeys` has processes that share a store, each with its
caches; an opened key stands for its version.

### Errand and Shopping

| Action of `Errand` | Code |
|---|---|
| `Start`, `Get` (`Read`) | `step()` reads the row, from `resumeAll()` or from the loop of `drive()` |
| `Search`, `CheckExpiry` | a read of the offers; the watchdog |
| `Consult`, `CheckApproval` | the wallet's gate, with the request row the wallet keeps per quote |
| `Checkout`, `Confirm`, `AbortCheckout`, `FailCheckout` | the shop's handler before and after the webhook, the rail's ten seconds, a refused order |
| `FileClaim`, `JudgeClaim`, `Poll` | the webhook reaches the core, the trio decides, the poller looks |
| `RefuseDispatch` | `InvalidDispatchError` |
| `RecordTransition`, `LoseTransition` | the guarded UPDATE with the log entry, or `StaleTransitionError` |
| `Mirror` | `ErrandStateChanged` for the states from QUOTED on |
| `Retry`, `Die`, `ExpireQuote`, `RecordDecision` | `retry()`; a death or an uncaught throw; the clock; the consumer |

`Shopping` is what surrounds it: the interpreter's brief (a model that answers
with a null ceiling drops one named in the text), the identity registered on first
use, the choice of a quote, the four rails (UCP, ACP, fake shop, Shopify), and
shops that keep orders in memory and lose them in a restart. The product that a
shop sells is resolved by text, not by the quoted offer. First use is by one
process at a time: two racing both register. A resumed UCP or ACP checkout carries
a new time, so the core refuses it under the same key, though `ucp-rail.ts:31-33`
says that it replays.

### Netting and Payouts

Rows are stamped with the month their transaction began in. Two runs that want the
same set meet at the primary key of `netted_sets`. The payout projection writes
outside the transaction that moves its cursor, so each of its statements is a step
and all are done again after a failure; Stripe's idempotency is external. The
projection is wired by tests only, and nothing calls `rail.reverse`.

## 3. Runs

| Run | Shows | Instance |
|---|---|---|
| `verify_cap` | cap, budget and exact books, with reversals and an ended commitment | 2 handlers, 2 tokens, 1 slot, a budget that covers fewer bounties than there are claims |
| `verify_remint` | single use, atomic verdicts, one answer per key, revocation | 2 handlers, a quote with its original and its re-minted token, 4 claim bodies over 2 claim ids, 2 keys, one approval and mandate |
| `verify_answers` | every request is answered | 2 handlers, one claim id with two tokens, 2 keys, `FairSpec`, no symmetry |
| `ledger_readers` | refinement of the log, a projection and the analytics tables that agree with it, progress | part `projections`: 2 transactions, 3 numbers, batch of 2, one process that tails, catches up and rebuilds once; part `analytics`: 2 merchants, 6 events, 2 days, 1 replay, 1 failed cycle |
| `intake_deliveries` | one answer per key, a record that follows the trio, everyone answered | 3 deliveries, 1 key, an order with a token, one without, a formed claim whose token is garbage |
| `errand_drivers` | the record, the mirror, approval before purchase, confirmation after conversion | 2 drivers, 1 quote, with and without a mandate, 2 orders, 2 claims, 1 death or retry |
| `wallet` | six parts, a behaviour runs one: consent, sign-in, linking, keys, identity, shopping | 2 callers, 2 quotes, 2 mandates, 4 calls, 1 crash; 3 links mailed, maps of one window; 2 attempts, 2 brands, 2 workers, 1 failure; 2 processes, 2 key calls, 2 versions; 1 person, 2 seeded rows, 3 links, 3 requests one at a time; 2 errands, 4 rails, 2 orders, 1 mishap |
| `core` | seven parts: editing, browsing, heads, packs, onboarding, doors, requests | 3 offers, 2 operators, 3 commitments, 1 reader; 2 transactions, 2 days, 1 publisher; 7 numbers; 2 sign-ups, 2 edits; 2 deliveries of 10 kinds; 2 agents, 2 requests, 1 signature |
| `backoffice` | each fold is paid once, the runs of the month are paid out | 1 conversion that may be reversed, 2 runs by 2 clerks, 2 months, 1 worker, 1 failure, 1 wipe; rates that leave whole pence |
| `errand_resume` | **violated**: "never a second order" | 1 driver, 2 orders, no death and no retry |
| `ledger_gap` | **violated**: "gapless" | 2 transactions, 3 numbers |
| `signing_rotation` | **violated**: "it never signs again" | 2 calls in one process, 2 versions |

A run with parts chooses one at the start: the parts share nothing that a step of
another reads, so interleaving them would only multiply states. In `core` the part
*doors* starts from an onboarded merchant with one secret, since onboarding is the
part before it; the theorem starts from nothing and covers both together.

Why the bounds are enough. The defects these properties look for need two requests
(transactions, operators, workers) that overlap and a third value to overlap on;
two that may stop and start over reach every interleaving of two, and sequences of
many because each is reused. Requests being resolved share only the remembered probe,
on which the three look-ups of one already race, so one at a time is enough there.
The mutants confirm that the interesting cases happen:
every property of every passing run is broken by a one-definition change of the
kind a bug would be. `MaxSeq` leaves room for a rolled-back number before, between
and after committed ones; a batch of two tells "in a batch" from "between batches".
In the intake a released key needs two waiters before they can race for it, hence
three deliveries. An errand has one quote, since nothing leads back to SEARCHING
with another. The proofs cover any number of all of these.

Symmetry is used for handlers, keys, drivers, callers, operators and the two
brands with their members, in safety runs only (`DecisionIsFinal` is a property of
steps, which permutations keep).

Deadlock is checked where the system never stops. Intake, wallet, core and
backoffice have finitely many calls, deliveries or events, and stop when the last
one has ended.

Fairness. `verify_answers` assumes weak fairness of a handler's own steps and
strong fairness of `LockCounters`, since PostgreSQL queues the waiters of a row
lock. Nothing is assumed about crashes: a handler that died has answered nothing.
`ledger_readers` assumes that timers fire and that a query or transaction which
every cycle tries again succeeds in the end; cycles may fail any finite number of
times. `intake_deliveries` assumes weak fairness of a request in service and strong
fairness of `GiveUp` (a poll loop reaches its deadline), nothing of the trio, whose
silence ends in the timeout, nor of the winner of a key. `backoffice` assumes weak
fairness of the worker's statements; the failures it allows are finitely many.

## 4. What the violations say

1. *Gapless sequence.* A `bigserial` number is not returned by ROLLBACK, and the
   losing side of an idempotency race rolls back after appending. From then on
   verifyChain reports a gap in a ledger nobody touched. Links are unaffected:
   `AuditNeverBroken` holds and is proved.
2. *Never a second order.* The shop looks an errand's key up before it places the
   order and remembers the confirmation after the webhook, which may take fifteen
   seconds. The rail aborts after ten, the errand stays EXECUTING, and a resume in
   between places a second order under the same key.
3. *A retired key never signs again.* sign() sets `current` after its awaits: a
   rotation that returned in between is undone in that process, and every later
   signature of it uses the retired version.

## 5. Proofs

Every theorem is for all values of the constants that satisfy the named
assumptions: types of the records, `None` and its like distinct from the values
they stand beside, sets of ids that are numbers in the order of creation. Nothing
is assumed about sizes. Each proof module states an inductive invariant, proves it
of the initial states and kept by every action (one lemma per action, one step per
conjunct the action can disturb), and derives the property. What the conjunctions
need beyond the property:

| Module | Invariant | What it adds, and why | Theorems (property) |
|---|---|---|---|
| `ConversionVerification_proofs` | `IInv`, `RevocationInv`, `AtomicInv`, `BooksInv` | who holds a row lock is past `LockCounters` and alone on its commitment, so what it checked still holds when it commits; a consumed row has its token and set; `conversions_used` is the cardinality of the live sets; answers under way agree with the store; from the directory's answer to the commit a handler is let through only under a mandate that was live at its claim's arrival; one key, and no other, holds the verdict of a consumed row; the bounties owed from a budget are finitely many and have a sum | `TypeCorrect`, `TokensCorrect` (TokensAreSpentOnce), `CapCorrect` (CapRespected), `AnswersCorrect` (AnswersMatchStore), `HistoryCorrect`, `RevocationCorrect` (RevocationTakesEffect), `AtomicCorrect` (VerdictIsAtomic), `BooksCorrect` (BooksAreExact) |
| `Ledger_proofs` | `Inv`, `CommittedInv`, `RewriteInv`, `PacksInv`, `ProjectionInv`, `AnalyticsInv` | only the holder of the lock has staged rows; committed and staged rows are one linked chain, staged above committed; the audit stands on a committed row or has seen a gap; what a publisher has read is committed; between look-up and put its day has no object, afterwards the object is its own; the rows of a pack's ledger are linked and rise in number; the batch in hand is all that is committed between the cursor and its last row; a claim is in the tables once its verdict is counted, with the bounty it burned | `TypeCorrect`, `ChainCorrect`, `OrderCorrect`, `AuditCorrect` (AuditNeverBroken), `LogCorrect` (ImplementsLog), `HeadsAreCommittedCorrect`, `HeadsCorrect` (HeadsAnchorTheChain), `PacksCorrect` (ProofsFollowTheLedger), `ProjectionCorrect` (ProjectionMatchesLedger), `TablesCorrect` (TablesAgree) |
| `ClaimIntake_proofs` | `Inv` | the row of a key is the pending row of whoever works under it; a claim is recorded before it goes on the wire; what is on its way to a caller or stored is the trio's verdict and the row's | `TypeCorrect`, `OneWorkerCorrect`, `IntakeCorrect` (IntakeFollowsTrio), `AnswersCorrect` (AnsweredIsRecorded), `IntakeImplementsOneAnswer` (ImplementsOneAnswer) |
| `Errand_proofs` | `TInv`, `AInv`, `CInv`, `MInv` | what a driver holds at each place; approvals are final and a token from APPROVED on is an approved one; a verdict under way is that of a verified claim on the errand's quote; a driver about to tell a transition recorded it, and told and untold together are no more than the log has | `TypeCorrect`, `ErrandRecordImplemented` (ImplementsErrandRecord), `UnapprovedIsNotBought` (ApprovedBeforeBuying), `ConfirmedIsConverted` (ConfirmedConverted), `MirrorIsTrue` (MirrorTellsTheTruth) |
| `Wallet_proofs` | `WalletInv` | a child's authority is within its parent's, which never widens; a caller about to insert holds what was within when read, and authority never changes; a caller about to append has its row and no event of it exists; a stored reply is the one every holder of its key was or will be told | `WalletTypeCorrect`, `GrantsCorrect` (ApprovedWithinEveryGrant), `RepliesCorrect` (OneReplyPerKey), `WalletLedgerCorrect` (LedgerFollowsTables), `DecisionCorrect` (DecisionIsFinal) |
| `ControlPlane_proofs` | `OffersInv`, `ReadingInv`, `RequestsInv`, `DoorsInv`, `NettingInv`, `PayoutsInv` | an operator between two calls holds a commitment of his offer that is not in the history yet, or one that the trio ended; of a read under way, what each stage left is what the stages before it allow, by rules that stood, the rules that still stand are among those the filter read, what is withheld was so when the flags and the data were read, and the offers still to be quoted have no quote and no token but the one in hand; a nonce under way was not spent by another, a key that was looked up was live; a sign-up holds the merchant, key and secret that the tables show, a delivery past a check was signed with a secret that was live then, and a window has counted at most the deliveries of its bucket that got that far; a set is in one run, what was told to a party and what is signed for it but not netted is its position; a payout worker has done all before the position it stands at, and of that position what its stage comes after | `OffersHistoryCorrect` (HistoryIsKept), `ReadsCorrect` (ReadsAreSound), `QuotesCorrect` (QuotesAreHonest), `ConsentCorrect` (WithheldStaysHome), `RequestsServedCorrect` (ServedOncePerCredential), `OnboardedCorrect` (OnboardedIsComplete), `DoorsCorrect` (DoorsAreFair), `PayoutsCorrect` (EachFoldIsPaidOnce) |
| `Accounts_proofs` | `KeysInv`, `ShoppingInv`, `LinkingInv`, `IdentityInv`, `SignInInv` | versions are numbered in order and a revoked one stays so; a webhook under way tells an order as the shop took it, or as a shop before its restart did; a worker holds an attempt that is spent, a member that the brand confirmed and a link that is its own; a look-up that was answered found the newest link as it stood at the start, or the signal was moved since; whoever was mailed at this instant has a live window, and a window has counted every mail since it opened | `VerdictsCorrect` (VerdictsFollowTheStore), `BoughtCorrect` (BoughtAsAsked), `LinkingCorrect` (LinkedAsConsented), `IdentityCorrect` (LinksAreAuthoritative), `ThrottleCorrect` (MailIsThrottled) |

Three arguments recur. Rows that never change once inserted, and flags that only
move one way, make what a process read earlier still true when it acts
(`CorsMoveOn`, `ShopMovesOn`, `LinksMoveOn`: one lemma says that the world may move
on under everything a process holds). An inserted id is fresh, so whoever holds an
older one is not disturbed. A guarded UPDATE or unique index gives the one step
where two racers meet. `CapCorrect` and `DoorsCorrect` also use the arithmetic of
cardinalities of FiniteSetTheorems.

Where a proof needs an induction over data it goes by a smallest counterexample
(`DataTheorems`): a non-empty set of numbers has a least one (`LeastNumber`, from the
well-foundedness of `<`), so what fails for some subset of a finite set fails for a
smallest one (`SmallestSubset`). From this it follows that the library's sum over a
set or a function exists and what one more element adds to it (`BooksCorrect`,
`TablesCorrect`, `PayoutsCorrect`), that a finite set with a strict order is listed
by `SortedBy` once and in order (`LogCorrect`, `ProjectionCorrect`), and that there
are winners of every group of offers (`ReadsCorrect`). `EventLedger`,
`Eligibility`, `OfferReading` and `Netting` select and sort by `Ordering`, since the
library's operators for it are recursive or hide behind an operator argument.
`PacksCorrect` reads "altered" as any change of a row's body, of the terms of the
commitment or of the order of the claim, and takes a hash to be what was hashed.

The attempt on `LinksAreAuthoritative` failed at first, and rightly: the model let a
look-up use the answer of another look-up's probe, which the code does not do
(`ready()` returns its own answer). `Identity` now has a probe per look-up.

`HeadsCorrect` assumes `OnePublisher`: any two publishers are one. The theorem is
false without it, as section 2 says, and the job is scheduled in one process.
`HeadsAreCommittedCorrect` assumes nothing of the kind. `ProjectionCorrect` assumes
`OneWorker`, any two workers are one, for the same reason: a rebuild by a second
process breaks it, and the repository runs one at a time. `ReadsCorrect`,
`QuotesCorrect` and `ConsentCorrect` allow any number of readers and operators, any
edits of offers, rules and consents, lost answers and restarts between any two steps
of a read; of the constants `ReadingAssumption` and `TermsAssumption` ask types only:
times, lives and prices are numbers, offers are finitely many numbers in the order of
their ids, a row and an edit of it have a mechanic of the contracts, and the sidecar
answers with a sequence of offers or not at all. `AnalyticsAssumption` and
`NettingAssumption` do the same: amounts and rates are numbers, tokens name a
commitment, parties are listed once. `BoughtCorrect` covers any
number of valets whose first uses do not overlap. The refinements are proved step
by step: initial states map to initial states, each action to an action of the
abstract module or to a stutter.

Only model-checked are the liveness properties, `RequestsAreAnswered`,
`ReadersCatchUp`, `DeliveriesAreAnswered` and `RunsOfTheMonthArePaidOut`: the prover
handles neither fairness nor ENABLED. Every invariant and every other temporal
property that a passing run checks is stated by a theorem. A leaf that names `SMTT` or
`ZenonT` does so because its obligation is large, for the time on a slower machine.

## 6. Not modelled

Cryptography and token formats; HTTP, schemas and error texts; user interfaces;
telemetry; the MCP server, a client without state; the Shopify app, demo shop,
decision model, seeds and scripts. Lock order inside one transaction: verify() and
reverse() take the counters row and the chain lock in opposite orders, PostgreSQL
aborts one of two that meet, and that abort is a `Crash` of the model. A run for
another month than its own is found in no statement and blocks the payout
projection; the premise of `RunsOfTheMonthArePaidOut` says so. `PROJECT.json` gives
the reason per component.

## 7. Plan

Every module of section 2 is built and checked, and what can be proved of its runs'
properties is proved. Left:

1. A model of the trio's transactions at lock granularity, for the one hazard that no
   property covers.
2. `Wallet` and `Errand` under one abstract approval, so that what the valet assumes of
   the wallet's gate is a refinement, not a part of `Errand`.
