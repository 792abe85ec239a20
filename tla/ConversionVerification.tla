------------------------ MODULE ConversionVerification ------------------------
(***************************************************************************)
(* The trio: commitments, token mint, the six-stage conversion             *)
(* verification pipeline with its verdict transaction, and reversals       *)
(* (apps/trio/src: commitment/simulator.ts, verification/simulator.ts,     *)
(* verification/verify-pipeline.ts, verification/replay-store.ts,          *)
(* settlement/posting.ts, settlement/simulator.ts).                        *)
(*                                                                         *)
(* Any number of HTTP handlers run verify() at the same time over one      *)
(* PostgreSQL database and one Redis cache.  A handler's step ends where    *)
(* the code awaits something another handler can change: each unlocked     *)
(* read of pipeline() is a step, the row lock of the verdict transaction   *)
(* is a step, and the rest of the transaction, which the lock and the      *)
(* unique indexes serialise, is one step that commits or rolls back.       *)
(*                                                                         *)
(* External to the module: the wallet's directory (a mandate may be        *)
(* revoked at any time and a lookup may fail), the merchants that submit   *)
(* and resubmit claims, and the process crashes that lose a handler.       *)
(***************************************************************************)
EXTENDS Posting, FiniteSets, FiniteSetsExt

CONSTANTS
  Handlers,      \* concurrent POST /trio/claims/verify requests in service
  Reversers,     \* concurrent POST /trio/claims/reverse requests in service
  Minters,       \* concurrent POST /trio/tokens/mint requests in service
  Commitments,   \* commitment ids
  Cor,           \* the COR body (and budget) of each commitment
  MintRequests,  \* the mint requests callers make
  Jtis,          \* token ids
  TokenTtl,      \* DEFAULT_TOKEN_TTL_S
  ClaimIds,      \* claim ids
  Claims,        \* the claim bodies merchants submit
  Keys,          \* idempotency keys
  Quotes,        \* quote ids
  Approvals,     \* approval ids
  Approval,      \* the directory's record of each approval
  Mandates,      \* mandate ids
  Mandate,       \* the limits of each mandate
  MonthLength,   \* length of a calendar month on the model's clock
  MaxTime,       \* bound on the clock
  None           \* null

Reasons ==
  {"SIG_INVALID", "TOKEN_REPLAYED", "WINDOW_EXPIRED", "QUOTE_EXPIRED",
   "COMMITMENT_ENDED", "CAP_EXHAUSTED", "TIER_INELIGIBLE",
   "BUDGET_EXHAUSTED", "APPROVAL_MISSING", "APPROVAL_EXPIRED",
   "MANDATE_REVOKED", "LIMIT_EXCEEDED"}
Verdicts == {"verified"} \cup Reasons

\* The Commitment schema, with the budget that create() takes beside it.
Cors ==
  [merchant_id : STRING,
   bounty : [type : {"fixed", "pct_of_order"}, amount : Nat, pct_bps : Nat],
   take_rate_bps : Nat, agent_commission_bps : Nat,
   attribution_window_s : Nat, eligible_identity_tiers : SUBSET STRING,
   max_conversions : Nat \cup {None}, clawback_window_s : Nat,
   valid_from : Nat, valid_until : Nat, budget : Nat \cup {None}]

ASSUME CorAssumption == Cor \in [Commitments -> Cors]
ASSUME ClaimsAssumption ==
  Claims \subseteq
    [claim_id : ClaimIds, merchant_id : STRING, jti : Jtis,
     gross_value : Nat, ts : Nat, signed : BOOLEAN]
ASSUME MintAssumption ==
  MintRequests \subseteq
    [jti : Jtis, cid : Commitments, qid : Quotes, tier : STRING,
     expires_at : Nat, mandate_ref : Mandates \cup {None},
     apr : Approvals \cup {None}]
ASSUME DirectoryAssumption ==
  /\ Approval \in [Approvals ->
       [mandate_id : Mandates, quote_id : Quotes, exp : Nat]]
  /\ Mandate \in [Mandates -> [per_txn : Nat, per_month : Nat]]
ASSUME TimeAssumption ==
  TokenTtl \in Nat /\ MaxTime \in Nat /\ MonthLength \in Nat \ {0}
ASSUME NoneAssumption ==
  /\ None \notin Handlers
  /\ None \notin Verdicts
  /\ None \notin [claim : Claims, verdict : Verdicts]

VARIABLES
  \* database tables, one transaction or unlocked read at a time
  now,                \* the clock
  commitments,        \* trio.commitments, the ids present
  terminations,       \* trio.commitment_terminations
  minted,             \* trio.minted_tokens, by jti
  consumed,           \* trio.consumed_jtis, the rows
  entry_sets,         \* trio.entry_sets with their entry_lines
  conversions_used,   \* trio.counters
  budget_remaining,   \* trio.counters
  month_spend,        \* trio.mandate_month_spend
  idempotency_keys,   \* trio.idempotency_keys of scope claims/verify
  events,             \* the events appended to the ledger
  lock,               \* who holds the FOR UPDATE lock of a counters row
  cache,              \* the Redis replay cache
  \* the wallet's directory, external
  revoked,            \* the mandates revoked so far
  \* handlers
  pc,                 \* where a verify handler stands
  claim,              \* the claim it serves
  key,                \* the idempotency key of the request
  outcome,            \* what pipeline() or the transaction decided
  answer,             \* the response it returns
  arrival,            \* mandates already revoked when the request arrived
  reversing,          \* the claim a reverse handler is about to reverse
  minting             \* the row a mint handler is about to insert

tables == <<commitments, terminations, minted, consumed, entry_sets,
            conversions_used, budget_remaining, month_spend,
            idempotency_keys, events>>
handlers == <<pc, claim, key, outcome, answer, arrival>>
vars == <<now, tables, lock, cache, revoked, handlers, reversing, minting>>

-----------------------------------------------------------------------------
(***************************************************************************)
(* Reading the tables.                                                     *)
(***************************************************************************)

TokenOf(c) == minted[c.jti]
CorOf(c) == Cor[TokenOf(c).cid]
Bounty(c) == BountyFor(CorOf(c).bounty, c.gross_value)
Split(c) ==
  SplitBounty(Bounty(c), CorOf(c).take_rate_bps, CorOf(c).agent_commission_bps)
MonthKey(ts) == ts \div MonthLength
Months == {MonthKey(c.ts) : c \in Claims}

IsConsumed(jti) == \E row \in consumed : row.jti = jti

\* Mutant of CanConsume: the unique index on qid is missing.
CanConsumeByTokenOnly(jti) == \A row \in consumed : row.jti # jti

\* ON CONFLICT DO NOTHING over the primary key jti and the unique qid.
CanConsume(jti) ==
  \A row \in consumed : row.jti # jti /\ row.qid # minted[jti].qid

\* The primary key of trio.entry_sets is set_<claim> or set_rev_<claim>.
HasSet(kind, claimId) ==
  \E set \in entry_sets : set.kind = kind /\ set.claim_id = claimId

\* The consumed row a claim id leads to.
ConversionOf(claimId) == CHOOSE row \in consumed : row.claim_id = claimId
PostedSet(claimId) ==
  CHOOSE set \in entry_sets : set.kind = "set" /\ set.claim_id = claimId

CapReached(cid) ==
  Cor[cid].max_conversions # None
    /\ conversions_used[cid] >= Cor[cid].max_conversions
BudgetShort(cid, bounty) ==
  budget_remaining[cid] # None /\ budget_remaining[cid] < bounty

-----------------------------------------------------------------------------
(***************************************************************************)
(* The stages of pipeline(), first failure wins.  Each returns the reason  *)
(* it refuses with, or "pass".                                             *)
(***************************************************************************)

\* Stage 1: the merchant signature and the token decode (`signed`), the mint
\* record, the COR and the merchant it belongs to.
SignatureChainOk(c) ==
  /\ c.signed
  /\ TokenOf(c) # None
  /\ TokenOf(c).cid \in commitments
  /\ CorOf(c).merchant_id = c.merchant_id

\* Stages 3 to 5, with the unlocked read of the counters, and the guard that
\* opens stage 6: minted under a mandate but without an approval.
TermsStage(c) ==
  LET token == TokenOf(c)
      cor   == CorOf(c)
  IN  IF c.ts < token.iat \/ c.ts > token.iat + cor.attribution_window_s
        THEN "WINDOW_EXPIRED"
      ELSE IF c.ts > token.quote_expires_at THEN "QUOTE_EXPIRED"
      ELSE IF c.ts < cor.valid_from \/ c.ts > cor.valid_until
        THEN "COMMITMENT_ENDED"
      ELSE IF CapReached(token.cid) THEN "CAP_EXHAUSTED"
      ELSE IF token.tier \notin cor.eligible_identity_tiers
        THEN "TIER_INELIGIBLE"
      ELSE IF BudgetShort(token.cid, Bounty(c)) THEN "BUDGET_EXHAUSTED"
      ELSE IF token.apr = None /\ token.mandate_ref # None
        THEN "APPROVAL_MISSING"
      ELSE "pass"

\* Mutant of ApprovalStage: the mandate is found but not asked for its status.
ApprovalStageAnyStatus(c, approvalFound, mandateFound) ==
  IF ~approvalFound \/ Approval[TokenOf(c).apr].quote_id # TokenOf(c).qid
  THEN "APPROVAL_MISSING"
  ELSE IF ~mandateFound THEN "MANDATE_REVOKED"
  ELSE "pass"

\* Stage 6 of a claim with an approval, up to the transaction limit.  The two
\* directory lookups are attested and fail closed: `approvalFound` and
\* `mandateFound` say whether they returned a record.
ApprovalStage(c, approvalFound, mandateFound) ==
  LET token    == TokenOf(c)
      approval == Approval[token.apr]
  IN  IF ~approvalFound \/ approval.quote_id # token.qid
        THEN "APPROVAL_MISSING"
      ELSE IF c.ts > approval.exp THEN "APPROVAL_EXPIRED"
      ELSE IF ~mandateFound \/ approval.mandate_id \in revoked
        THEN "MANDATE_REVOKED"
      ELSE IF c.gross_value > Mandate[approval.mandate_id].per_txn
        THEN "LIMIT_EXCEEDED"
      ELSE "pass"

\* The last check of stage 6, an unlocked read of the month's spend.
OverMonth(c) ==
  LET mandate == Approval[TokenOf(c).apr].mandate_id
  IN  month_spend[<<mandate, MonthKey(c.ts)>>] + c.gross_value
        > Mandate[mandate].per_month

-----------------------------------------------------------------------------
(***************************************************************************)
(* verify(): from the arrival of a request to the verdict transaction.     *)
(***************************************************************************)

Goto(h, label) ==
  /\ pc' = [pc EXCEPT ![h] = label]
  /\ UNCHANGED <<outcome, answer>>

Decide(h, verdict, label) ==
  /\ outcome' = [outcome EXCEPT ![h] = verdict]
  /\ pc' = [pc EXCEPT ![h] = label]
  /\ UNCHANGED answer

Reply(h, response) ==
  /\ answer' = [answer EXCEPT ![h] = response]
  /\ pc' = [pc EXCEPT ![h] = "done"]
  /\ UNCHANGED outcome

\* Mutant of StoredAnswer: the request fingerprint is not compared.
StoredVerdict(c, k) == idempotency_keys[k].verdict

\* What a stored verdict answers: the original response for the same body,
\* 422 IDEMPOTENCY_CONFLICT for another.
StoredAnswer(c, k) ==
  IF idempotency_keys[k].claim = c
  THEN idempotency_keys[k].verdict
  ELSE "conflict"

\* A first submission or a retry arrives and its key is looked up.
Arrive(h) ==
  /\ pc[h] = "idle"
  /\ \E c \in Claims, k \in Keys :
       /\ claim' = [claim EXCEPT ![h] = c]
       /\ key' = [key EXCEPT ![h] = k]
       /\ IF idempotency_keys[k] # None
          THEN Reply(h, StoredAnswer(c, k))
          ELSE Goto(h, "replay")
  /\ arrival' = [arrival EXCEPT ![h] = revoked]
  /\ UNCHANGED <<now, tables, lock, cache, revoked, reversing, minting>>

\* Mutant of CheckReplay: the cache is marked as soon as the token is seen.
CheckReplayMarking(h) ==
  /\ pc[h] = "replay" /\ SignatureChainOk(claim[h])
  /\ IF claim[h].jti \in cache \/ IsConsumed(claim[h].jti)
     THEN Decide(h, "TOKEN_REPLAYED", "commit")
     ELSE Goto(h, "terms")
  /\ cache' = cache \cup {claim[h].jti}
  /\ UNCHANGED <<now, tables, lock, revoked, claim, key, arrival,
                 reversing, minting>>

\* Stages 1 and 2.  A cache miss and an unreachable cache look the same, and
\* both fall through to the table.
CheckReplay(h) ==
  /\ pc[h] = "replay"
  /\ IF ~SignatureChainOk(claim[h])
     THEN Decide(h, "SIG_INVALID", "commit")
     ELSE \/ /\ claim[h].jti \in cache
             /\ Decide(h, "TOKEN_REPLAYED", "commit")
          \/ IF IsConsumed(claim[h].jti)
             THEN Decide(h, "TOKEN_REPLAYED", "commit")
             ELSE Goto(h, "terms")
  /\ UNCHANGED <<now, tables, lock, cache, revoked, claim, key, arrival,
                 reversing, minting>>

\* Every stage passed and the entry set is built: a negative share makes
\* EntrySet.parse throw, which the route answers 400 with nothing stored.
Conclude(h) ==
  IF Postable(Split(claim[h]))
  THEN Decide(h, "verified", "lock")
  ELSE Reply(h, "invalid")

\* Stages 3 to 5; a walletless claim skips stage 6 and reads no directory.
CheckTerms(h) ==
  /\ pc[h] = "terms"
  /\ LET stage == TermsStage(claim[h])
     IN  IF stage # "pass" THEN Decide(h, stage, "commit")
         ELSE IF TokenOf(claim[h]).apr = None THEN Conclude(h)
         ELSE Goto(h, "approval")
  /\ UNCHANGED <<now, tables, lock, cache, revoked, claim, key, arrival,
                 reversing, minting>>

CheckApproval(h) ==
  /\ pc[h] = "approval"
  /\ \E approvalFound, mandateFound \in BOOLEAN :
       LET stage == ApprovalStage(claim[h], approvalFound, mandateFound)
       IN  IF stage # "pass"
           THEN Decide(h, stage, "commit")
           ELSE Goto(h, "month")
  /\ UNCHANGED <<now, tables, lock, cache, revoked, claim, key, arrival,
                 reversing, minting>>

CheckMonth(h) ==
  /\ pc[h] = "month"
  /\ IF OverMonth(claim[h])
     THEN Decide(h, "LIMIT_EXCEEDED", "commit")
     ELSE Conclude(h)
  /\ UNCHANGED <<now, tables, lock, cache, revoked, claim, key, arrival,
                 reversing, minting>>

-----------------------------------------------------------------------------
(***************************************************************************)
(* verify(): the verdict transaction.                                      *)
(***************************************************************************)

\* Mutant of LockCounters: the counters read before the lock are trusted.
LockCountersUnchecked(h) ==
  LET cid == TokenOf(claim[h]).cid
  IN  /\ pc[h] = "lock"
      /\ lock[cid] = None
      /\ lock' = [lock EXCEPT ![cid] = h]
      /\ Goto(h, "commit")
      /\ UNCHANGED <<now, tables, cache, revoked, claim, key, arrival,
                     reversing, minting>>

\* SELECT ... FOR UPDATE, then cap and budget again on the locked row.
LockCounters(h) ==
  LET cid == TokenOf(claim[h]).cid
  IN  /\ pc[h] = "lock"
      /\ lock[cid] = None
      /\ lock' = [lock EXCEPT ![cid] = h]
      /\ IF CapReached(cid) THEN Decide(h, "CAP_EXHAUSTED", "commit")
         ELSE IF BudgetShort(cid, Bounty(claim[h]))
         THEN Decide(h, "BUDGET_EXHAUSTED", "commit")
         ELSE Goto(h, "commit")
      /\ UNCHANGED <<now, tables, cache, revoked, claim, key, arrival,
                     reversing, minting>>

\* Mutant of Unlocked: the client is returned to the pool mid-transaction.
StillLocked(h) == lock

\* COMMIT and ROLLBACK release what the transaction locked.
Unlocked(h) == [cid \in Commitments |-> IF lock[cid] = h THEN None ELSE lock[cid]]

\* The verdict the transaction comes to: the consumption is the arbiter.
FinalVerdict(h) ==
  IF outcome[h] = "verified" /\ ~CanConsume(claim[h].jti)
  THEN "TOKEN_REPLAYED"
  ELSE outcome[h]

StoreVerdict(h, verdict) ==
  idempotency_keys' =
    [idempotency_keys EXCEPT
       ![key[h]] = [claim |-> claim[h], verdict |-> verdict]]

ConsumptionOf(c) ==
  [jti |-> c.jti, qid |-> TokenOf(c).qid, claim_id |-> c.claim_id,
   consumed_at |-> now]

EntrySetOf(c) ==
  [kind |-> "set", claim_id |-> c.claim_id,
   lines |-> ConversionLines(Bounty(c), Split(c))]

\* applyConversionCounters
ApplyCounters(cid, bounty) ==
  /\ conversions_used' = [conversions_used EXCEPT ![cid] = @ + 1]
  /\ budget_remaining' =
       [budget_remaining EXCEPT ![cid] = IF @ = None THEN None ELSE @ - bounty]

\* recordMandateSpend, under the token's mandate_ref and only if it has one.
RecordSpend(c) ==
  month_spend' =
    IF TokenOf(c).mandate_ref = None THEN month_spend
    ELSE [month_spend EXCEPT
            ![<<TokenOf(c).mandate_ref, MonthKey(c.ts)>>] = @ + c.gross_value]

\* ON CONFLICT DO NOTHING over the idempotency key.
KeyFree(h) == idempotency_keys[key[h]] = None

CommitVerified(h) ==
  LET c == claim[h]
  IN  /\ pc[h] = "commit"
      /\ FinalVerdict(h) = "verified"
      /\ ~HasSet("set", c.claim_id)
      /\ KeyFree(h)
      /\ consumed' = consumed \cup {ConsumptionOf(c)}
      /\ entry_sets' = entry_sets \cup {EntrySetOf(c)}
      /\ ApplyCounters(TokenOf(c).cid, Bounty(c))
      /\ RecordSpend(c)
      /\ events' = events \cup
           {<<"LedgerEntryPosted", "set", c.claim_id>>,
            <<"ConversionVerified", c.claim_id, c.jti, TokenOf(c).qid>>}
      /\ StoreVerdict(h, "verified")
      /\ lock' = Unlocked(h)
      /\ Goto(h, "mark")
      /\ UNCHANGED <<now, commitments, terminations, minted, cache, revoked,
                     claim, key, arrival, reversing, minting>>

CommitRejected(h) ==
  LET c == claim[h]
      v == FinalVerdict(h)
  IN  /\ pc[h] = "commit"
      /\ v # "verified"
      /\ KeyFree(h)
      /\ events' = events \cup {<<"ConversionRejected", c.claim_id, c.jti, v>>}
      /\ StoreVerdict(h, v)
      /\ lock' = Unlocked(h)
      /\ Reply(h, v)
      /\ UNCHANGED <<now, commitments, terminations, minted, consumed,
                     entry_sets, conversions_used, budget_remaining,
                     month_spend, cache, revoked, claim, key, arrival,
                     reversing, minting>>

\* The entry_sets primary key refuses a second set for one claim id: the
\* transaction rolls back and the request fails with a 500.
ClashOnClaimId(h) ==
  /\ pc[h] = "commit"
  /\ FinalVerdict(h) = "verified"
  /\ HasSet("set", claim[h].claim_id)
  /\ lock' = Unlocked(h)
  /\ Reply(h, "error")
  /\ UNCHANGED <<now, tables, cache, revoked, claim, key, arrival,
                 reversing, minting>>

\* Mutant of LoseRace: the consumption is not part of the rolled-back
\* transaction.
LoseRaceKeepingToken(h) ==
  /\ pc[h] = "commit"
  /\ FinalVerdict(h) = "verified" /\ ~HasSet("set", claim[h].claim_id)
  /\ ~KeyFree(h)
  /\ consumed' = consumed \cup {ConsumptionOf(claim[h])}
  /\ lock' = Unlocked(h)
  /\ Goto(h, "converge")
  /\ UNCHANGED <<now, commitments, terminations, minted, entry_sets,
                 conversions_used, budget_remaining, month_spend,
                 idempotency_keys, events, cache, revoked, claim, key,
                 arrival, reversing, minting>>

\* IdempotencyRaceLost: everything the transaction wrote is rolled back.
LoseRace(h) ==
  /\ pc[h] = "commit"
  /\ FinalVerdict(h) = "verified" => ~HasSet("set", claim[h].claim_id)
  /\ ~KeyFree(h)
  /\ lock' = Unlocked(h)
  /\ Goto(h, "converge")
  /\ UNCHANGED <<now, tables, cache, revoked, claim, key, arrival,
                 reversing, minting>>

\* The loser answers with the winner's stored verdict.
Converge(h) ==
  /\ pc[h] = "converge"
  /\ Reply(h, StoredAnswer(claim[h], key[h]))
  /\ UNCHANGED <<now, tables, lock, cache, revoked, claim, key, arrival,
                 reversing, minting>>

\* The cache is marked after the commit; Redis may be unreachable.
MarkCache(h) ==
  /\ pc[h] = "mark"
  /\ cache' \in {cache, cache \cup {claim[h].jti}}
  /\ Reply(h, "verified")
  /\ UNCHANGED <<now, tables, lock, revoked, claim, key, arrival,
                 reversing, minting>>

\* The handler is free again: its answer was sent, or it died and whatever
\* transaction it had open was rolled back.
Forget(h) ==
  /\ pc' = [pc EXCEPT ![h] = "idle"]
  /\ claim' = [claim EXCEPT ![h] = None]
  /\ key' = [key EXCEPT ![h] = None]
  /\ outcome' = [outcome EXCEPT ![h] = None]
  /\ answer' = [answer EXCEPT ![h] = None]
  /\ arrival' = [arrival EXCEPT ![h] = {}]
  /\ UNCHANGED <<now, tables, cache, revoked, reversing, minting>>

Deliver(h) == pc[h] = "done" /\ Forget(h) /\ UNCHANGED lock

Crash(h) ==
  /\ pc[h] \notin {"idle", "done"}
  /\ lock' = Unlocked(h)
  /\ Forget(h)

-----------------------------------------------------------------------------
(***************************************************************************)
(* Commitments: create() and end().                                        *)
(***************************************************************************)

CreateCommitment(cid) ==
  /\ cid \notin commitments
  /\ commitments' = commitments \cup {cid}
  /\ conversions_used' = [conversions_used EXCEPT ![cid] = 0]
  /\ budget_remaining' = [budget_remaining EXCEPT ![cid] = Cor[cid].budget]
  /\ events' = events \cup {<<"CommitmentCreated", cid>>}
  /\ UNCHANGED <<now, terminations, minted, consumed, entry_sets,
                 month_spend, idempotency_keys, lock, cache, revoked,
                 handlers, reversing, minting>>

EndCommitment(cid) ==
  /\ cid \in commitments \ terminations
  /\ terminations' = terminations \cup {cid}
  /\ events' = events \cup {<<"CommitmentEnded", cid>>}
  /\ UNCHANGED <<now, commitments, minted, consumed, entry_sets,
                 conversions_used, budget_remaining, month_spend,
                 idempotency_keys, lock, cache, revoked, handlers,
                 reversing, minting>>

IsLive(cid) ==
  /\ cid \in commitments \ terminations
  /\ Cor[cid].valid_from <= now
  /\ now <= Cor[cid].valid_until

-----------------------------------------------------------------------------
(***************************************************************************)
(* mint(): the status is read before the transaction that inserts the row, *)
(* so a commitment may end in between.                                     *)
(***************************************************************************)

TokenLife(cid) ==
  IF TokenTtl < Cor[cid].attribution_window_s
  THEN TokenTtl ELSE Cor[cid].attribution_window_s

\* newId('atk') never repeats: the id, which the model's request carries, is
\* neither stored nor in flight.
FreshJti(jti) ==
  /\ minted[jti] = None
  /\ \A row \in {minting[m] : m \in Minters} \ {None} : row.jti # jti

CheckMint(m) ==
  /\ minting[m] = None
  /\ \E request \in MintRequests :
       /\ IsLive(request.cid)
       /\ request.expires_at <= now + TokenLife(request.cid)
       /\ FreshJti(request.jti)
       /\ minting' = [minting EXCEPT ![m] =
            [jti |-> request.jti, cid |-> request.cid, qid |-> request.qid,
             tier |-> request.tier, iat |-> now,
             quote_expires_at |-> request.expires_at,
             mandate_ref |-> request.mandate_ref, apr |-> request.apr]]
  /\ UNCHANGED <<now, tables, lock, cache, revoked, handlers, reversing>>

InsertToken(m) ==
  /\ minting[m] # None
  /\ minted' = [minted EXCEPT ![minting[m].jti] = minting[m]]
  /\ events' = events \cup {<<"TokenMinted", minting[m].jti>>}
  /\ minting' = [minting EXCEPT ![m] = None]
  /\ UNCHANGED <<now, commitments, terminations, consumed, entry_sets,
                 conversions_used, budget_remaining, month_spend,
                 idempotency_keys, lock, cache, revoked, handlers, reversing>>

AbandonMint(m) ==
  /\ minting[m] # None
  /\ minting' = [minting EXCEPT ![m] = None]
  /\ UNCHANGED <<now, tables, lock, cache, revoked, handlers, reversing>>

-----------------------------------------------------------------------------
(***************************************************************************)
(* reverse(): the checks run before the transaction, the entry_sets        *)
(* primary key arbitrates between two that passed them.                    *)
(***************************************************************************)

\* A correctly signed request by the merchant the commitment belongs to; the
\* refusals change nothing and are not steps.
CheckReverse(r) ==
  /\ reversing[r] = None
  /\ \E row \in consumed :
       /\ ~HasSet("rev", row.claim_id)
       /\ now <= row.consumed_at + Cor[minted[row.jti].cid].clawback_window_s
       /\ HasSet("set", row.claim_id)
       /\ reversing' = [reversing EXCEPT ![r] = row.claim_id]
  /\ UNCHANGED <<now, tables, lock, cache, revoked, handlers, minting>>

\* freeConversionCap: the cap slot reopens, budget and month spend stay.
FreeConversionCap(cid) ==
  conversions_used' =
    [conversions_used EXCEPT ![cid] = IF @ > 0 THEN @ - 1 ELSE @]

ReversalSetOf(claimId) ==
  [kind |-> "rev", claim_id |-> claimId,
   lines |-> ReversalLines(PostedSet(claimId).lines)]

CommitReverse(r) ==
  LET claimId == reversing[r]
      cid     == minted[ConversionOf(claimId).jti].cid
  IN  /\ claimId # None
      /\ ~HasSet("rev", claimId)
      /\ lock[cid] = None
      /\ entry_sets' = entry_sets \cup {ReversalSetOf(claimId)}
      /\ FreeConversionCap(cid)
      /\ events' = events \cup {<<"LedgerEntryPosted", "rev", claimId>>,
                                <<"ConversionReversed", claimId>>}
      /\ reversing' = [reversing EXCEPT ![r] = None]
      /\ UNCHANGED <<now, commitments, terminations, minted, consumed,
                     budget_remaining, month_spend, idempotency_keys, lock,
                     cache, revoked, handlers, minting>>

\* 23505 on the set_rev_ id answers TOKEN_REPLAYED; a crash or a deadlock
\* abort rolls the transaction back too.
AbandonReverse(r) ==
  /\ reversing[r] # None
  /\ reversing' = [reversing EXCEPT ![r] = None]
  /\ UNCHANGED <<now, tables, lock, cache, revoked, handlers, minting>>

-----------------------------------------------------------------------------
(***************************************************************************)
(* The environment.                                                        *)
(***************************************************************************)

RevokeMandate(m) ==
  /\ m \notin revoked
  /\ revoked' = revoked \cup {m}
  /\ UNCHANGED <<now, tables, lock, cache, handlers, reversing, minting>>

Tick ==
  /\ now < MaxTime
  /\ now' = now + 1
  /\ UNCHANGED <<tables, lock, cache, revoked, handlers, reversing, minting>>

-----------------------------------------------------------------------------
Init ==
  /\ now = 0
  /\ commitments = {}
  /\ terminations = {}
  /\ minted = [jti \in Jtis |-> None]
  /\ consumed = {}
  /\ entry_sets = {}
  /\ conversions_used = [cid \in Commitments |-> 0]
  /\ budget_remaining = [cid \in Commitments |-> Cor[cid].budget]
  /\ month_spend = [x \in Mandates \X Months |-> 0]
  /\ idempotency_keys = [k \in Keys |-> None]
  /\ events = {}
  /\ lock = [cid \in Commitments |-> None]
  /\ cache = {}
  /\ revoked = {}
  /\ pc = [h \in Handlers |-> "idle"]
  /\ claim = [h \in Handlers |-> None]
  /\ key = [h \in Handlers |-> None]
  /\ outcome = [h \in Handlers |-> None]
  /\ answer = [h \in Handlers |-> None]
  /\ arrival = [h \in Handlers |-> {}]
  /\ reversing = [r \in Reversers |-> None]
  /\ minting = [m \in Minters |-> None]

\* What a handler does once a request is in its hands.
Serve(h) ==
  \/ CheckReplay(h)
  \/ CheckTerms(h)
  \/ CheckApproval(h)
  \/ CheckMonth(h)
  \/ LockCounters(h)
  \/ CommitVerified(h)
  \/ CommitRejected(h)
  \/ ClashOnClaimId(h)
  \/ LoseRace(h)
  \/ Converge(h)
  \/ MarkCache(h)

Next ==
  \/ \E h \in Handlers : Arrive(h) \/ Serve(h) \/ Deliver(h) \/ Crash(h)
  \/ \E cid \in Commitments : CreateCommitment(cid) \/ EndCommitment(cid)
  \/ \E m \in Minters : CheckMint(m) \/ InsertToken(m) \/ AbandonMint(m)
  \/ \E r \in Reversers :
       CheckReverse(r) \/ CommitReverse(r) \/ AbandonReverse(r)
  \/ \E m \in Mandates : RevokeMandate(m)
  \/ Tick

Spec == Init /\ [][Next]_vars

\* A handler that can go on does, and PostgreSQL grants a row lock in the
\* order it was asked for, so a waiting transaction is not overtaken forever.
Fairness ==
  \A h \in Handlers : WF_vars(Serve(h)) /\ SF_vars(LockCounters(h))

FairSpec == Spec /\ Fairness

-----------------------------------------------------------------------------
(***************************************************************************)
(* Types.                                                                  *)
(***************************************************************************)

MintRows ==
  [jti : Jtis, cid : Commitments, qid : Quotes, tier : STRING, iat : Nat,
   quote_expires_at : Nat, mandate_ref : Mandates \cup {None},
   apr : Approvals \cup {None}]

Lines ==
  [merchant_payable : Int, agent_receivable : Int, platform_revenue : Int,
   reserve : Int]

EventRecords ==
  ({"CommitmentCreated", "CommitmentEnded"} \X Commitments)
    \cup ({"TokenMinted"} \X Jtis)
    \cup ({"LedgerEntryPosted"} \X {"set", "rev"} \X ClaimIds)
    \cup ({"ConversionVerified"} \X ClaimIds \X Jtis \X Quotes)
    \cup ({"ConversionRejected"} \X ClaimIds \X Jtis \X Reasons)
    \cup ({"ConversionReversed"} \X ClaimIds)

Labels ==
  {"idle", "replay", "terms", "approval", "month", "lock",
   "commit", "converge", "mark", "done"}

Answers == Verdicts \cup {"conflict", "invalid", "error"}

\* The type invariant.  The counters are where it has content: neither the
\* conversion count nor a remaining budget is ever negative, although both
\* are decremented (posting.ts freeConversionCap, applyConversionCounters).
TypeOK ==
  /\ now \in Nat
  /\ commitments \subseteq Commitments
  /\ terminations \subseteq Commitments
  /\ minted \in [Jtis -> MintRows \cup {None}]
  /\ consumed \subseteq
       [jti : Jtis, qid : Quotes, claim_id : ClaimIds, consumed_at : Nat]
  /\ entry_sets \subseteq
       [kind : {"set", "rev"}, claim_id : ClaimIds, lines : Lines]
  /\ conversions_used \in [Commitments -> Nat]
  /\ budget_remaining \in [Commitments -> Nat \cup {None}]
  /\ month_spend \in [Mandates \X Months -> Nat]
  /\ idempotency_keys \in
       [Keys -> [claim : Claims, verdict : Verdicts] \cup {None}]
  /\ events \subseteq EventRecords
  /\ lock \in [Commitments -> Handlers \cup {None}]
  /\ cache \subseteq Jtis
  /\ revoked \subseteq Mandates
  /\ pc \in [Handlers -> Labels]
  /\ claim \in [Handlers -> Claims \cup {None}]
  /\ key \in [Handlers -> Keys \cup {None}]
  /\ outcome \in [Handlers -> Verdicts \cup {None}]
  /\ answer \in [Handlers -> Answers \cup {None}]
  /\ arrival \in [Handlers -> SUBSET Mandates]
  /\ reversing \in [Reversers -> ClaimIds \cup {None}]
  /\ minting \in [Minters -> MintRows \cup {None}]

-----------------------------------------------------------------------------
(***************************************************************************)
(* Safety.                                                                 *)
(***************************************************************************)

Reversed(claimId) == HasSet("rev", claimId)
ConversionsOf(cid) == {row \in consumed : minted[row.jti].cid = cid}
LiveConversions(cid) ==
  {row \in ConversionsOf(cid) : ~Reversed(row.claim_id)}

\* A token, a quote and a claim id each convert at most once, whatever the
\* keys, retries, re-mints and handlers (SYN-9: "one verified conversion per
\* qid").
SingleUse ==
  \A a, b \in consumed :
    a.jti = b.jti \/ a.qid = b.qid \/ a.claim_id = b.claim_id => a = b

\* The promise slot: conversions_used counts exactly the conversions that
\* are not reversed, and never exceeds max_conversions, although every
\* handler read the counter long before it commits.
CapRespected ==
  \A cid \in Commitments :
    /\ conversions_used[cid] = Cardinality(LiveConversions(cid))
    /\ Cor[cid].max_conversions # None =>
         conversions_used[cid] <= Cor[cid].max_conversions

\* The merchant never owes more bounty than the budget promised: what is
\* left of it is the budget minus every bounty ever posted to its payable
\* account, reversals not given back (SYN-10).
OwedBy(cid) ==
  {[claim_id |-> set.claim_id, amount |-> -set.lines.merchant_payable] :
     set \in {s \in entry_sets :
                /\ s.kind = "set"
                /\ \E row \in ConversionsOf(cid) : row.claim_id = s.claim_id}}
BudgetRespected ==
  \A cid \in Commitments :
    budget_remaining[cid] # None =>
      /\ budget_remaining[cid] >= 0
      /\ budget_remaining[cid] + MapThenSumSet(LAMBDA o : o.amount, OwedBy(cid))
           = Cor[cid].budget

\* A verified verdict, the consumed token, the posted entry set and the
\* ConversionVerified event exist together or not at all, and the stored
\* verdict can be found again under one key: a crash at any point loses
\* none of them alone.
VerdictIsAtomic ==
  /\ {e \in events : e[1] = "ConversionVerified"} =
       {<<"ConversionVerified", row.claim_id, row.jti, row.qid>> :
          row \in consumed}
  /\ {s.claim_id : s \in {t \in entry_sets : t.kind = "set"}} =
       {row.claim_id : row \in consumed}
  /\ \A row \in consumed :
       Cardinality({k \in Keys :
         /\ idempotency_keys[k] # None
         /\ idempotency_keys[k].verdict = "verified"
         /\ idempotency_keys[k].claim.jti = row.jti
         /\ idempotency_keys[k].claim.claim_id = row.claim_id}) = 1
  /\ \A k \in Keys :
       idempotency_keys[k] # None /\ idempotency_keys[k].verdict = "verified"
         => IsConsumed(idempotency_keys[k].claim.jti)

\* A verdict that leaves the trio is the one stored under the request's key,
\* for the same body: losers of a race and retries answer as the winner did.
AnswersMatchStore ==
  \A h \in Handlers :
    answer[h] \in Verdicts =>
      idempotency_keys[key[h]] = [claim |-> claim[h], verdict |-> answer[h]]

\* A cache entry only ever refuses a token the table has consumed, so a hit
\* short-circuits to the outcome the table would give.
CacheIsSound == \A jti \in cache : IsConsumed(jti)

\* A reversal follows its conversion, happens once, and cancels it account
\* by account; the conversion's own lines are still there and every set
\* balances.
ReversalsAreExact ==
  /\ \A a, b \in entry_sets :
       a.kind = b.kind /\ a.claim_id = b.claim_id => a = b
  /\ \A set \in entry_sets :
       /\ NetOf(set.lines) = 0
       /\ set.kind = "rev" =>
            \E original \in entry_sets :
              /\ original.kind = "set"
              /\ original.claim_id = set.claim_id
              /\ set.lines = ReversalLines(original.lines)
  /\ {e \in events : e[1] = "ConversionReversed"} =
       {<<"ConversionReversed", s.claim_id>> :
          s \in {t \in entry_sets : t.kind = "rev"}}

\* The books of the trio are exact: what is left of a budget is what was not
\* promised away, and every reversal cancels its own conversion, once.
BooksAreExact == BudgetRespected /\ ReversalsAreExact

\* A token is spent once: no token, quote or claim converts twice, and the cache
\* refuses none that the table would let through.
TokensAreSpentOnce == SingleUse /\ CacheIsSound

\* Revocation takes effect for every claim that arrives after it: only a
\* claim already being served when the mandate was revoked may still verify.
RevocationTakesEffect ==
  \A h \in Handlers :
    pc[h] = "mark" /\ TokenOf(claim[h]).apr # None =>
      Approval[TokenOf(claim[h]).apr].mandate_id \notin arrival[h]

\* The records of the trio only grow, and a stored verdict never changes.
HistoryIsAppendOnly ==
  [][/\ consumed \subseteq consumed'
     /\ entry_sets \subseteq entry_sets'
     /\ events \subseteq events'
     /\ \A k \in Keys :
          idempotency_keys[k] # None =>
            idempotency_keys'[k] = idempotency_keys[k]]_vars

-----------------------------------------------------------------------------
(***************************************************************************)
(* Liveness.                                                               *)
(***************************************************************************)

\* Every request that arrives is answered or its handler dies: none waits
\* forever on a row lock or on the other handlers.
RequestsAreAnswered ==
  \A h \in Handlers : pc[h] = "replay" ~> pc[h] \in {"done", "idle"}

=============================================================================
