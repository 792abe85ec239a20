-------------------- MODULE ConversionVerification_proofs --------------------
(***************************************************************************)
(* Proofs about ConversionVerification: its type invariant, single use of  *)
(* tokens and quotes, the conversion cap, the soundness of the replay      *)
(* cache, the agreement of answers with stored verdicts and the append-    *)
(* only history, for every number of handlers, commitments, tokens, claims *)
(* and keys.                                                               *)
(***************************************************************************)
EXTENDS ConversionVerification, FiniteSetTheorems, WellFoundedInduction, TLAPS

-----------------------------------------------------------------------------
(***************************************************************************)
(* The inductive invariant.                                                *)
(***************************************************************************)

\* A claim whose token the trio minted on a commitment it holds.
Known(c) ==
  /\ c \in Claims
  /\ TokenOf(c) # None
  /\ TokenOf(c) \in MintRows
  /\ TokenOf(c).cid \in commitments

\* What a handler knows at each label, from the reads behind it.
Standing(h) ==
  /\ pc[h] # "idle" => claim[h] \in Claims /\ key[h] \in Keys
  /\ pc[h] \in {"terms", "approval", "month", "lock", "mark"} => Known(claim[h])
  /\ pc[h] = "lock" => outcome[h] = "verified"
  /\ pc[h] = "commit" => outcome[h] \in Verdicts
  /\ pc[h] = "commit" /\ outcome[h] = "verified" => Known(claim[h])
  /\ pc[h] = "converge" => idempotency_keys[key[h]] # None
  /\ pc[h] = "mark" =>
       /\ IsConsumed(claim[h].jti)
       /\ idempotency_keys[key[h]]
            = [claim |-> claim[h], verdict |-> "verified"]

HandlerInv == \A h \in Handlers : Standing(h)

\* Between the locking read and the commit nobody else touches the counters.
LockInv ==
  \A h \in Handlers :
    pc[h] = "commit" /\ outcome[h] = "verified" =>
      /\ lock[TokenOf(claim[h]).cid] = h
      /\ ~CapReached(TokenOf(claim[h]).cid)
      /\ ~BudgetShort(TokenOf(claim[h]).cid, Bounty(claim[h]))

\* A mint in flight has an id of its own and a commitment that exists.
MintInv ==
  /\ \A m \in Minters :
       minting[m] # None =>
         /\ minting[m] \in MintRows
         /\ minting[m].cid \in commitments
         /\ minted[minting[m].jti] = None
  /\ \A m, n \in Minters :
       m # n /\ minting[m] # None /\ minting[n] # None =>
         minting[m].jti # minting[n].jti
  /\ \A jti \in Jtis : minted[jti] # None => minted[jti].cid \in commitments

\* Consumptions, entry sets and reversals in flight refer to one another.
RecordInv ==
  /\ IsFiniteSet(consumed)
  /\ \A row \in consumed :
       /\ minted[row.jti] # None
       /\ minted[row.jti] \in MintRows
       /\ minted[row.jti].cid \in commitments
       /\ row.qid = minted[row.jti].qid
       /\ HasSet("set", row.claim_id)
  /\ \A set \in entry_sets : \E row \in consumed : row.claim_id = set.claim_id
  /\ \A r \in Reversers :
       reversing[r] # None =>
         \E row \in consumed : row.claim_id = reversing[r]

\* Only a handler that is done holds an answer.
Unanswered == \A h \in Handlers : pc[h] # "done" => answer[h] = None

\* The two halves of CapRespected.
CapEq ==
  \A cid \in Commitments :
    conversions_used[cid] = Cardinality(LiveConversions(cid))

CapBound ==
  \A cid \in Commitments :
    Cor[cid].max_conversions # None =>
      conversions_used[cid] <= Cor[cid].max_conversions

\* The inductive invariant.
IInv ==
  /\ TypeOK
  /\ HandlerInv
  /\ Unanswered
  /\ LockInv
  /\ MintInv
  /\ RecordInv
  /\ SingleUse
  /\ CapEq
  /\ CapBound
  /\ CacheIsSound
  /\ AnswersMatchStore


-----------------------------------------------------------------------------
(***************************************************************************)
(* Types.                                                                  *)
(***************************************************************************)

\* A bounty is a non-negative whole number of pence (posting.ts bountyFor).
LEMMA BountyType ==
  ASSUME NEW cid \in Commitments, NEW gross \in Nat
  PROVE  BountyFor(Cor[cid].bounty, gross) \in Nat
<1>1. /\ Cor[cid].bounty.amount \in Nat
      /\ Cor[cid].bounty.pct_bps \in Nat
  BY CorAssumption DEF Cors
<1>2. gross * Cor[cid].bounty.pct_bps \in Nat
  BY <1>1
<1>3. (gross * Cor[cid].bounty.pct_bps) \div 10000 \in Nat
  BY <1>2
<1> QED
  BY <1>1, <1>3 DEF BountyFor, BasisPoints

\* The entry set of a known claim has integer lines (conversionEntrySet).
LEMMA KnownTypes ==
  ASSUME NEW c, Known(c)
  PROVE  /\ c.claim_id \in ClaimIds /\ c.jti \in Jtis
         /\ c.gross_value \in Nat
         /\ TokenOf(c).cid \in Commitments
         /\ TokenOf(c).qid \in Quotes
         /\ TokenOf(c).mandate_ref \in Mandates \cup {None}
         /\ Bounty(c) \in Nat
         /\ EntrySetOf(c) \in
              [kind : {"set", "rev"}, claim_id : ClaimIds, lines : Lines]
<1>1. /\ c.claim_id \in ClaimIds /\ c.jti \in Jtis /\ c.gross_value \in Nat
      /\ TokenOf(c).cid \in Commitments
      /\ TokenOf(c).qid \in Quotes
      /\ TokenOf(c).mandate_ref \in Mandates \cup {None}
  BY ClaimsAssumption DEF Known, MintRows
<1>2. Bounty(c) \in Nat
  BY <1>1, BountyType DEF Bounty, CorOf
<1>3. CorOf(c).take_rate_bps \in Nat /\ CorOf(c).agent_commission_bps \in Nat
  BY <1>1, CorAssumption DEF CorOf, Cors
<1>4. /\ Bounty(c) * CorOf(c).take_rate_bps \in Int
      /\ Bounty(c) * CorOf(c).agent_commission_bps \in Int
  BY <1>2, <1>3
<1>5. /\ Split(c).platform \in Int
      /\ Split(c).agent \in Int
      /\ Split(c).reserve \in Int
  <2>1. /\ (Bounty(c) * CorOf(c).take_rate_bps) \div 10000 \in Int
        /\ (Bounty(c) * CorOf(c).agent_commission_bps) \div 10000 \in Int
    BY <1>4
  <2> QED
    BY <1>2, <2>1 DEF Split, SplitBounty, BasisPoints
<1>6. EntrySetOf(c) \in
        [kind : {"set", "rev"}, claim_id : ClaimIds, lines : Lines]
  BY <1>1, <1>2, <1>5 DEF EntrySetOf, ConversionLines, Lines
<1> QED
  BY <1>1, <1>2, <1>6

\* The tables start well-typed, counters included.
THEOREM TypeInit == Init => TypeOK
BY CorAssumption, TimeAssumption DEF Init, TypeOK, Labels, Cors

\* Every step keeps the tables well-typed: the two decrements (freeConversionCap
\* and applyConversionCounters) need the lock and the cap to stay above zero.
LEMMA TypeStep == IInv /\ [Next]_vars => TypeOK'
<1> SUFFICES ASSUME IInv, [Next]_vars
             PROVE  TypeOK'
  OBVIOUS
<1> USE DEF IInv, TypeOK, Labels, Goto, Decide, Reply, Conclude, tables, handlers
<1>1. ASSUME NEW h \in Handlers, Arrive(h) PROVE TypeOK'
  BY <1>1 DEF Arrive, StoredAnswer, Answers, Verdicts
<1>2. ASSUME NEW h \in Handlers, CheckReplay(h) PROVE TypeOK'
  BY <1>2 DEF CheckReplay, Verdicts, Reasons
<1>3. ASSUME NEW h \in Handlers, CheckTerms(h) PROVE TypeOK'
  BY <1>3, SMTT(30) DEF CheckTerms, TermsStage, Verdicts, Reasons, Answers
<1>4. ASSUME NEW h \in Handlers, CheckApproval(h) PROVE TypeOK'
  BY <1>4 DEF CheckApproval, ApprovalStage, Verdicts, Reasons
<1>5. ASSUME NEW h \in Handlers, CheckMonth(h) PROVE TypeOK'
  BY <1>5 DEF CheckMonth, Verdicts, Reasons, Answers
<1>6. ASSUME NEW h \in Handlers, LockCounters(h) PROVE TypeOK'
  BY <1>6, ZenonT(30) DEF LockCounters, Verdicts, Reasons
<1>7. ASSUME NEW h \in Handlers, CommitVerified(h) PROVE TypeOK'
  <2> DEFINE c == claim[h]
  <2>1. pc[h] = "commit" /\ outcome[h] = "verified" /\ CanConsume(c.jti)
    BY <1>7 DEF CommitVerified, FinalVerdict
  <2>2. Known(c) /\ key[h] \in Keys
    BY <2>1 DEF HandlerInv, Standing
  <2>3. c \in Claims
    BY <2>2 DEF Known
  <2> DEFINE cid == TokenOf(c).cid
  <2> HIDE DEF c, cid
  <2>4. consumed' \subseteq
          [jti : Jtis, qid : Quotes, claim_id : ClaimIds, consumed_at : Nat]
    BY <1>7, <2>2, KnownTypes DEF CommitVerified, ConsumptionOf, c
  <2>5. entry_sets' \subseteq
          [kind : {"set", "rev"}, claim_id : ClaimIds, lines : Lines]
    BY <1>7, <2>2, KnownTypes DEF CommitVerified, c
  <2>6. conversions_used' \in [Commitments -> Nat]
    BY <1>7, <2>2, KnownTypes DEF CommitVerified, ApplyCounters, c
  <2>7. budget_remaining' \in [Commitments -> Nat \cup {None}]
    <3>1. cid \in Commitments /\ Bounty(c) \in Nat
      BY <2>2, KnownTypes DEF cid
    <3>2. ~BudgetShort(cid, Bounty(c))
      BY <2>1 DEF LockInv, cid, c
    <3>3. budget_remaining' =
            [budget_remaining EXCEPT ![cid] =
               IF @ = None THEN None ELSE @ - Bounty(c)]
      BY <1>7 DEF CommitVerified, ApplyCounters, cid, c
    <3>4. budget_remaining[cid] # None =>
            budget_remaining[cid] - Bounty(c) \in Nat
      BY <3>1, <3>2 DEF BudgetShort
    <3> QED
      BY <3>1, <3>3, <3>4
  <2>8. month_spend' \in [Mandates \X Months -> Nat]
    <3>1. c.gross_value \in Nat /\ MonthKey(c.ts) \in Months
      BY <2>2, <2>3, KnownTypes DEF Months
    <3>2. CASE TokenOf(c).mandate_ref = None
      BY <1>7, <3>2 DEF CommitVerified, RecordSpend, c
    <3>3. CASE TokenOf(c).mandate_ref # None
      <4>1. <<TokenOf(c).mandate_ref, MonthKey(c.ts)>> \in Mandates \X Months
        BY <2>2, <3>1, <3>3, KnownTypes
      <4> QED
        BY <1>7, <3>1, <3>3, <4>1 DEF CommitVerified, RecordSpend, c
    <3> QED
      BY <3>2, <3>3
  <2>9. events' \subseteq EventRecords
    <3>1. /\ <<"LedgerEntryPosted", "set", c.claim_id>> \in EventRecords
          /\ <<"ConversionVerified", c.claim_id, c.jti, TokenOf(c).qid>>
               \in EventRecords
      BY <2>2, KnownTypes DEF EventRecords
    <3> QED
      BY <1>7, <3>1 DEF CommitVerified, c
  <2>10. idempotency_keys' \in
           [Keys -> [claim : Claims, verdict : Verdicts] \cup {None}]
    BY <1>7, <2>2, <2>3 DEF CommitVerified, StoreVerdict, Verdicts, c
  <2>11. lock' \in [Commitments -> Handlers \cup {None}]
    BY <1>7 DEF CommitVerified, Unlocked
  <2> QED
    BY <1>7, <2>4, <2>5, <2>6, <2>7, <2>8, <2>9, <2>10, <2>11
    DEF CommitVerified
<1>8. ASSUME NEW h \in Handlers, CommitRejected(h) PROVE TypeOK'
  <2> DEFINE v == FinalVerdict(h)
  <2>1. /\ claim[h] \in Claims /\ key[h] \in Keys /\ v \in Reasons
    BY <1>8 DEF CommitRejected, HandlerInv, Standing, FinalVerdict, Verdicts, Reasons
  <2>2. claim[h].claim_id \in ClaimIds /\ claim[h].jti \in Jtis
    BY <2>1, ClaimsAssumption
  <2>3. <<"ConversionRejected", claim[h].claim_id, claim[h].jti, v>> \in EventRecords
    BY <2>1, <2>2 DEF EventRecords
  <2>4. events' \subseteq EventRecords
    BY <1>8, <2>3 DEF CommitRejected
  <2>5. idempotency_keys' \in
          [Keys -> [claim : Claims, verdict : Verdicts] \cup {None}]
    BY <1>8, <2>1 DEF CommitRejected, StoreVerdict, Verdicts
  <2>6. answer' \in [Handlers -> Answers \cup {None}]
    BY <1>8, <2>1 DEF CommitRejected, Answers, Verdicts
  <2>7. lock' \in [Commitments -> Handlers \cup {None}]
    BY <1>8 DEF CommitRejected, Unlocked
  <2> QED
    BY <1>8, <2>4, <2>5, <2>6, <2>7 DEF CommitRejected
<1>9. ASSUME NEW h \in Handlers, ClashOnClaimId(h) PROVE TypeOK'
  BY <1>9 DEF ClashOnClaimId, Unlocked, Answers
<1>10. ASSUME NEW h \in Handlers, LoseRace(h) PROVE TypeOK'
  BY <1>10 DEF LoseRace, Unlocked
<1>11. ASSUME NEW h \in Handlers, Converge(h) PROVE TypeOK'
  BY <1>11, ZenonT(30) DEF Converge, HandlerInv, Standing, StoredAnswer, Answers
<1>12. ASSUME NEW h \in Handlers, MarkCache(h) PROVE TypeOK'
  BY <1>12, ClaimsAssumption DEF MarkCache, HandlerInv, Standing, Answers, Verdicts
<1>13. ASSUME NEW h \in Handlers, Deliver(h) PROVE TypeOK'
  BY <1>13 DEF Deliver, Forget
<1>14. ASSUME NEW h \in Handlers, Crash(h) PROVE TypeOK'
  BY <1>14 DEF Crash, Forget, Unlocked
<1>15. ASSUME NEW cid \in Commitments, CreateCommitment(cid) PROVE TypeOK'
  <2>1. Cor[cid].budget \in Nat \cup {None}
    BY CorAssumption DEF Cors
  <2>2. budget_remaining' \in [Commitments -> Nat \cup {None}]
    BY <1>15, <2>1 DEF CreateCommitment
  <2>3. events' \subseteq EventRecords
    BY <1>15 DEF CreateCommitment, EventRecords
  <2> QED
    BY <1>15, <2>2, <2>3 DEF CreateCommitment
<1>16. ASSUME NEW cid \in Commitments, EndCommitment(cid) PROVE TypeOK'
  BY <1>16 DEF EndCommitment, EventRecords
<1>17. ASSUME NEW m \in Minters, CheckMint(m) PROVE TypeOK'
  BY <1>17, MintAssumption DEF CheckMint, MintRows
<1>18. ASSUME NEW m \in Minters, InsertToken(m) PROVE TypeOK'
  BY <1>18 DEF InsertToken, MintRows, EventRecords
<1>19. ASSUME NEW m \in Minters, AbandonMint(m) PROVE TypeOK'
  BY <1>19 DEF AbandonMint
<1>20. ASSUME NEW r \in Reversers, CheckReverse(r) PROVE TypeOK'
  BY <1>20 DEF CheckReverse
<1>21. ASSUME NEW r \in Reversers, CommitReverse(r) PROVE TypeOK'
  <2> DEFINE claimId == reversing[r]
  <2>1. PICK row \in consumed : row.claim_id = claimId
    BY <1>21 DEF CommitReverse, RecordInv
  <2>2. claimId \in ClaimIds
    BY <2>1
  <2>3. HasSet("set", claimId)
    BY <2>1 DEF RecordInv
  <2>4. PostedSet(claimId) \in entry_sets
    BY <2>3 DEF HasSet, PostedSet
  <2>5. PostedSet(claimId).lines \in Lines
    BY <2>4
  <2>6. ReversalSetOf(claimId) \in
          [kind : {"set", "rev"}, claim_id : ClaimIds, lines : Lines]
    BY <2>2, <2>5 DEF ReversalSetOf, ReversalLines, Lines
  <2>7. entry_sets' \subseteq
          [kind : {"set", "rev"}, claim_id : ClaimIds, lines : Lines]
    BY <1>21, <2>6 DEF CommitReverse
  <2>8. conversions_used' \in [Commitments -> Nat]
    <3> DEFINE cid == minted[ConversionOf(claimId).jti].cid
               used == conversions_used[cid]
    <3>1. conversions_used' =
            [conversions_used EXCEPT ![cid] = IF used > 0 THEN used - 1 ELSE used]
      BY <1>21 DEF CommitReverse, FreeConversionCap
    <3>2. cid \in Commitments
      <4>1. ConversionOf(claimId) \in consumed
        BY <2>1 DEF ConversionOf
      <4> QED
        BY <4>1 DEF RecordInv, MintRows
    <3>3. (IF used > 0 THEN used - 1 ELSE used) \in Nat
      BY <3>2
    <3> HIDE DEF cid, used
    <3> QED
      BY <3>1, <3>2, <3>3
  <2>9. events' \subseteq EventRecords
    <3>1. /\ <<"LedgerEntryPosted", "rev", claimId>> \in EventRecords
          /\ <<"ConversionReversed", claimId>> \in EventRecords
      BY <2>2 DEF EventRecords
    <3> QED
      BY <1>21, <3>1 DEF CommitReverse
  <2> QED
    BY <1>21, <2>7, <2>8, <2>9 DEF CommitReverse
<1>22. ASSUME NEW r \in Reversers, AbandonReverse(r) PROVE TypeOK'
  BY <1>22 DEF AbandonReverse
<1>23. ASSUME NEW m \in Mandates, RevokeMandate(m) PROVE TypeOK'
  BY <1>23 DEF RevokeMandate
<1>24. CASE Tick
  BY <1>24 DEF Tick
<1>25. CASE UNCHANGED vars
  BY <1>25 DEF vars
<1> QED
  BY <1>1, <1>2, <1>3, <1>4, <1>5, <1>6, <1>7, <1>8, <1>9, <1>10, <1>11, <1>12,
     <1>13, <1>14, <1>15, <1>16, <1>17, <1>18, <1>19, <1>20, <1>21, <1>22,
     <1>23, <1>24, <1>25 DEF Next, Serve

-----------------------------------------------------------------------------
(***************************************************************************)
(* What a handler knows stays true.                                        *)
(***************************************************************************)

\* The steps that write a table; every other step leaves all of them alone.
LEMMA Writers ==
  ASSUME [Next]_vars
  PROVE  \/ UNCHANGED tables
         \/ \E h \in Handlers : CommitVerified(h)
         \/ \E h \in Handlers : CommitRejected(h)
         \/ \E m \in Minters : InsertToken(m)
         \/ \E cid \in Commitments : CreateCommitment(cid)
         \/ \E cid \in Commitments : EndCommitment(cid)
         \/ \E r \in Reversers : CommitReverse(r)
<1> USE DEF tables, handlers, Forget
<1>1. ASSUME NEW h \in Handlers,
             \/ Arrive(h) \/ Deliver(h) \/ Crash(h)
             \/ CheckReplay(h) \/ CheckTerms(h) \/ CheckApproval(h)
             \/ CheckMonth(h) \/ LockCounters(h) \/ ClashOnClaimId(h)
             \/ LoseRace(h) \/ Converge(h) \/ MarkCache(h)
      PROVE  UNCHANGED tables
  BY <1>1 DEF Arrive, Deliver, Crash, CheckReplay, CheckTerms, CheckApproval,
     CheckMonth, LockCounters, ClashOnClaimId, LoseRace, Converge, MarkCache
<1>2. ASSUME NEW m \in Minters, CheckMint(m) \/ AbandonMint(m)
      PROVE  UNCHANGED tables
  BY <1>2 DEF CheckMint, AbandonMint
<1>3. ASSUME NEW r \in Reversers, CheckReverse(r) \/ AbandonReverse(r)
      PROVE  UNCHANGED tables
  BY <1>3 DEF CheckReverse, AbandonReverse
<1>4. ASSUME NEW m \in Mandates, RevokeMandate(m)
      PROVE  UNCHANGED tables
  BY <1>4 DEF RevokeMandate
<1>5. Tick \/ UNCHANGED vars => UNCHANGED tables
  BY DEF Tick, vars
<1> QED
  BY <1>1, <1>2, <1>3, <1>4, <1>5 DEF Next, Serve

\* The trio's own records are never rewritten: a commitment stays, a minted
\* row stays as it is, a consumption and a stored verdict stay.
LEMMA RecordsStay ==
  ASSUME IInv, [Next]_vars
  PROVE  /\ commitments \subseteq commitments'
         /\ \A jti \in Jtis : minted[jti] # None => minted'[jti] = minted[jti]
         /\ consumed \subseteq consumed'
         /\ entry_sets \subseteq entry_sets'
         /\ events \subseteq events'
         /\ \A k \in Keys :
              idempotency_keys[k] # None =>
                idempotency_keys'[k] = idempotency_keys[k]
<1>1. CASE \E h \in Handlers : CommitVerified(h)
  BY <1>1 DEF CommitVerified, KeyFree, StoreVerdict, IInv, TypeOK
<1>2. CASE \E h \in Handlers : CommitRejected(h)
  BY <1>2 DEF CommitRejected, KeyFree, StoreVerdict, IInv, TypeOK
<1>3. CASE \E m \in Minters : InsertToken(m)
  BY <1>3 DEF InsertToken, IInv, TypeOK, MintInv
<1>4. CASE \E cid \in Commitments : CreateCommitment(cid) \/ EndCommitment(cid)
  BY <1>4 DEF CreateCommitment, EndCommitment
<1>5. CASE \E r \in Reversers : CommitReverse(r)
  BY <1>5 DEF CommitReverse
<1>6. CASE UNCHANGED tables
  BY <1>6 DEF tables
<1> QED
  BY <1>1, <1>2, <1>3, <1>4, <1>5, <1>6, Writers

\* So a known claim stays known, with the same token.
LEMMA KnownStays ==
  ASSUME IInv, [Next]_vars, NEW c, Known(c)
  PROVE  Known(c)' /\ TokenOf(c)' = TokenOf(c) /\ Bounty(c)' = Bounty(c)
<1>1. c.jti \in Jtis
  BY KnownTypes
<1> QED
  BY <1>1, RecordsStay DEF Known, TokenOf, Bounty, CorOf

\* The checks of stage 1 are what makes a claim known.
LEMMA SignedIsKnown ==
  ASSUME IInv, NEW c \in Claims, SignatureChainOk(c)
  PROVE  Known(c)
<1>1. c.jti \in Jtis
  BY ClaimsAssumption
<1> QED
  BY <1>1 DEF SignatureChainOk, Known, TokenOf, IInv, TypeOK

\* A step that leaves a handler's own variables alone leaves its knowledge
\* true, whatever it writes to the tables.
LEMMA StandingStays ==
  ASSUME IInv, [Next]_vars, NEW g \in Handlers,
         pc'[g] = pc[g], claim'[g] = claim[g],
         key'[g] = key[g], outcome'[g] = outcome[g]
  PROVE  Standing(g)'
<1>1. Standing(g)
  BY DEF IInv, HandlerInv
<1>2. Known(claim[g]) => Known(claim[g])'
  <2>1. ASSUME Known(claim[g]) PROVE Known(claim[g])'
    <3>1. \A c : Known(c) => Known(c)'
      BY KnownStays
    <3> QED
      BY <2>1, <3>1 DEF Known, TokenOf
  <2> QED
    BY <2>1
<1>3. pc[g] # "idle" /\ idempotency_keys[key[g]] # None =>
        idempotency_keys'[key'[g]] = idempotency_keys[key[g]]
  BY <1>1, RecordsStay DEF Standing
<1>4. pc[g] = "mark" => idempotency_keys[key[g]] # None
  BY <1>1, NoneAssumption DEF Standing, Verdicts
<1>5. IsConsumed(claim[g].jti) => IsConsumed(claim[g].jti)'
  BY RecordsStay DEF IsConsumed
<1> QED
  BY <1>1, <1>2, <1>3, <1>4, <1>5 DEF Standing

\* What pipeline() has read stays true until verify() uses it.
LEMMA HandlerStep == IInv /\ [Next]_vars => HandlerInv'
<1> SUFFICES ASSUME IInv, [Next]_vars, NEW g \in Handlers
             PROVE  Standing(g)'
  BY DEF HandlerInv
<1> DEFINE Still == /\ pc'[g] = pc[g] /\ claim'[g] = claim[g]
                    /\ key'[g] = key[g] /\ outcome'[g] = outcome[g]
<1>1. Still => Standing(g)'
  BY StandingStays
<1>2. Standing(g) /\ TypeOK
  BY DEF IInv, HandlerInv
<1> USE DEF TypeOK, Goto, Decide, Reply, Conclude, tables, handlers
<1>3. ASSUME NEW h \in Handlers, h # g,
             Arrive(h) \/ Serve(h) \/ Deliver(h) \/ Crash(h)
      PROVE  Still
  BY <1>2, <1>3 DEF Serve, Arrive, Deliver, Crash, Forget, CheckReplay, CheckTerms,
     CheckApproval, CheckMonth, LockCounters, CommitVerified, CommitRejected,
     ClashOnClaimId, LoseRace, Converge, MarkCache
<1>4. CASE Arrive(g)
  BY <1>2, <1>4 DEF Arrive, Standing
<1>5. CASE CheckReplay(g)
  <2>1. claim[g] \in Claims /\ key[g] \in Keys
    BY <1>2, <1>5 DEF CheckReplay, Standing
  <2>2. SignatureChainOk(claim[g]) => Known(claim[g])
    BY <2>1, SignedIsKnown
  <2>3. Known(claim[g]) => Known(claim[g])'
    BY <1>5 DEF CheckReplay, Known, TokenOf
  <2> QED
    BY <1>2, <1>5, <2>1, <2>2, <2>3 DEF CheckReplay, Standing, Verdicts, Reasons
<1>6. CASE CheckTerms(g) \/ CheckApproval(g) \/ CheckMonth(g)
  <2>1. /\ claim[g] \in Claims /\ key[g] \in Keys /\ Known(claim[g])
    BY <1>2, <1>6 DEF CheckTerms, CheckApproval, CheckMonth, Standing
  <2>2. Known(claim[g])'
    BY <1>6, <2>1 DEF CheckTerms, CheckApproval, CheckMonth, Known, TokenOf
  <2>3. CASE CheckTerms(g)
    BY <1>2, <2>1, <2>2, <2>3
    DEF CheckTerms, TermsStage, Standing, Verdicts, Reasons
  <2>4. CASE CheckApproval(g)
    BY <1>2, <2>1, <2>2, <2>4
    DEF CheckApproval, ApprovalStage, Standing, Verdicts, Reasons
  <2>5. CASE CheckMonth(g)
    BY <1>2, <2>1, <2>2, <2>5
    DEF CheckMonth, Standing, Verdicts, Reasons
  <2> QED
    BY <1>6, <2>3, <2>4, <2>5
<1>7. CASE LockCounters(g)
  <2>1. /\ claim[g] \in Claims /\ key[g] \in Keys /\ Known(claim[g])
    BY <1>2, <1>7 DEF LockCounters, Standing
  <2>2. Known(claim[g])'
    BY <1>7, <2>1 DEF LockCounters, Known, TokenOf
  <2> QED
    BY <1>2, <1>7, <2>1, <2>2 DEF LockCounters, Standing, Verdicts, Reasons
<1>8. CASE CommitVerified(g)
  <2>1. /\ claim[g] \in Claims /\ key[g] \in Keys /\ Known(claim[g])
    BY <1>2, <1>8 DEF CommitVerified, FinalVerdict, Standing
  <2>2. Known(claim[g])'
    BY <1>8, <2>1 DEF CommitVerified, Known, TokenOf
  <2>3. IsConsumed(claim[g].jti)'
    <3>1. ConsumptionOf(claim[g]) \in consumed' /\ claim'[g] = claim[g]
      BY <1>8 DEF CommitVerified
    <3>2. ConsumptionOf(claim[g]).jti = claim[g].jti
      BY DEF ConsumptionOf
    <3> QED
      BY <3>1, <3>2 DEF IsConsumed
  <2>4. idempotency_keys'[key[g]] = [claim |-> claim[g], verdict |-> "verified"]
    <3>1. StoreVerdict(g, "verified")
      BY <1>8 DEF CommitVerified
    <3>2. key[g] \in DOMAIN idempotency_keys
      BY <1>2, <2>1
    <3> QED
      BY <3>1, <3>2 DEF StoreVerdict
  <2> QED
    BY <1>2, <1>8, <2>1, <2>2, <2>3, <2>4 DEF CommitVerified, Standing
<1>9. CASE CommitRejected(g) \/ ClashOnClaimId(g) \/ Converge(g) \/ MarkCache(g)
  BY <1>2, <1>9
  DEF CommitRejected, ClashOnClaimId, Converge, MarkCache, Standing
<1>10. CASE LoseRace(g)
  BY <1>2, <1>10 DEF LoseRace, KeyFree, Standing
<1>11. CASE Deliver(g) \/ Crash(g)
  BY <1>2, <1>11 DEF Deliver, Crash, Forget, Standing
<1>12. CASE \E h \in Handlers : Arrive(h) \/ Serve(h) \/ Deliver(h) \/ Crash(h)
  BY <1>1, <1>3, <1>4, <1>5, <1>6, <1>7, <1>8, <1>9, <1>10, <1>11, <1>12
  DEF Serve
<1>13. ASSUME NEW cid \in Commitments,
              CreateCommitment(cid) \/ EndCommitment(cid)
       PROVE  Still
  BY <1>13 DEF CreateCommitment, EndCommitment
<1>14. ASSUME NEW m \in Minters, CheckMint(m) \/ InsertToken(m) \/ AbandonMint(m)
       PROVE  Still
  BY <1>14 DEF CheckMint, InsertToken, AbandonMint
<1>15. ASSUME NEW r \in Reversers,
              CheckReverse(r) \/ CommitReverse(r) \/ AbandonReverse(r)
       PROVE  Still
  BY <1>15 DEF CheckReverse, CommitReverse, AbandonReverse
<1>16. ASSUME NEW m \in Mandates, RevokeMandate(m) PROVE Still
  BY <1>16 DEF RevokeMandate
<1>17. Tick \/ UNCHANGED vars => Still
  BY DEF Tick, vars
<1> QED
  BY <1>1, <1>12, <1>13, <1>14, <1>15, <1>16, <1>17 DEF Next

-----------------------------------------------------------------------------
(***************************************************************************)
(* The counters row lock.                                                  *)
(***************************************************************************)

\* While a handler sits between the locking read and its commit, the lock
\* stays its own and the counters of its commitment stay as it read them.
LEMMA CountersGuarded ==
  ASSUME IInv, [Next]_vars, NEW g \in Handlers, NEW cid,
         pc[g] = "commit", outcome[g] = "verified",
         cid = TokenOf(claim[g]).cid,
         pc'[g] = "commit"
  PROVE  /\ claim'[g] = claim[g]
         /\ lock'[cid] = g
         /\ conversions_used'[cid] = conversions_used[cid]
         /\ budget_remaining'[cid] = budget_remaining[cid]
<1>1. /\ TypeOK
      /\ lock[cid] = g
      /\ Known(claim[g])
      /\ cid \in Commitments
      /\ cid \in commitments
  <2>1. Known(claim[g])
    BY DEF IInv, HandlerInv, Standing
  <2> QED
    BY <2>1, KnownTypes DEF IInv, LockInv, Known
<1> USE DEF TypeOK, Goto, Decide, Reply, Conclude, tables, handlers
<1>2. ASSUME NEW h \in Handlers, Arrive(h) \/ CheckReplay(h) \/ CheckTerms(h)
               \/ CheckApproval(h) \/ CheckMonth(h) \/ Converge(h)
               \/ MarkCache(h) \/ Deliver(h)
      PROVE  h # g /\ claim'[g] = claim[g]
             /\ UNCHANGED <<lock, conversions_used, budget_remaining>>
  BY <1>1, <1>2 DEF Arrive, CheckReplay, CheckTerms, CheckApproval, CheckMonth,
     Converge, MarkCache, Deliver, Forget
<1>3. ASSUME NEW h \in Handlers, LockCounters(h)
      PROVE  claim'[g] = claim[g] /\ lock'[cid] = g
             /\ UNCHANGED <<conversions_used, budget_remaining>>
  <2>1. lock[TokenOf(claim[h]).cid] = None
    BY <1>3 DEF LockCounters
  <2>2. TokenOf(claim[h]).cid # cid
    BY <2>1, <1>1, NoneAssumption
  <2> QED
    BY <1>1, <1>3, <2>2 DEF LockCounters
<1>4. ASSUME NEW h \in Handlers,
             CommitRejected(h) \/ ClashOnClaimId(h) \/ LoseRace(h) \/ Crash(h)
      PROVE  claim'[g] = claim[g] /\ lock'[cid] = g
             /\ UNCHANGED <<conversions_used, budget_remaining>>
  <2>1. h # g
    BY <1>1, <1>4 DEF CommitRejected, ClashOnClaimId, LoseRace, Crash, Forget
  <2> QED
    BY <1>1, <1>4, <2>1
    DEF CommitRejected, ClashOnClaimId, LoseRace, Crash, Forget, Unlocked
<1>5. ASSUME NEW h \in Handlers, CommitVerified(h)
      PROVE  claim'[g] = claim[g] /\ lock'[cid] = g
             /\ conversions_used'[cid] = conversions_used[cid]
             /\ budget_remaining'[cid] = budget_remaining[cid]
  <2>1. h # g
    BY <1>1, <1>5 DEF CommitVerified
  <2>2. pc[h] = "commit" /\ outcome[h] = "verified"
    BY <1>5 DEF CommitVerified, FinalVerdict
  <2>3. lock[TokenOf(claim[h]).cid] = h
    BY <2>2 DEF IInv, LockInv
  <2>4. TokenOf(claim[h]).cid # cid
    BY <2>1, <2>3, <1>1
  <2>5. claim'[g] = claim[g] /\ lock'[cid] = g
    BY <1>1, <1>5, <2>1 DEF CommitVerified, Unlocked
  <2> QED
    BY <1>1, <1>5, <2>4, <2>5 DEF CommitVerified, ApplyCounters
<1>6. ASSUME NEW d \in Commitments, CreateCommitment(d) \/ EndCommitment(d)
      PROVE  claim'[g] = claim[g] /\ lock'[cid] = g
             /\ conversions_used'[cid] = conversions_used[cid]
             /\ budget_remaining'[cid] = budget_remaining[cid]
  BY <1>1, <1>6 DEF CreateCommitment, EndCommitment
<1>7. ASSUME NEW r \in Reversers, CommitReverse(r)
      PROVE  claim'[g] = claim[g] /\ lock'[cid] = g
             /\ conversions_used'[cid] = conversions_used[cid]
             /\ budget_remaining'[cid] = budget_remaining[cid]
  <2> DEFINE d == minted[ConversionOf(reversing[r]).jti].cid
  <2>1. lock[d] = None
    BY <1>7 DEF CommitReverse
  <2>2. d # cid
    BY <2>1, <1>1, NoneAssumption
  <2>3. conversions_used' =
          [conversions_used EXCEPT ![d] = IF @ > 0 THEN @ - 1 ELSE @]
    BY <1>7 DEF CommitReverse, FreeConversionCap
  <2> HIDE DEF d
  <2>4. conversions_used'[cid] = conversions_used[cid]
    BY <1>1, <2>2, <2>3
  <2> QED
    BY <1>1, <1>7, <2>4 DEF CommitReverse
<1>8. CASE \/ \E m \in Minters : CheckMint(m) \/ InsertToken(m) \/ AbandonMint(m)
           \/ \E r \in Reversers : CheckReverse(r) \/ AbandonReverse(r)
           \/ \E m \in Mandates : RevokeMandate(m)
           \/ Tick
           \/ UNCHANGED vars
  BY <1>1, <1>8 DEF CheckMint, InsertToken, AbandonMint, CheckReverse,
     AbandonReverse, RevokeMandate, Tick, vars
<1> QED
  BY <1>1, <1>2, <1>3, <1>4, <1>5, <1>6, <1>7, <1>8 DEF Next, Serve

\* A transaction that stays open keeps the outcome it came with.
LEMMA OutcomeFixed ==
  ASSUME IInv, [Next]_vars, NEW g \in Handlers,
         pc[g] = "commit", pc'[g] = "commit"
  PROVE  outcome'[g] = outcome[g]
<1>1. TypeOK
  BY DEF IInv
<1> USE DEF TypeOK, Goto, Decide, Reply, Conclude, tables, handlers
<1>2. ASSUME NEW h \in Handlers, Arrive(h) \/ CheckReplay(h) \/ CheckTerms(h)
               \/ CheckApproval(h) \/ CheckMonth(h) \/ Converge(h)
               \/ MarkCache(h) \/ Deliver(h)
      PROVE  outcome'[g] = outcome[g]
  BY <1>1, <1>2 DEF Arrive, CheckReplay, CheckTerms, CheckApproval, CheckMonth,
     Converge, MarkCache, Deliver, Forget
<1>3. ASSUME NEW h \in Handlers, LockCounters(h) PROVE outcome'[g] = outcome[g]
  BY <1>1, <1>3 DEF LockCounters
<1>4. ASSUME NEW h \in Handlers,
             CommitVerified(h) \/ CommitRejected(h) \/ ClashOnClaimId(h)
               \/ LoseRace(h) \/ Crash(h)
      PROVE  outcome'[g] = outcome[g]
  BY <1>1, <1>4 DEF CommitVerified, CommitRejected, ClashOnClaimId, LoseRace,
     Crash, Forget
<1>5. ASSUME NEW d \in Commitments, CreateCommitment(d) \/ EndCommitment(d)
      PROVE  outcome' = outcome
  BY <1>5 DEF CreateCommitment, EndCommitment
<1>6. ASSUME NEW m \in Minters, CheckMint(m) \/ InsertToken(m) \/ AbandonMint(m)
      PROVE  outcome' = outcome
  BY <1>6 DEF CheckMint, InsertToken, AbandonMint
<1>7. ASSUME NEW r \in Reversers,
             CheckReverse(r) \/ CommitReverse(r) \/ AbandonReverse(r)
      PROVE  outcome' = outcome
  BY <1>7 DEF CheckReverse, CommitReverse, AbandonReverse
<1>8. ASSUME NEW m \in Mandates, RevokeMandate(m) PROVE outcome' = outcome
  BY <1>8 DEF RevokeMandate
<1>9. Tick \/ UNCHANGED vars => outcome' = outcome
  BY DEF Tick, vars
<1> QED
  BY <1>2, <1>3, <1>4, <1>5, <1>6, <1>7, <1>8, <1>9 DEF Next, Serve

\* The FOR UPDATE lock makes the second cap and budget check hold up to COMMIT.
LEMMA LockStep == IInv /\ [Next]_vars => LockInv'
<1> SUFFICES ASSUME IInv, [Next]_vars, NEW g \in Handlers,
                    pc'[g] = "commit", outcome'[g] = "verified"
             PROVE  /\ lock'[TokenOf(claim[g])'.cid] = g
                    /\ ~CapReached(TokenOf(claim[g]).cid)'
                    /\ ~BudgetShort(TokenOf(claim[g]).cid, Bounty(claim[g]))'
  BY DEF LockInv
<1>1. CASE pc[g] = "commit"
  <2> DEFINE cid == TokenOf(claim[g]).cid
  <2>1. outcome[g] = "verified"
    BY <1>1, OutcomeFixed
  <2>2. Known(claim[g]) /\ cid \in Commitments
    <3>1. Known(claim[g])
      BY <1>1, <2>1 DEF IInv, HandlerInv, Standing
    <3> QED
      BY <3>1, KnownTypes
  <2>3. /\ claim'[g] = claim[g]
        /\ lock'[cid] = g
        /\ conversions_used'[cid] = conversions_used[cid]
        /\ budget_remaining'[cid] = budget_remaining[cid]
    BY <1>1, <2>1, CountersGuarded
  <2>4. \A c : Known(c) => TokenOf(c)' = TokenOf(c) /\ Bounty(c)' = Bounty(c)
    BY KnownStays
  <2>5. /\ TokenOf(claim[g])' = TokenOf(claim[g])
        /\ Bounty(claim[g])' = Bounty(claim[g])
    BY <2>2, <2>3, <2>4 DEF TokenOf, Bounty, CorOf
  <2>6. ~CapReached(cid) /\ ~BudgetShort(cid, Bounty(claim[g]))
    BY <1>1, <2>1 DEF IInv, LockInv
  <2> QED
    BY <2>3, <2>5, <2>6 DEF CapReached, BudgetShort
<1>2. CASE pc[g] # "commit"
  <2> USE DEF TypeOK, Goto, Decide, Reply, Conclude, tables, handlers
  <2>1. LockCounters(g)
    <3>1. ~(\E h \in Handlers : h # g /\ pc'[g] # pc[g] /\
               (Arrive(h) \/ Serve(h) \/ Deliver(h) \/ Crash(h)))
      BY DEF IInv, Serve, Arrive, Deliver, Crash, Forget, CheckReplay,
         CheckTerms, CheckApproval, CheckMonth, LockCounters, CommitVerified,
         CommitRejected, ClashOnClaimId, LoseRace, Converge, MarkCache
    <3>2. ~(Arrive(g) \/ Deliver(g) \/ Crash(g) \/ CheckReplay(g) \/ CheckTerms(g)
            \/ CheckApproval(g) \/ CheckMonth(g) \/ CommitVerified(g)
            \/ CommitRejected(g) \/ ClashOnClaimId(g) \/ LoseRace(g)
            \/ Converge(g) \/ MarkCache(g))
      BY <1>2, SMTT(30) DEF IInv, Arrive, Deliver, Crash, Forget, CheckReplay,
         CheckTerms, TermsStage, CheckApproval, ApprovalStage, CheckMonth,
         CommitVerified, CommitRejected, ClashOnClaimId, LoseRace, Converge,
         MarkCache
    <3> QED
      BY <1>2, <3>1, <3>2 DEF Next, Serve, CreateCommitment, EndCommitment,
         CheckMint, InsertToken, AbandonMint, CheckReverse, CommitReverse,
         AbandonReverse, RevokeMandate, Tick, vars
  <2>2. /\ claim' = claim /\ minted' = minted
        /\ conversions_used' = conversions_used
        /\ budget_remaining' = budget_remaining
    BY <2>1 DEF LockCounters
  <2>3. Known(claim[g])
    BY <2>1 DEF LockCounters, IInv, HandlerInv, Standing
  <2>4. TokenOf(claim[g]).cid \in Commitments
    BY <2>3, KnownTypes
  <2>5. lock'[TokenOf(claim[g]).cid] = g
    BY <2>1, <2>4 DEF LockCounters, IInv
  <2>6. ~CapReached(TokenOf(claim[g]).cid)
        /\ ~BudgetShort(TokenOf(claim[g]).cid, Bounty(claim[g]))
    BY <2>1 DEF LockCounters, IInv
  <2> QED
    BY <2>2, <2>5, <2>6 DEF TokenOf, CapReached, BudgetShort, Bounty, CorOf
<1> QED
  BY <1>1, <1>2

-----------------------------------------------------------------------------
(***************************************************************************)
(* Mints, records and single use.                                          *)
(***************************************************************************)

\* mint() never reuses a token id and only ever mints on a stored commitment.
LEMMA MintStep == IInv /\ [Next]_vars => MintInv'
<1> SUFFICES ASSUME IInv, [Next]_vars PROVE MintInv'
  OBVIOUS
<1>1. MintInv /\ TypeOK
  BY DEF IInv
<1> USE DEF MintInv, TypeOK, tables, handlers
<1>2. commitments \subseteq commitments'
  BY RecordsStay
<1>3. ASSUME NEW m \in Minters, CheckMint(m) PROVE MintInv'
  <2>1. PICK request \in MintRequests :
          /\ IsLive(request.cid)
          /\ FreshJti(request.jti)
          /\ minting' = [minting EXCEPT ![m] =
               [jti |-> request.jti, cid |-> request.cid, qid |-> request.qid,
                tier |-> request.tier, iat |-> now,
                quote_expires_at |-> request.expires_at,
                mandate_ref |-> request.mandate_ref, apr |-> request.apr]]
    BY <1>3 DEF CheckMint
  <2>2. minted' = minted /\ commitments' = commitments
    BY <1>3 DEF CheckMint
  <2>3. minting'[m] \in MintRows /\ minting'[m].cid \in commitments
    BY <1>1, <2>1, MintAssumption DEF MintRows, IsLive
  <2>4. /\ minting'[m].jti = request.jti
        /\ \A n \in Minters : n # m => minting'[n] = minting[n]
    BY <1>1, <2>1
  <2> QED
    BY <1>1, <2>1, <2>2, <2>3, <2>4, SMTT(30) DEF FreshJti
<1>4. ASSUME NEW m \in Minters, InsertToken(m) PROVE MintInv'
  <2> DEFINE jti == minting[m].jti
  <2>1. /\ minting[m] # None /\ minting[m] \in MintRows
        /\ jti \in Jtis /\ minting[m].cid \in commitments
    BY <1>1, <1>4 DEF InsertToken, MintRows
  <2>2. /\ minted' = [minted EXCEPT ![jti] = minting[m]]
        /\ minting' = [minting EXCEPT ![m] = None]
        /\ commitments' = commitments
    BY <1>4 DEF InsertToken
  <2>3. \A n \in Minters : n # m => minting'[n] = minting[n]
    BY <1>1, <2>2
  <2>4. minting'[m] = None
    BY <1>1, <2>2
  <2>5. \A j \in Jtis : j # jti => minted'[j] = minted[j]
    BY <1>1, <2>2
  <2>6. \A n \in Minters : n # m /\ minting[n] # None =>
          minting[n].jti \in Jtis /\ minting[n].jti # jti
    BY <1>1, <2>1 DEF MintRows
  <2>7. \A j \in Jtis : minted'[j] # None => minted'[j].cid \in commitments
    BY <1>1, <2>1, <2>2
  <2> HIDE DEF jti
  <2> QED
    BY <1>1, <2>2, <2>3, <2>4, <2>5, <2>6, <2>7
<1>5. ASSUME NEW m \in Minters, AbandonMint(m) PROVE MintInv'
  BY <1>1, <1>5 DEF AbandonMint
<1>6. CASE UNCHANGED <<minting, minted>>
  BY <1>1, <1>2, <1>6
<1>7. ASSUME NEW h \in Handlers, Arrive(h) \/ Serve(h) \/ Deliver(h) \/ Crash(h)
      PROVE  UNCHANGED <<minting, minted>>
  BY <1>7 DEF Serve, Arrive, Deliver, Crash, Forget, CheckReplay, CheckTerms,
     CheckApproval, CheckMonth, LockCounters, CommitVerified, CommitRejected,
     ClashOnClaimId, LoseRace, Converge, MarkCache
<1>8. ASSUME NEW cid \in Commitments, CreateCommitment(cid) \/ EndCommitment(cid)
      PROVE  UNCHANGED <<minting, minted>>
  BY <1>8 DEF CreateCommitment, EndCommitment
<1>9. ASSUME NEW r \in Reversers,
             CheckReverse(r) \/ CommitReverse(r) \/ AbandonReverse(r)
      PROVE  UNCHANGED <<minting, minted>>
  BY <1>9 DEF CheckReverse, CommitReverse, AbandonReverse
<1>10. ASSUME NEW m \in Mandates, RevokeMandate(m)
       PROVE  UNCHANGED <<minting, minted>>
  BY <1>10 DEF RevokeMandate
<1>11. Tick \/ UNCHANGED vars => UNCHANGED <<minting, minted>>
  BY DEF Tick, vars
<1> QED
  BY <1>3, <1>4, <1>5, <1>6, <1>7, <1>8, <1>9, <1>10, <1>11 DEF Next

\* What is new when a verdict transaction commits a conversion: a row of an
\* unused token, quote and claim id.
LEMMA NewConversion ==
  ASSUME IInv, NEW h \in Handlers, CommitVerified(h)
  PROVE  /\ Known(claim[h])
         /\ pc[h] = "commit" /\ outcome[h] = "verified"
         /\ consumed' = consumed \cup {ConsumptionOf(claim[h])}
         /\ entry_sets' = entry_sets \cup {EntrySetOf(claim[h])}
         /\ minted' = minted /\ commitments' = commitments
         /\ reversing' = reversing
         /\ \A row \in consumed :
              /\ row.jti # claim[h].jti
              /\ row.qid # TokenOf(claim[h]).qid
              /\ row.claim_id # claim[h].claim_id
         /\ ~HasSet("rev", claim[h].claim_id)
<1>1. /\ pc[h] = "commit" /\ outcome[h] = "verified"
      /\ CanConsume(claim[h].jti)
      /\ ~HasSet("set", claim[h].claim_id)
      /\ consumed' = consumed \cup {ConsumptionOf(claim[h])}
      /\ entry_sets' = entry_sets \cup {EntrySetOf(claim[h])}
      /\ minted' = minted /\ commitments' = commitments
      /\ reversing' = reversing
  BY DEF CommitVerified, FinalVerdict
<1>2. Known(claim[h])
  BY <1>1 DEF IInv, HandlerInv, Standing
<1>3. \A row \in consumed : row.claim_id # claim[h].claim_id
  BY <1>1 DEF IInv, RecordInv
<1>4. ~HasSet("rev", claim[h].claim_id)
  BY <1>3 DEF IInv, RecordInv, HasSet
<1> QED
  BY <1>1, <1>2, <1>3, <1>4 DEF CanConsume, TokenOf

\* A conversion, its entry set and its reversal keep referring to one another.
LEMMA RecordStep == IInv /\ [Next]_vars => RecordInv'
<1> SUFFICES ASSUME IInv, [Next]_vars PROVE RecordInv'
  OBVIOUS
<1>1. RecordInv /\ TypeOK
  BY DEF IInv
<1>2. ASSUME NEW row \in consumed
      PROVE  /\ minted'[row.jti] = minted[row.jti]
             /\ minted'[row.jti] # None
             /\ minted'[row.jti] \in MintRows
             /\ minted'[row.jti].cid \in commitments'
             /\ row.qid = minted'[row.jti].qid
             /\ HasSet("set", row.claim_id)'
  <2>1. row.jti \in Jtis
    BY <1>1 DEF TypeOK
  <2>2. minted[row.jti] # None
    BY <1>1 DEF RecordInv
  <2>3. minted'[row.jti] = minted[row.jti]
    BY <2>1, <2>2, RecordsStay
  <2>4. HasSet("set", row.claim_id)'
    BY <1>1, RecordsStay DEF RecordInv, HasSet
  <2> QED
    BY <1>1, <2>3, <2>4, RecordsStay DEF RecordInv
<1>3. consumed \subseteq consumed'
  BY RecordsStay
<1>4. CASE UNCHANGED <<consumed, entry_sets>>
  <2> DEFINE Aimed == \A r \in Reversers :
                        reversing'[r] # None =>
                          \E row \in consumed : row.claim_id = reversing'[r]
  <2>1. Aimed
    <3>1. CASE reversing' = reversing
      BY <1>1, <3>1 DEF RecordInv
    <3>2. ASSUME NEW r \in Reversers, CheckReverse(r) \/ AbandonReverse(r)
          PROVE  Aimed
      BY <1>1, <3>2 DEF CheckReverse, AbandonReverse, RecordInv, TypeOK
    <3>3. ASSUME NEW r \in Reversers, CommitReverse(r) PROVE Aimed
      BY <1>1, <3>3 DEF CommitReverse, RecordInv, TypeOK
    <3>4. ASSUME NEW h \in Handlers,
                 Arrive(h) \/ Serve(h) \/ Deliver(h) \/ Crash(h)
          PROVE  reversing' = reversing
      BY <3>4 DEF Serve, Arrive, Deliver, Crash, Forget, CheckReplay,
         CheckTerms, CheckApproval, CheckMonth, LockCounters, CommitVerified,
         CommitRejected, ClashOnClaimId, LoseRace, Converge, MarkCache
    <3>5. ASSUME NEW cid \in Commitments,
                 CreateCommitment(cid) \/ EndCommitment(cid)
          PROVE  reversing' = reversing
      BY <3>5 DEF CreateCommitment, EndCommitment
    <3>6. ASSUME NEW m \in Minters,
                 CheckMint(m) \/ InsertToken(m) \/ AbandonMint(m)
          PROVE  reversing' = reversing
      BY <3>6 DEF CheckMint, InsertToken, AbandonMint
    <3>7. ASSUME NEW m \in Mandates, RevokeMandate(m)
          PROVE  reversing' = reversing
      BY <3>7 DEF RevokeMandate
    <3>8. Tick \/ UNCHANGED vars => reversing' = reversing
      BY DEF Tick, vars
    <3> QED
      BY <3>1, <3>2, <3>3, <3>4, <3>5, <3>6, <3>7, <3>8 DEF Next
  <2> QED
    BY <1>1, <1>2, <1>4, <2>1 DEF RecordInv
<1>5. ASSUME NEW h \in Handlers, CommitVerified(h) PROVE RecordInv'
  <2> DEFINE c == claim[h]
             n == ConsumptionOf(claim[h])
  <2>1. /\ Known(c)
        /\ consumed' = consumed \cup {n}
        /\ entry_sets' = entry_sets \cup {EntrySetOf(c)}
        /\ minted' = minted /\ commitments' = commitments
        /\ reversing' = reversing
    BY <1>5, NewConversion
  <2>2. n.jti = c.jti /\ n.qid = TokenOf(c).qid /\ n.claim_id = c.claim_id
    BY DEF ConsumptionOf
  <2>3. /\ EntrySetOf(c).kind = "set" /\ EntrySetOf(c).claim_id = c.claim_id
    BY DEF EntrySetOf
  <2>4. IsFiniteSet(consumed')
    BY <1>1, <2>1, FS_AddElement DEF RecordInv
  <2>5. /\ minted'[n.jti] # None
        /\ minted'[n.jti] \in MintRows
        /\ minted'[n.jti].cid \in commitments'
        /\ n.qid = minted'[n.jti].qid
    BY <2>1, <2>2 DEF Known, TokenOf
  <2>6. \E set \in entry_sets' : set.kind = "set" /\ set.claim_id = n.claim_id
    BY <2>1, <2>2, <2>3
  <2> HIDE DEF c, n
  <2>7. \A set \in entry_sets' : \E row \in consumed' : row.claim_id = set.claim_id
    BY <1>1, <2>1, <2>2, <2>3 DEF RecordInv
  <2>8. \A row \in consumed' :
          /\ minted'[row.jti] # None
          /\ minted'[row.jti] \in MintRows
          /\ minted'[row.jti].cid \in commitments'
          /\ row.qid = minted'[row.jti].qid
          /\ HasSet("set", row.claim_id)'
    BY <1>2, <2>1, <2>5, <2>6 DEF HasSet
  <2>9. \A r \in Reversers :
          reversing'[r] # None =>
            \E row \in consumed' : row.claim_id = reversing'[r]
    BY <1>1, <2>1 DEF RecordInv
  <2> QED
    BY <2>4, <2>7, <2>8, <2>9 DEF RecordInv
<1>6. ASSUME NEW r \in Reversers, CommitReverse(r) PROVE RecordInv'
  <2>1. /\ reversing[r] # None
        /\ consumed' = consumed
        /\ entry_sets' = entry_sets \cup {ReversalSetOf(reversing[r])}
        /\ reversing' = [reversing EXCEPT ![r] = None]
    BY <1>6 DEF CommitReverse
  <2>2. ReversalSetOf(reversing[r]).claim_id = reversing[r]
    BY DEF ReversalSetOf
  <2>3. \A set \in entry_sets' : \E row \in consumed' : row.claim_id = set.claim_id
    BY <1>1, <2>1, <2>2 DEF RecordInv
  <2>4. \A q \in Reversers :
          reversing'[q] # None =>
            \E row \in consumed' : row.claim_id = reversing'[q]
    BY <1>1, <2>1 DEF RecordInv, TypeOK
  <2> QED
    BY <1>1, <1>2, <2>1, <2>3, <2>4 DEF RecordInv
<1>7. CASE UNCHANGED tables
  BY <1>4, <1>7 DEF tables
<1>8. ASSUME NEW h \in Handlers, CommitRejected(h) PROVE RecordInv'
  BY <1>4, <1>8 DEF CommitRejected
<1>9. ASSUME NEW m \in Minters, InsertToken(m) PROVE RecordInv'
  BY <1>4, <1>9 DEF InsertToken
<1>10. ASSUME NEW cid \in Commitments, CreateCommitment(cid) \/ EndCommitment(cid)
       PROVE  RecordInv'
  BY <1>4, <1>10 DEF CreateCommitment, EndCommitment
<1> QED
  BY <1>5, <1>6, <1>7, <1>8, <1>9, <1>10, Writers

\* consumeToken's unique indexes and the entry_sets key keep every row unique.
LEMMA SingleUseStep == IInv /\ [Next]_vars => SingleUse'
<1> SUFFICES ASSUME IInv, [Next]_vars PROVE SingleUse'
  OBVIOUS
<1>1. CASE consumed' = consumed
  BY <1>1 DEF IInv, SingleUse
<1>2. ASSUME NEW h \in Handlers, CommitVerified(h) PROVE SingleUse'
  <2> DEFINE n == ConsumptionOf(claim[h])
  <2>1. /\ consumed' = consumed \cup {n}
        /\ \A row \in consumed :
              /\ row.jti # claim[h].jti
              /\ row.qid # TokenOf(claim[h]).qid
              /\ row.claim_id # claim[h].claim_id
    BY <1>2, NewConversion
  <2>2. /\ n.jti = claim[h].jti /\ n.qid = TokenOf(claim[h]).qid
        /\ n.claim_id = claim[h].claim_id
    BY DEF ConsumptionOf
  <2> HIDE DEF n
  <2> QED
    BY <2>1, <2>2 DEF IInv, SingleUse
<1> QED
  BY <1>1, <1>2, Writers DEF tables, CommitRejected, InsertToken,
     CreateCommitment, EndCommitment, CommitReverse

-----------------------------------------------------------------------------
(***************************************************************************)
(* The cap.                                                                *)
(***************************************************************************)

\* A consumption keeps its commitment, so with the consumptions and the
\* reversals unchanged the live conversions are the same.
LEMMA LiveUnchanged ==
  ASSUME IInv, [Next]_vars, UNCHANGED <<consumed, entry_sets>>
  PROVE  \A cid \in Commitments : LiveConversions(cid)' = LiveConversions(cid)
<1>1. \A row \in consumed : minted'[row.jti] = minted[row.jti]
  BY RecordsStay DEF IInv, RecordInv, TypeOK
<1> QED
  BY <1>1 DEF LiveConversions, ConversionsOf, Reversed, HasSet

\* A new conversion is one more live conversion of its commitment.
LEMMA LiveGrows ==
  ASSUME IInv, [Next]_vars, NEW h \in Handlers, CommitVerified(h),
         NEW cid \in Commitments
  PROVE  LiveConversions(cid)' =
           IF cid = TokenOf(claim[h]).cid
           THEN LiveConversions(cid) \cup {ConsumptionOf(claim[h])}
           ELSE LiveConversions(cid)
<1> DEFINE c == claim[h]
           n == ConsumptionOf(claim[h])
<1>1. /\ Known(c)
      /\ consumed' = consumed \cup {n}
      /\ entry_sets' = entry_sets \cup {EntrySetOf(c)}
      /\ minted' = minted
      /\ ~HasSet("rev", c.claim_id)
  BY NewConversion
<1>2. n.jti = c.jti /\ n.claim_id = c.claim_id
  BY DEF ConsumptionOf
<1>3. \A id : HasSet("rev", id)' <=> HasSet("rev", id)
  BY <1>1 DEF HasSet, EntrySetOf
<1>4. minted[n.jti].cid = TokenOf(c).cid
  BY <1>2 DEF TokenOf
<1> HIDE DEF c, n
<1>5. ConversionsOf(cid)' =
        IF cid = TokenOf(c).cid THEN ConversionsOf(cid) \cup {n}
        ELSE ConversionsOf(cid)
  BY <1>1, <1>4 DEF ConversionsOf
<1>6. \A row : Reversed(row.claim_id)' <=> Reversed(row.claim_id)
  BY <1>3 DEF Reversed
<1>7. ~Reversed(n.claim_id)
  BY <1>1, <1>2 DEF Reversed
<1> QED
  BY <1>5, <1>6, <1>7 DEF LiveConversions, c, n

\* A reversal takes exactly one live conversion away, from its commitment.
LEMMA LiveShrinks ==
  ASSUME IInv, [Next]_vars, NEW r \in Reversers, CommitReverse(r),
         NEW cid \in Commitments
  PROVE  LET row == ConversionOf(reversing[r])
         IN  /\ row \in consumed
             /\ minted[row.jti].cid \in Commitments
             /\ row \in LiveConversions(minted[row.jti].cid)
             /\ LiveConversions(cid)' =
                  IF cid = minted[row.jti].cid
                  THEN LiveConversions(cid) \ {row}
                  ELSE LiveConversions(cid)
<1> DEFINE id == reversing[r]
           row == ConversionOf(id)
<1>1. /\ id # None
      /\ ~HasSet("rev", id)
      /\ entry_sets' = entry_sets \cup {ReversalSetOf(id)}
      /\ minted' = minted /\ consumed' = consumed
  BY DEF CommitReverse
<1>2. row \in consumed /\ row.claim_id = id
  <2>1. \E x \in consumed : x.claim_id = id
    BY <1>1 DEF IInv, RecordInv
  <2> QED
    BY <2>1 DEF ConversionOf
<1>3. \A x \in consumed : x.claim_id = id => x = row
  BY <1>2 DEF IInv, SingleUse
<1>4. minted[row.jti].cid \in Commitments
  BY <1>2 DEF IInv, RecordInv, MintRows
<1>5. ReversalSetOf(id).kind = "rev" /\ ReversalSetOf(id).claim_id = id
  BY DEF ReversalSetOf
<1> HIDE DEF id, row
<1>6. \A x : HasSet("rev", x)' <=> HasSet("rev", x) \/ x = id
  BY <1>1, <1>5 DEF HasSet
<1>7. \A x : Reversed(x)' <=> Reversed(x) \/ x = id
  BY <1>6 DEF Reversed
<1>8. ConversionsOf(cid)' = ConversionsOf(cid)
  BY <1>1 DEF ConversionsOf
<1>9. row \in ConversionsOf(minted[row.jti].cid) /\ ~Reversed(row.claim_id)
  BY <1>1, <1>2 DEF ConversionsOf, Reversed
<1>10. LiveConversions(cid)' = LiveConversions(cid) \ {row}
  BY <1>2, <1>3, <1>7, <1>8 DEF LiveConversions, ConversionsOf
<1>11. cid # minted[row.jti].cid => row \notin LiveConversions(cid)
  BY DEF LiveConversions, ConversionsOf
<1> QED
  BY <1>2, <1>4, <1>9, <1>10, <1>11 DEF LiveConversions, id, row

\* There are finitely many conversions to count.
LEMMA LiveFinite ==
  ASSUME IInv, NEW cid \in Commitments
  PROVE  /\ IsFiniteSet(LiveConversions(cid))
         /\ Cardinality(LiveConversions(cid)) \in Nat
<1>1. IsFiniteSet(consumed)
  BY DEF IInv, RecordInv
<1>2. LiveConversions(cid) \subseteq consumed
  BY DEF LiveConversions, ConversionsOf
<1>3. IsFiniteSet(LiveConversions(cid))
  BY <1>1, <1>2, FS_Subset
<1> QED
  BY <1>3, FS_CardinalityType

\* The counter follows the live conversions through every verdict and reversal.
LEMMA CapStep == IInv /\ [Next]_vars => CapEq' /\ CapBound'
<1> SUFFICES ASSUME IInv, [Next]_vars, NEW d \in Commitments
             PROVE  /\ conversions_used'[d] = Cardinality(LiveConversions(d)')
                    /\ Cor[d].max_conversions # None =>
                         conversions_used'[d] <= Cor[d].max_conversions
  BY DEF CapEq, CapBound
<1>1. /\ conversions_used \in [Commitments -> Nat]
      /\ conversions_used[d] = Cardinality(LiveConversions(d))
      /\ Cor[d].max_conversions # None =>
           conversions_used[d] <= Cor[d].max_conversions
  BY DEF IInv, TypeOK, CapEq, CapBound
<1>2. Cor[d].max_conversions # None => Cor[d].max_conversions \in Nat
  BY CorAssumption DEF Cors
<1>3. CASE UNCHANGED <<consumed, entry_sets, conversions_used>>
  BY <1>1, <1>3, LiveUnchanged
<1>4. ASSUME NEW h \in Handlers, CommitVerified(h)
      PROVE  /\ conversions_used'[d] = Cardinality(LiveConversions(d)')
             /\ Cor[d].max_conversions # None =>
                  conversions_used'[d] <= Cor[d].max_conversions
  <2> DEFINE cid == TokenOf(claim[h]).cid
             n == ConsumptionOf(claim[h])
  <2>1. /\ Known(claim[h]) /\ pc[h] = "commit" /\ outcome[h] = "verified"
        /\ \A row \in consumed : row.jti # claim[h].jti
    BY <1>4, NewConversion
  <2>2. ~CapReached(cid)
    BY <2>1 DEF IInv, LockInv
  <2>3. conversions_used' = [conversions_used EXCEPT ![cid] = @ + 1]
    BY <1>4 DEF CommitVerified, ApplyCounters
  <2>4. n \notin LiveConversions(d)
    BY <2>1 DEF LiveConversions, ConversionsOf, ConsumptionOf
  <2>5. LiveConversions(d)' =
          IF d = cid THEN LiveConversions(d) \cup {n} ELSE LiveConversions(d)
    BY <1>4, LiveGrows
  <2> HIDE DEF cid, n
  <2>6. CASE d = cid
    <3>1. conversions_used'[d] = conversions_used[d] + 1
      BY <1>1, <2>3, <2>6
    <3>2. Cardinality(LiveConversions(d)')
            = Cardinality(LiveConversions(d)) + 1
      BY <2>4, <2>5, <2>6, LiveFinite, FS_AddElement
    <3>3. Cor[d].max_conversions # None =>
            conversions_used[d] < Cor[d].max_conversions
      BY <1>1, <1>2, <2>2, <2>6 DEF CapReached
    <3> QED
      BY <1>1, <1>2, <3>1, <3>2, <3>3
  <2>7. CASE d # cid
    BY <1>1, <2>3, <2>5, <2>7
  <2> QED
    BY <2>6, <2>7
<1>5. ASSUME NEW r \in Reversers, CommitReverse(r)
      PROVE  /\ conversions_used'[d] = Cardinality(LiveConversions(d)')
             /\ Cor[d].max_conversions # None =>
                  conversions_used'[d] <= Cor[d].max_conversions
  <2> DEFINE row == ConversionOf(reversing[r])
             cid == minted[row.jti].cid
  <2>1. conversions_used' =
          [conversions_used EXCEPT ![cid] = IF @ > 0 THEN @ - 1 ELSE @]
    BY <1>5 DEF CommitReverse, FreeConversionCap
  <2>2. /\ row \in LiveConversions(cid)
        /\ LiveConversions(d)' =
             IF d = cid THEN LiveConversions(d) \ {row} ELSE LiveConversions(d)
    BY <1>5, LiveShrinks
  <2> HIDE DEF row, cid
  <2>3. CASE d = cid
    <3>1. Cardinality(LiveConversions(d)')
            = Cardinality(LiveConversions(d)) - 1
      BY <2>2, <2>3, LiveFinite, FS_RemoveElement
    <3>2. Cardinality(LiveConversions(d)) # 0
      BY <2>2, <2>3, LiveFinite, FS_EmptySet
    <3>3. conversions_used'[d] = conversions_used[d] - 1
      BY <1>1, <2>1, <2>3, <3>2
    <3> QED
      BY <1>1, <1>2, <3>1, <3>3
  <2>4. CASE d # cid
    BY <1>1, <2>1, <2>2, <2>4
  <2> QED
    BY <2>3, <2>4
<1>6. ASSUME NEW cid \in Commitments, CreateCommitment(cid)
      PROVE  /\ conversions_used'[d] = Cardinality(LiveConversions(d)')
             /\ Cor[d].max_conversions # None =>
                  conversions_used'[d] <= Cor[d].max_conversions
  <2>1. /\ cid \notin commitments
        /\ conversions_used' = [conversions_used EXCEPT ![cid] = 0]
        /\ UNCHANGED <<consumed, entry_sets>>
    BY <1>6 DEF CreateCommitment
  <2>2. LiveConversions(d)' = LiveConversions(d)
    BY <2>1, LiveUnchanged
  <2>3. CASE d = cid
    <3>1. LiveConversions(d) = {}
      BY <2>1, <2>3 DEF LiveConversions, ConversionsOf, IInv, RecordInv
    <3>2. Cardinality(LiveConversions(d)) = 0
      BY <3>1, FS_EmptySet
    <3>3. conversions_used'[d] = 0
      BY <1>1, <2>1, <2>3
    <3> QED
      BY <1>2, <2>2, <3>2, <3>3
  <2>4. CASE d # cid
    BY <1>1, <2>1, <2>2, <2>4
  <2> QED
    BY <2>3, <2>4
<1> QED
  BY <1>3, <1>4, <1>5, <1>6, Writers DEF tables, CommitRejected, InsertToken,
     EndCommitment

-----------------------------------------------------------------------------
(***************************************************************************)
(* The cache and the answers.                                              *)
(***************************************************************************)

\* The cache is marked only after the consumption committed.
LEMMA CacheStep == IInv /\ [Next]_vars => CacheIsSound'
<1> SUFFICES ASSUME IInv, [Next]_vars PROVE CacheIsSound'
  OBVIOUS
<1>1. \A jti : IsConsumed(jti) => IsConsumed(jti)'
  BY RecordsStay DEF IsConsumed
<1>2. CASE cache' = cache
  BY <1>1, <1>2 DEF IInv, CacheIsSound
<1>3. ASSUME NEW h \in Handlers, MarkCache(h) PROVE CacheIsSound'
  <2>1. IsConsumed(claim[h].jti)
    BY <1>3 DEF MarkCache, IInv, HandlerInv, Standing
  <2>2. cache' \subseteq cache \cup {claim[h].jti}
    BY <1>3 DEF MarkCache
  <2> QED
    BY <1>1, <2>1, <2>2 DEF IInv, CacheIsSound
<1>4. ASSUME NEW h \in Handlers,
             Arrive(h) \/ Deliver(h) \/ Crash(h) \/ CheckReplay(h)
               \/ CheckTerms(h) \/ CheckApproval(h) \/ CheckMonth(h)
               \/ LockCounters(h) \/ CommitVerified(h) \/ CommitRejected(h)
               \/ ClashOnClaimId(h) \/ LoseRace(h) \/ Converge(h)
      PROVE  cache' = cache
  BY <1>4 DEF Arrive, Deliver, Crash, Forget, CheckReplay, CheckTerms,
     CheckApproval, CheckMonth, LockCounters, CommitVerified, CommitRejected,
     ClashOnClaimId, LoseRace, Converge
<1>5. ASSUME NEW cid \in Commitments, CreateCommitment(cid) \/ EndCommitment(cid)
      PROVE  cache' = cache
  BY <1>5 DEF CreateCommitment, EndCommitment
<1>6. ASSUME NEW m \in Minters, CheckMint(m) \/ InsertToken(m) \/ AbandonMint(m)
      PROVE  cache' = cache
  BY <1>6 DEF CheckMint, InsertToken, AbandonMint
<1>7. ASSUME NEW r \in Reversers,
             CheckReverse(r) \/ CommitReverse(r) \/ AbandonReverse(r)
      PROVE  cache' = cache
  BY <1>7 DEF CheckReverse, CommitReverse, AbandonReverse
<1>8. ASSUME NEW m \in Mandates, RevokeMandate(m) PROVE cache' = cache
  BY <1>8 DEF RevokeMandate
<1>9. Tick \/ UNCHANGED vars => cache' = cache
  BY DEF Tick, vars
<1> QED
  BY <1>2, <1>3, <1>4, <1>5, <1>6, <1>7, <1>8, <1>9 DEF Next, Serve

\* What one handler needs after a step: an answer that is a verdict is the
\* stored one, and only a handler that is done has an answer.
Answered(g) ==
  /\ answer[g] \in Verdicts =>
       idempotency_keys[key[g]] = [claim |-> claim[g], verdict |-> answer[g]]
  /\ pc[g] # "done" => answer[g] = None

\* A reply is the stored verdict: the winner's, a retry's or a race loser's.
LEMMA AnswersStep == IInv /\ [Next]_vars => AnswersMatchStore' /\ Unanswered'
<1> SUFFICES ASSUME IInv, [Next]_vars, NEW g \in Handlers
             PROVE  Answered(g)'
  BY DEF AnswersMatchStore, Unanswered, Answered
<1>1. TypeOK /\ Standing(g) /\ Answered(g)
  BY DEF IInv, HandlerInv, AnswersMatchStore, Unanswered, Answered
<1> DEFINE Still == /\ pc'[g] = pc[g] /\ claim'[g] = claim[g]
                    /\ key'[g] = key[g] /\ answer'[g] = answer[g]
<1>2. Still => Answered(g)'
  <2>1. answer[g] \in Verdicts =>
          key[g] \in Keys /\ idempotency_keys[key[g]] # None
    BY <1>1, NoneAssumption DEF Answered, Standing, TypeOK, Verdicts
  <2>2. answer[g] \in Verdicts =>
          idempotency_keys'[key[g]] = idempotency_keys[key[g]]
    BY <2>1, RecordsStay
  <2> QED
    BY <1>1, <2>2 DEF Answered
<1> USE DEF TypeOK, Goto, Decide, Reply, Conclude, tables, handlers
<1>3. ASSUME NEW h \in Handlers, h # g,
             Arrive(h) \/ Serve(h) \/ Deliver(h) \/ Crash(h)
      PROVE  Still
  BY <1>1, <1>3 DEF Serve, Arrive, Deliver, Crash, Forget, CheckReplay,
     CheckTerms, CheckApproval, CheckMonth, LockCounters, CommitVerified,
     CommitRejected, ClashOnClaimId, LoseRace, Converge, MarkCache
<1>4. CASE Arrive(g)
  <2>1. PICK c \in Claims, k \in Keys :
          /\ claim' = [claim EXCEPT ![g] = c]
          /\ key' = [key EXCEPT ![g] = k]
          /\ IF idempotency_keys[k] # None
             THEN Reply(g, StoredAnswer(c, k))
             ELSE Goto(g, "replay")
    BY <1>4 DEF Arrive
  <2>2. idempotency_keys' = idempotency_keys /\ pc[g] = "idle"
    BY <1>4 DEF Arrive
  <2>3. CASE idempotency_keys[k] # None
    <3>1. /\ answer'[g] = StoredAnswer(c, k) /\ pc'[g] = "done"
          /\ key'[g] = k /\ claim'[g] = c
      BY <1>1, <2>1, <2>3
    <3>2. idempotency_keys[k] \in [claim : Claims, verdict : Verdicts]
      BY <1>1, <2>3
    <3> QED
      BY <2>2, <3>1, <3>2 DEF Answered, StoredAnswer, Verdicts, Reasons
  <2>4. CASE idempotency_keys[k] = None
    BY <1>1, <2>1, <2>2, <2>4, NoneAssumption DEF Answered
  <2> QED
    BY <2>3, <2>4
<1>5. CASE \/ CheckReplay(g) \/ CheckTerms(g) \/ CheckApproval(g)
           \/ CheckMonth(g) \/ LockCounters(g) \/ LoseRace(g)
           \/ CommitVerified(g) \/ ClashOnClaimId(g)
  BY <1>1, <1>5, NoneAssumption
  DEF CheckReplay, CheckTerms, CheckApproval, CheckMonth, LockCounters,
      LoseRace, CommitVerified, ClashOnClaimId, Answered, Verdicts, Reasons
<1>6. CASE CommitRejected(g)
  BY <1>1, <1>6 DEF CommitRejected, StoreVerdict, Standing, Answered
<1>7. CASE Converge(g)
  <2>1. /\ idempotency_keys[key[g]] # None /\ key[g] \in Keys
        /\ answer'[g] = StoredAnswer(claim[g], key[g]) /\ pc'[g] = "done"
        /\ UNCHANGED <<claim, key, idempotency_keys>>
    BY <1>1, <1>7 DEF Converge, Standing
  <2>2. idempotency_keys[key[g]] \in [claim : Claims, verdict : Verdicts]
    BY <1>1, <2>1
  <2> QED
    BY <2>1, <2>2 DEF Answered, StoredAnswer, Verdicts, Reasons
<1>8. CASE MarkCache(g)
  BY <1>1, <1>8 DEF MarkCache, Standing, Answered
<1>9. CASE Deliver(g) \/ Crash(g)
  BY <1>1, <1>9, NoneAssumption DEF Deliver, Crash, Forget, Answered
<1>10. CASE \E h \in Handlers : Arrive(h) \/ Serve(h) \/ Deliver(h) \/ Crash(h)
  BY <1>2, <1>3, <1>4, <1>5, <1>6, <1>7, <1>8, <1>9, <1>10 DEF Serve
<1>11. ASSUME NEW cid \in Commitments,
              CreateCommitment(cid) \/ EndCommitment(cid)
       PROVE  Still
  BY <1>11 DEF CreateCommitment, EndCommitment
<1>12. ASSUME NEW m \in Minters, CheckMint(m) \/ InsertToken(m) \/ AbandonMint(m)
       PROVE  Still
  BY <1>12 DEF CheckMint, InsertToken, AbandonMint
<1>13. ASSUME NEW r \in Reversers,
              CheckReverse(r) \/ CommitReverse(r) \/ AbandonReverse(r)
       PROVE  Still
  BY <1>13 DEF CheckReverse, CommitReverse, AbandonReverse
<1>14. ASSUME NEW m \in Mandates, RevokeMandate(m) PROVE Still
  BY <1>14 DEF RevokeMandate
<1>15. Tick \/ UNCHANGED vars => Still
  BY DEF Tick, vars
<1> QED
  BY <1>2, <1>10, <1>11, <1>12, <1>13, <1>14, <1>15 DEF Next

-----------------------------------------------------------------------------
(***************************************************************************)
(* Revocation.                                                             *)
(***************************************************************************)

\* A handler whose claim the directory has let through.
LetThrough(h) ==
  \/ pc[h] \in {"month", "lock", "mark"}
  \/ pc[h] = "commit" /\ outcome[h] = "verified"

\* What the directory lookup establishes, and no later step takes away: the
\* mandate behind an approved claim had not been revoked when it arrived.
Unrevoked(h) ==
  /\ arrival[h] \subseteq revoked
  /\ LetThrough(h) /\ TokenOf(claim[h]).apr # None =>
       Approval[TokenOf(claim[h]).apr].mandate_id \notin arrival[h]

RevocationInv == \A h \in Handlers : Unrevoked(h)

\* Who was let through serves a claim whose token the trio minted.
LEMMA LetThroughIsKnown ==
  ASSUME IInv, NEW g \in Handlers, LetThrough(g)
  PROVE  Known(claim[g])
BY DEF IInv, HandlerInv, Standing, LetThrough

\* The lookup reads every revocation that preceded the request, and whatever
\* happens between it and the commit leaves the token and the arrival alone.
LEMMA RevocationStep ==
  IInv /\ RevocationInv /\ [Next]_vars => RevocationInv'
<1> SUFFICES ASSUME IInv, RevocationInv, [Next]_vars, NEW g \in Handlers
             PROVE  Unrevoked(g)'
  BY DEF RevocationInv
<1>1. TypeOK /\ Standing(g) /\ Unrevoked(g)
  BY DEF IInv, HandlerInv, RevocationInv
<1> DEFINE Still == /\ pc'[g] = pc[g] /\ claim'[g] = claim[g]
                    /\ outcome'[g] = outcome[g] /\ arrival'[g] = arrival[g]
                    /\ revoked \subseteq revoked'
<1>2. Still => Unrevoked(g)'
  <2> SUFFICES ASSUME Still PROVE Unrevoked(g)'
    OBVIOUS
  <2>1. LetThrough(g)' => LetThrough(g)
    BY DEF LetThrough
  <2>2. \A c : Known(c) => TokenOf(c)' = TokenOf(c)
    BY KnownStays
  <2>3. LetThrough(g) => TokenOf(claim[g])' = TokenOf(claim[g])
    BY <2>2, LetThroughIsKnown DEF TokenOf
  <2> QED
    BY <1>1, <2>1, <2>3 DEF Unrevoked
<1> USE DEF TypeOK, Goto, Decide, Reply, Conclude, tables, handlers
<1>3. ASSUME NEW h \in Handlers, h # g,
             Arrive(h) \/ Serve(h) \/ Deliver(h) \/ Crash(h)
      PROVE  Still
  BY <1>1, <1>3 DEF Serve, Arrive, Deliver, Crash, Forget, CheckReplay,
     CheckTerms, CheckApproval, CheckMonth, LockCounters, CommitVerified,
     CommitRejected, ClashOnClaimId, LoseRace, Converge, MarkCache
<1>4. CASE Arrive(g)
  <2>1. /\ arrival'[g] = revoked /\ revoked' = revoked
        /\ pc'[g] \in {"replay", "done"}
    BY <1>1, <1>4 DEF Arrive
  <2> QED
    BY <2>1 DEF Unrevoked, LetThrough
<1>5. CASE \/ CheckReplay(g) \/ CommitRejected(g) \/ ClashOnClaimId(g)
           \/ LoseRace(g) \/ Converge(g) \/ MarkCache(g)
  <2>1. /\ arrival' = arrival /\ revoked' = revoked
        /\ pc'[g] \in {"terms", "commit", "converge", "done"}
        /\ pc'[g] = "commit" => outcome'[g] # "verified"
    BY <1>1, <1>5 DEF CheckReplay, CommitRejected, ClashOnClaimId, LoseRace,
       Converge, MarkCache
  <2> QED
    BY <1>1, <2>1 DEF Unrevoked, LetThrough
<1>6. CASE CheckTerms(g)
  <2>1. TermsStage(claim[g]) # "verified"
    BY DEF TermsStage
  <2>2. /\ UNCHANGED <<arrival, revoked, claim, minted>>
        /\ pc'[g] \in {"commit", "approval", "lock", "done"}
        /\ pc'[g] = "commit" => outcome'[g] # "verified"
        /\ pc'[g] = "lock" => TokenOf(claim[g]).apr = None
    BY <1>1, <1>6, <2>1 DEF CheckTerms
  <2> QED
    BY <1>1, <2>2 DEF Unrevoked, LetThrough, TokenOf
<1>7. CASE CheckApproval(g)
  <2>1. PICK approvalFound, mandateFound \in BOOLEAN :
          LET stage == ApprovalStage(claim[g], approvalFound, mandateFound)
          IN  IF stage # "pass"
              THEN Decide(g, stage, "commit")
              ELSE Goto(g, "month")
    BY <1>7 DEF CheckApproval
  <2> DEFINE stage == ApprovalStage(claim[g], approvalFound, mandateFound)
  <2>2. /\ stage # "verified"
        /\ stage = "pass" =>
             Approval[TokenOf(claim[g]).apr].mandate_id \notin revoked
    BY DEF ApprovalStage
  <2> HIDE DEF stage
  <2>3. /\ stage # "pass" => pc'[g] = "commit" /\ outcome'[g] = stage
        /\ stage = "pass" => pc'[g] = "month"
    BY <1>1, <2>1 DEF stage
  <2>4. UNCHANGED <<arrival, revoked, claim, minted>>
    BY <1>7 DEF CheckApproval
  <2> QED
    BY <1>1, <2>2, <2>3, <2>4 DEF Unrevoked, LetThrough, TokenOf
<1>8. CASE CheckMonth(g) \/ LockCounters(g) \/ CommitVerified(g)
  <2>1. /\ UNCHANGED <<arrival, revoked, claim, minted>>
        /\ LetThrough(g)
    BY <1>1, <1>8
    DEF CheckMonth, LockCounters, CommitVerified, FinalVerdict, LetThrough
  <2> QED
    BY <1>1, <2>1 DEF Unrevoked, TokenOf
<1>9. CASE Deliver(g) \/ Crash(g)
  <2>1. arrival'[g] = {} /\ pc'[g] = "idle"
    BY <1>1, <1>9 DEF Deliver, Crash, Forget
  <2> QED
    BY <2>1 DEF Unrevoked
<1>10. CASE \E h \in Handlers : Arrive(h) \/ Serve(h) \/ Deliver(h) \/ Crash(h)
  BY <1>2, <1>3, <1>4, <1>5, <1>6, <1>7, <1>8, <1>9, <1>10 DEF Serve
<1>11. ASSUME NEW cid \in Commitments,
              CreateCommitment(cid) \/ EndCommitment(cid)
       PROVE  Still
  BY <1>11 DEF CreateCommitment, EndCommitment
<1>12. ASSUME NEW m \in Minters, CheckMint(m) \/ InsertToken(m) \/ AbandonMint(m)
       PROVE  Still
  BY <1>12 DEF CheckMint, InsertToken, AbandonMint
<1>13. ASSUME NEW r \in Reversers,
              CheckReverse(r) \/ CommitReverse(r) \/ AbandonReverse(r)
       PROVE  Still
  BY <1>13 DEF CheckReverse, CommitReverse, AbandonReverse
<1>14. ASSUME NEW m \in Mandates, RevokeMandate(m) PROVE Still
  BY <1>14 DEF RevokeMandate
<1>15. Tick \/ UNCHANGED vars => Still
  BY DEF Tick, vars
<1> QED
  BY <1>2, <1>10, <1>11, <1>12, <1>13, <1>14, <1>15 DEF Next

-----------------------------------------------------------------------------
(***************************************************************************)
(* The verdict transaction is atomic.                                      *)
(***************************************************************************)

\* Key k stores the verified verdict of this consumption.
Won(k, row) ==
  /\ idempotency_keys[k] # None
  /\ idempotency_keys[k].verdict = "verified"
  /\ idempotency_keys[k].claim.jti = row.jti
  /\ idempotency_keys[k].claim.claim_id = row.claim_id

Announced == {e \in events : e[1] = "ConversionVerified"}
Announcement(row) ==
  <<"ConversionVerified", row.claim_id, row.jti, row.qid>>

\* VerdictIsAtomic without its cardinality: one key holds the verdict.
AtomicInv ==
  /\ Announced = {Announcement(row) : row \in consumed}
  /\ {s.claim_id : s \in {t \in entry_sets : t.kind = "set"}} =
       {row.claim_id : row \in consumed}
  /\ \A row \in consumed : \E k \in Keys : \A j \in Keys : Won(j, row) <=> j = k
  /\ \A k \in Keys :
       idempotency_keys[k] # None /\ idempotency_keys[k].verdict = "verified"
         => IsConsumed(idempotency_keys[k].claim.jti)

LEMMA AtomicImplies == AtomicInv => VerdictIsAtomic
<1> SUFFICES ASSUME AtomicInv, NEW row \in consumed
             PROVE  Cardinality({k \in Keys :
                      /\ idempotency_keys[k] # None
                      /\ idempotency_keys[k].verdict = "verified"
                      /\ idempotency_keys[k].claim.jti = row.jti
                      /\ idempotency_keys[k].claim.claim_id = row.claim_id}) = 1
  BY DEF AtomicInv, VerdictIsAtomic, Announced, Announcement
<1>1. PICK k \in Keys : \A j \in Keys : Won(j, row) <=> j = k
  BY DEF AtomicInv
<1>2. {j \in Keys :
         /\ idempotency_keys[j] # None
         /\ idempotency_keys[j].verdict = "verified"
         /\ idempotency_keys[j].claim.jti = row.jti
         /\ idempotency_keys[j].claim.claim_id = row.claim_id} = {k}
  BY <1>1 DEF Won
<1> QED
  BY <1>2, FS_Singleton

\* Steps that write neither a conversion nor a verified verdict.
LEMMA AtomicStays ==
  ASSUME IInv, AtomicInv, consumed' = consumed, Announced' = Announced,
         {s.claim_id : s \in {t \in entry_sets' : t.kind = "set"}}
           = {s.claim_id : s \in {t \in entry_sets : t.kind = "set"}},
         \A k \in Keys :
           \/ idempotency_keys'[k] = idempotency_keys[k]
           \/ /\ idempotency_keys[k] = None
              /\ idempotency_keys'[k].verdict # "verified"
  PROVE  AtomicInv'
<1>1. \A k \in Keys, row \in consumed : Won(k, row)' <=> Won(k, row)
  BY DEF Won
<1>2. {Announcement(row) : row \in consumed}'
        = {Announcement(row) : row \in consumed}
  BY DEF Announcement
<1>3. \A k \in Keys :
        idempotency_keys'[k] # None /\ idempotency_keys'[k].verdict = "verified"
          => \E row \in consumed' : row.jti = idempotency_keys'[k].claim.jti
  <2>1. \A k \in Keys :
          idempotency_keys[k] # None /\ idempotency_keys[k].verdict = "verified"
            => \E row \in consumed : row.jti = idempotency_keys[k].claim.jti
    BY DEF AtomicInv, IsConsumed
  <2> QED
    BY <2>1
<1>4. Announced' = {Announcement(row) : row \in consumed}'
  BY <1>2 DEF AtomicInv
<1>5. {s.claim_id : s \in {t \in entry_sets' : t.kind = "set"}}
        = {row.claim_id : row \in consumed'}
  BY DEF AtomicInv
<1>6. \A row \in consumed' :
        \E k \in Keys : \A j \in Keys : Won(j, row)' <=> j = k
  BY <1>1 DEF AtomicInv
<1> QED
  BY <1>3, <1>4, <1>5, <1>6 DEF AtomicInv, IsConsumed

\* A conversion commits its row, its set, its event and its verdict together.
LEMMA AtomicGrows ==
  ASSUME IInv, AtomicInv, NEW h \in Handlers, CommitVerified(h)
  PROVE  AtomicInv'
<1> PICK c : c = claim[h]
  OBVIOUS
<1> PICK n : n = ConsumptionOf(c)
  OBVIOUS
<1> PICK s : s = EntrySetOf(c)
  OBVIOUS
<1> PICK posted : posted = <<"LedgerEntryPosted", "set", c.claim_id>>
  OBVIOUS
<1>1. /\ Known(c)
      /\ consumed' = consumed \cup {n}
      /\ entry_sets' = entry_sets \cup {s}
      /\ \A row \in consumed : row.jti # c.jti
  BY NewConversion
<1>2. n.jti = c.jti /\ n.qid = TokenOf(c).qid /\ n.claim_id = c.claim_id
  BY DEF ConsumptionOf
<1>3. s.kind = "set" /\ s.claim_id = c.claim_id
  BY DEF EntrySetOf
<1> PICK k0 : k0 = key[h]
  OBVIOUS
<1>4. /\ k0 \in Keys
      /\ idempotency_keys[k0] = None
      /\ idempotency_keys' = [idempotency_keys EXCEPT
           ![k0] = [claim |-> c, verdict |-> "verified"]]
  BY DEF CommitVerified, KeyFree, StoreVerdict, IInv, HandlerInv, Standing
<1>5. /\ idempotency_keys'[k0] = [claim |-> c, verdict |-> "verified"]
      /\ \A k \in Keys :
           k # k0 => idempotency_keys'[k] = idempotency_keys[k]
  BY <1>4 DEF IInv, TypeOK
<1>6. events' = events \cup {posted, Announcement(n)}
  BY <1>2 DEF CommitVerified, Announcement
<1>7. posted[1] # "ConversionVerified"
      /\ Announcement(n)[1] = "ConversionVerified"
  BY DEF Announcement
<1>8. [claim |-> c, verdict |-> "verified"] # None
  BY <1>1, NoneAssumption DEF Known, Verdicts
<1>9. \A k \in Keys :
        idempotency_keys[k] # None /\ idempotency_keys[k].verdict = "verified"
          => \E row \in consumed : row.jti = idempotency_keys[k].claim.jti
  BY DEF AtomicInv, IsConsumed
<1>10. Announced' = Announced \cup {Announcement(n)}
  BY <1>6, <1>7 DEF Announced
<1>11. (Announced = {Announcement(row) : row \in consumed})'
  <2>1. \A row : Announcement(row)' = Announcement(row)
    BY DEF Announcement
  <2>2. {Announcement(row) : row \in consumed \cup {n}}
          = {Announcement(row) : row \in consumed} \cup {Announcement(n)}
    OBVIOUS
  <2> QED
    BY <1>1, <1>10, <2>1, <2>2 DEF AtomicInv
<1>12. {x.claim_id : x \in {t \in entry_sets' : t.kind = "set"}}
         = {row.claim_id : row \in consumed'}
  <2>1. {x.claim_id : x \in {t \in entry_sets' : t.kind = "set"}}
          = {x.claim_id : x \in {t \in entry_sets : t.kind = "set"}}
              \cup {c.claim_id}
    BY <1>1, <1>3
  <2>2. {row.claim_id : row \in consumed'}
          = {row.claim_id : row \in consumed} \cup {c.claim_id}
    BY <1>1, <1>2
  <2> QED
    BY <2>1, <2>2 DEF AtomicInv
<1>13. \A row \in consumed' :
         \E k \in Keys : \A j \in Keys : Won(j, row)' <=> j = k
  <2>1. ASSUME NEW row \in consumed
        PROVE  \A j \in Keys : Won(j, row)' <=> Won(j, row)
    BY <1>1, <1>4, <1>5 DEF Won
  <2>2. \A j \in Keys : Won(j, n)' <=> j = k0
    <3>1. \A j \in Keys : ~Won(j, n)
      BY <1>1, <1>2, <1>9 DEF Won
    <3>2. Won(k0, n)'
      BY <1>2, <1>5, <1>8 DEF Won
    <3> QED
      BY <1>5, <3>1, <3>2 DEF Won
  <2> QED
    BY <1>1, <1>4, <2>1, <2>2 DEF AtomicInv
<1>14. \A k \in Keys :
         idempotency_keys'[k] # None /\ idempotency_keys'[k].verdict = "verified"
           => \E row \in consumed' : row.jti = idempotency_keys'[k].claim.jti
  BY <1>1, <1>2, <1>5 DEF AtomicInv, IsConsumed
<1> QED
  BY <1>11, <1>12, <1>13, <1>14 DEF AtomicInv, IsConsumed

\* No other step writes one of the four without the others.
LEMMA AtomicStep == IInv /\ AtomicInv /\ [Next]_vars => AtomicInv'
<1> SUFFICES ASSUME IInv, AtomicInv, [Next]_vars PROVE AtomicInv'
  OBVIOUS
<1>1. ASSUME NEW h \in Handlers, CommitVerified(h) PROVE AtomicInv'
  BY <1>1, AtomicGrows
<1>2. CASE UNCHANGED tables
  BY <1>2, AtomicStays DEF tables, Announced
<1>3. ASSUME NEW h \in Handlers, CommitRejected(h) PROVE AtomicInv'
  <2> DEFINE e == <<"ConversionRejected", claim[h].claim_id, claim[h].jti,
                    FinalVerdict(h)>>
  <2>1. /\ consumed' = consumed /\ entry_sets' = entry_sets
        /\ events' = events \cup {e}
        /\ idempotency_keys[key[h]] = None
        /\ key[h] \in Keys
        /\ FinalVerdict(h) # "verified"
        /\ idempotency_keys' = [idempotency_keys EXCEPT
             ![key[h]] = [claim |-> claim[h], verdict |-> FinalVerdict(h)]]
    BY <1>3 DEF CommitRejected, KeyFree, StoreVerdict, IInv, HandlerInv, Standing
  <2>2. e[1] # "ConversionVerified"
    OBVIOUS
  <2> HIDE DEF e
  <2>3. Announced' = Announced
    BY <2>1, <2>2 DEF Announced
  <2>4. \A k \in Keys :
          \/ idempotency_keys'[k] = idempotency_keys[k]
          \/ /\ idempotency_keys[k] = None
             /\ idempotency_keys'[k].verdict # "verified"
    BY <2>1 DEF IInv, TypeOK
  <2> QED
    BY <2>1, <2>3, <2>4, AtomicStays
<1>4. ASSUME NEW m \in Minters, InsertToken(m) PROVE AtomicInv'
  <2> DEFINE e == <<"TokenMinted", minting[m].jti>>
  <2>1. /\ UNCHANGED <<consumed, entry_sets, idempotency_keys>>
        /\ events' = events \cup {e}
    BY <1>4 DEF InsertToken
  <2>2. e[1] # "ConversionVerified"
    OBVIOUS
  <2> HIDE DEF e
  <2>3. Announced' = Announced
    BY <2>1, <2>2 DEF Announced
  <2> QED
    BY <2>1, <2>3, AtomicStays
<1>5. ASSUME NEW cid \in Commitments, CreateCommitment(cid) \/ EndCommitment(cid)
      PROVE  AtomicInv'
  <2> DEFINE e == <<"CommitmentCreated", cid>>
             f == <<"CommitmentEnded", cid>>
  <2>1. /\ UNCHANGED <<consumed, entry_sets, idempotency_keys>>
        /\ events' = events \cup {e} \/ events' = events \cup {f}
    BY <1>5 DEF CreateCommitment, EndCommitment
  <2>2. e[1] # "ConversionVerified" /\ f[1] # "ConversionVerified"
    OBVIOUS
  <2> HIDE DEF e, f
  <2>3. Announced' = Announced
    BY <2>1, <2>2 DEF Announced
  <2> QED
    BY <2>1, <2>3, AtomicStays
<1>6. ASSUME NEW r \in Reversers, CommitReverse(r) PROVE AtomicInv'
  <2> DEFINE e == <<"LedgerEntryPosted", "rev", reversing[r]>>
             f == <<"ConversionReversed", reversing[r]>>
             s == ReversalSetOf(reversing[r])
  <2>1. /\ UNCHANGED <<consumed, idempotency_keys>>
        /\ entry_sets' = entry_sets \cup {s}
        /\ events' = events \cup {e, f}
    BY <1>6 DEF CommitReverse
  <2>2. /\ e[1] # "ConversionVerified" /\ f[1] # "ConversionVerified"
        /\ s.kind # "set"
    BY DEF ReversalSetOf
  <2> HIDE DEF e, f, s
  <2>3. Announced' = Announced
    BY <2>1, <2>2 DEF Announced
  <2>4. {t \in entry_sets' : t.kind = "set"} = {t \in entry_sets : t.kind = "set"}
    BY <2>1, <2>2
  <2> QED
    BY <2>1, <2>3, <2>4, AtomicStays
<1> QED
  BY <1>1, <1>2, <1>3, <1>4, <1>5, <1>6, Writers

-----------------------------------------------------------------------------
(***************************************************************************)
(* Sums.  MapThenSumSet is a recursion over sets; the proofs go by the     *)
(* smallest counterexample, which needs no induction over an operator.     *)
(***************************************************************************)

\* The least-number principle, as a fact about sets.
LEMMA LeastNumber ==
  ASSUME NEW T, T \subseteq Nat, T # {}
  PROVE  \E m \in T : \A n \in T : ~(n < m)
<1> DEFINE R == OpToRel(<, Nat)
<1>1. IsWellFoundedOn(R, Nat)
  BY NatLessThanWellFounded, Zenon
<1>2. \A x, y \in Nat : <<x, y>> \in R <=> x < y
  BY DEF OpToRel
<1> HIDE DEF R
<1>3. \E x \in T : \A y \in T : ~(<<y, x>> \in R)
  BY <1>1, WFMin
<1> QED
  BY <1>2, <1>3

\* What fails for some subset of a finite set fails for a smallest one.
LEMMA SmallestSubset ==
  ASSUME NEW S, IsFiniteSet(S), NEW C, C \subseteq SUBSET S, C # {}
  PROVE  \E s \in C : \A t \in C : ~(t \subseteq s /\ t # s)
<1>1. \A s \in C : IsFiniteSet(s) /\ Cardinality(s) \in Nat
  BY FS_Subset, FS_CardinalityType
<1> DEFINE T == {Cardinality(s) : s \in C}
<1>2. T \subseteq Nat /\ T # {}
  BY <1>1
<1>3. PICK m \in T : \A n \in T : ~(n < m)
  BY <1>2, LeastNumber
<1>4. PICK s \in C : m = Cardinality(s)
  BY <1>3
<1>5. ASSUME NEW t \in C, t \subseteq s, t # s PROVE FALSE
  <2>1. Cardinality(t) <= Cardinality(s) /\ Cardinality(t) # Cardinality(s)
    BY <1>1, <1>5, FS_Subset
  <2>2. Cardinality(t) \in T
    OBVIOUS
  <2> QED
    BY <1>1, <1>3, <1>4, <2>1, <2>2
<1> QED
  BY <1>5

\* What a set of bounties comes to.
Owed(S) == MapThenSumSet(LAMBDA o : o.amount, S)

\* How MapThenSumSet runs through a set: the element it takes, what it makes
\* of a set when f is what it makes of the smaller ones, and that f is what it
\* makes of every subset of S.
Taken(s) == CHOOSE x \in s : TRUE
Added(f, s) == IF s = {} THEN 0 ELSE Taken(s).amount + f[s \ {Taken(s)}]
Sums(f, S) == \A s \in SUBSET S : f[s] = Added(f, s)
Amounts(S) == IsFiniteSet(S) /\ \A x \in S : x.amount \in Int

\* What is taken from a set with something in it is in it.
LEMMA TakenIsIn == \A s : s # {} => Taken(s) \in s
BY DEF Taken

\* There is at most one such f.
LEMMA SumsAgree ==
  ASSUME NEW S, IsFiniteSet(S), NEW f, NEW g, Sums(f, S), Sums(g, S)
  PROVE  \A s \in SUBSET S : f[s] = g[s]
<1> DEFINE C == {s \in SUBSET S : f[s] # g[s]}
<1> SUFFICES ASSUME C # {} PROVE FALSE
  OBVIOUS
<1>1. PICK s \in C : \A t \in C : ~(t \subseteq s /\ t # s)
  <2> HIDE DEF C
  <2>1. C \subseteq SUBSET S
    BY DEF C
  <2> QED
    BY <2>1, SmallestSubset
<1>2. f[s] = Added(f, s) /\ g[s] = Added(g, s)
  BY DEF Sums
<1>3. s # {}
  BY <1>2 DEF Added
<1>4. Taken(s) \in s
  BY <1>3, TakenIsIn
<1>5. f[s \ {Taken(s)}] = g[s \ {Taken(s)}]
  BY <1>1, <1>4
<1> QED
  BY <1>2, <1>5 DEF Added

\* And there is one, with whole numbers for values: the recursion ends.
LEMMA SumsExist ==
  ASSUME NEW S, Amounts(S)
  PROVE  \E f \in [SUBSET S -> Int] : Sums(f, S)
<1> DEFINE C == {s \in SUBSET S : ~ \E f \in [SUBSET s -> Int] : Sums(f, s)}
<1> SUFFICES ASSUME C # {} PROVE FALSE
  OBVIOUS
<1>1. PICK U \in C : \A t \in C : ~(t \subseteq U /\ t # U)
  <2> HIDE DEF C
  <2>1. C \subseteq SUBSET S
    BY DEF C
  <2> QED
    BY <2>1, SmallestSubset DEF Amounts
<1> DEFINE F(s) == CHOOSE f \in [SUBSET s -> Int] : Sums(f, s)
           G == [s \in SUBSET U |->
                   IF s = U THEN Added([t \in SUBSET U |-> F(t)[t]], U)
                   ELSE F(s)[s]]
<1>2. ASSUME NEW s \in SUBSET U, s # U
      PROVE  F(s) \in [SUBSET s -> Int] /\ Sums(F(s), s)
  BY <1>1, <1>2
<1>3. \A s \in SUBSET U : s # {} => Taken(s) \in s /\ Taken(s).amount \in Int
  BY TakenIsIn DEF Amounts
<1> HIDE DEF F
<1>4. ASSUME NEW s \in SUBSET U, s # U
      PROVE  G[s] \in Int /\ G[s] = Added(G, s)
  <2>1. F(s)[s] = Added(F(s), s) /\ F(s)[s] \in Int
    BY <1>2, <1>4, ZenonT(30) DEF Sums
  <2>2. ASSUME s # {} PROVE F(s)[s \ {Taken(s)}] = G[s \ {Taken(s)}]
    <3> DEFINE t == s \ {Taken(s)}
    <3>1. t \in SUBSET s /\ t \in SUBSET U /\ t # U
      BY <1>3, <2>2
    <3>2. Sums(F(t), t) /\ Sums(F(s), t)
      BY <1>2, <1>4, <3>1 DEF Sums
    <3>3. IsFiniteSet(t)
      BY <3>1, FS_Subset DEF Amounts
    <3> HIDE DEF t
    <3>4. F(s)[t] = F(t)[t]
      BY <3>2, <3>3, SumsAgree
    <3> QED
      BY <3>1, <3>4 DEF t
  <2> QED
    BY <1>4, <2>1, <2>2 DEF Added
<1>5. G[U] \in Int /\ G[U] = Added(G, U)
  <2>1. CASE U = {}
    BY <2>1 DEF Added
  <2>2. CASE U # {}
    <3> DEFINE t == U \ {Taken(U)}
    <3>1. Taken(U) \in U /\ Taken(U).amount \in Int /\ t \in SUBSET U /\ t # U
      BY <1>3, <2>2
    <3>2. G[t] \in Int
      BY <1>4, <3>1
    <3>3. G[U] = Taken(U).amount + G[t]
      BY <2>2, <3>1 DEF Added
    <3> QED
      BY <2>2, <3>1, <3>2, <3>3 DEF Added
  <2> QED
    BY <2>1, <2>2
<1>6. G \in [SUBSET U -> Int] /\ Sums(G, U)
  <2>1. \A s \in SUBSET U : G[s] \in Int /\ G[s] = Added(G, s)
    BY <1>4, <1>5
  <2>2. G = [s \in SUBSET U |-> G[s]]
    OBVIOUS
  <2> HIDE DEF G
  <2> QED
    BY <2>1, <2>2 DEF Sums
<1> QED
  BY <1>6

\* So Owed is the value of one.
LEMMA OwedSums ==
  ASSUME NEW S, Amounts(S)
  PROVE  \E f \in [SUBSET S -> Int] : Sums(f, S) /\ Owed(S) = f[S]
<1> DEFINE Iter(f) == f = [s \in SUBSET S |-> Added(f, s)]
<1>1. Owed(S) = (CHOOSE f : Iter(f))[S]
  BY DEF Owed, MapThenSumSet, MapThenFoldSet, Taken, Added
<1>2. PICK g \in [SUBSET S -> Int] : Sums(g, S)
  BY SumsExist
<1>3. Iter(g)
  BY <1>2 DEF Sums
<1> HIDE DEF Iter
<1>4. PICK f : Iter(f) /\ Owed(S) = f[S]
  BY <1>1, <1>3
<1>5. f = [s \in SUBSET S |-> Added(f, s)]
  BY <1>4 DEF Iter
<1>6. Sums(f, S)
  BY <1>5 DEF Sums
<1>7. \A s \in SUBSET S : f[s] = g[s]
  BY <1>2, <1>6, SumsAgree DEF Amounts
<1>8. f \in [SUBSET S -> Int]
  BY <1>5, <1>7
<1> QED
  BY <1>4, <1>6, <1>8

\* The order in which the elements are taken does not matter.
InAnyOrder(f, S) ==
  \A s \in SUBSET S : \A x \in s : f[s] = x.amount + f[s \ {x}]

\* A sum does not depend on which element was taken first.
LEMMA AnyOrder ==
  ASSUME NEW S, Amounts(S), NEW f \in [SUBSET S -> Int], Sums(f, S)
  PROVE  InAnyOrder(f, S)
<1> DEFINE C == {s \in SUBSET S : ~ \A x \in s : f[s] = x.amount + f[s \ {x}]}
<1> SUFFICES ASSUME C # {} PROVE FALSE
  BY DEF InAnyOrder
<1>1. PICK s \in C : \A t \in C : ~(t \subseteq s /\ t # s)
  <2> HIDE DEF C
  <2>1. C \subseteq SUBSET S
    BY DEF C
  <2> QED
    BY <2>1, SmallestSubset DEF Amounts
<1>2. PICK x \in s : f[s] # x.amount + f[s \ {x}]
  OBVIOUS
<1> PICK p : p = Taken(s)
  OBVIOUS
<1>3. p \in s /\ p.amount \in Int /\ x.amount \in Int
  BY <1>2, TakenIsIn DEF Amounts
<1>4. f[s] = p.amount + f[s \ {p}]
  BY <1>2 DEF Sums, Added
<1>5. CASE x = p
  BY <1>2, <1>4, <1>5
<1>6. CASE x # p
  <2>1. /\ s \ {x} \notin C /\ s \ {p} \notin C
        /\ x \in s \ {p} /\ p \in s \ {x}
        /\ s \ {x} \in SUBSET S /\ s \ {p} \in SUBSET S
    BY <1>1, <1>2, <1>3, <1>6
  <2>2. /\ f[s \ {p}] = x.amount + f[(s \ {p}) \ {x}]
        /\ f[s \ {x}] = p.amount + f[(s \ {x}) \ {p}]
    BY <2>1
  <2>3. (s \ {p}) \ {x} = (s \ {x}) \ {p}
    OBVIOUS
  <2>4. PICK r \in Int : r = f[(s \ {p}) \ {x}]
    BY <2>1
  <2>5. /\ f[s] = p.amount + (x.amount + r)
        /\ f[s \ {x}] = p.amount + r
    BY <1>4, <2>2, <2>3, <2>4
  <2> QED
    BY <1>2, <1>3, <2>4, <2>5
<1> QED
  BY <1>5, <1>6

\* Nothing owed comes to nothing.
LEMMA OwedEmpty == Owed({}) = 0
<1>1. Amounts({})
  BY FS_EmptySet DEF Amounts
<1>2. PICK f : Sums(f, {}) /\ Owed({}) = f[{}]
  BY <1>1, OwedSums
<1> QED
  BY <1>2 DEF Sums, Added

\* One more amount owed adds that amount, and nothing else.
LEMMA OwedAdds ==
  ASSUME NEW S, NEW x, x \notin S, Amounts(S \cup {x})
  PROVE  Owed(S) \in Int /\ Owed(S \cup {x}) = Owed(S) + x.amount
<1> PICK U : U = S \cup {x}
  OBVIOUS
<1>1. Amounts(S) /\ Amounts(U)
  BY FS_Subset DEF Amounts
<1>2. PICK f \in [SUBSET U -> Int] : Sums(f, U) /\ Owed(U) = f[U]
  BY <1>1, OwedSums
<1>3. PICK g \in [SUBSET S -> Int] : Sums(g, S) /\ Owed(S) = g[S]
  BY <1>1, OwedSums
<1>4. f[U] = x.amount + f[S]
  <2>1. U \in SUBSET U /\ x \in U /\ U \ {x} = S
    OBVIOUS
  <2>2. InAnyOrder(f, U)
    BY <1>1, <1>2, AnyOrder
  <2> QED
    BY <2>1, <2>2 DEF InAnyOrder
<1>5. f[S] = g[S]
  <2>1. Sums(f, S)
    BY <1>2 DEF Sums
  <2> QED
    BY <1>1, <1>3, <2>1, SumsAgree DEF Amounts
<1>6. x.amount \in Int /\ g[S] \in Int
  BY DEF Amounts
<1> QED
  BY <1>2, <1>3, <1>4, <1>5, <1>6

-----------------------------------------------------------------------------
(***************************************************************************)
(* The books.                                                              *)
(***************************************************************************)

\* The entry sets posted for the conversions of a commitment, and what each
\* of them makes the merchant owe.
Posted(cid) ==
  {s \in entry_sets :
     /\ s.kind = "set"
     /\ \E row \in ConversionsOf(cid) : row.claim_id = s.claim_id}
Due(s) == [claim_id |-> s.claim_id, amount |-> -s.lines.merchant_payable]

LEMMA OwedIsDue == \A cid : OwedBy(cid) = {Due(s) : s \in Posted(cid)}
BY DEF OwedBy, Posted, Due

\* What is left of a budget and what was posted against it make the budget.
BudgetAdds(cid, S) ==
  /\ Amounts(S)
  /\ budget_remaining[cid] # None =>
       budget_remaining[cid] + Owed(S) = Cor[cid].budget

BudgetInv ==
  \A cid \in Commitments : \E S : S = OwedBy(cid) /\ BudgetAdds(cid, S)

BooksInv == BudgetInv /\ ReversalsAreExact

LEMMA BooksInvBalance == TypeOK /\ BooksInv => BooksAreExact
<1> SUFFICES ASSUME TypeOK, BooksInv PROVE BudgetRespected
  BY DEF BooksInv, BooksAreExact
<1>1. \A cid \in Commitments : budget_remaining[cid] # None => budget_remaining[cid] >= 0
  BY DEF TypeOK
<1>2. \A cid \in Commitments : BudgetAdds(cid, OwedBy(cid))
  BY DEF BooksInv, BudgetInv
<1> QED
  BY <1>1, <1>2 DEF BudgetRespected, BudgetAdds, Owed

\* A consumption keeps its commitment, so without a new conversion the same
\* is owed.
LEMMA OwedUnchanged ==
  ASSUME IInv, [Next]_vars, consumed' = consumed,
         {s \in entry_sets' : s.kind = "set"} = {s \in entry_sets : s.kind = "set"}
  PROVE  \A cid : OwedBy(cid)' = OwedBy(cid)
<1> SUFFICES ASSUME NEW cid PROVE OwedBy(cid)' = OwedBy(cid)
  OBVIOUS
<1>1. \A row \in consumed : minted'[row.jti] = minted[row.jti]
  BY RecordsStay DEF IInv, RecordInv, TypeOK
<1>2. ConversionsOf(cid)' = ConversionsOf(cid)
  BY <1>1 DEF ConversionsOf
<1>3. Posted(cid)' = Posted(cid)
  BY <1>2 DEF Posted
<1>4. \A s : Due(s)' = Due(s)
  BY DEF Due
<1>5. OwedBy(cid)' = {Due(s)' : s \in Posted(cid)'}
  BY DEF OwedBy, Posted, Due
<1> QED
  BY <1>3, <1>4, <1>5, OwedIsDue

\* A conversion makes the merchant owe its bounty, on its own commitment and
\* nowhere else.
LEMMA OwedGrows ==
  ASSUME IInv, [Next]_vars, NEW h \in Handlers, CommitVerified(h),
         NEW cid \in Commitments
  PROVE  LET due == [claim_id |-> claim[h].claim_id, amount |-> Bounty(claim[h])]
         IN  /\ due \notin OwedBy(cid)
             /\ OwedBy(cid)' = IF cid = TokenOf(claim[h]).cid
                               THEN OwedBy(cid) \cup {due} ELSE OwedBy(cid)
<1> PICK c : c = claim[h]
  OBVIOUS
<1> PICK n : n = ConsumptionOf(c)
  OBVIOUS
<1> PICK e : e = EntrySetOf(c)
  OBVIOUS
<1>1. /\ Known(c)
      /\ consumed' = consumed \cup {n}
      /\ entry_sets' = entry_sets \cup {e}
      /\ minted' = minted
      /\ \A row \in consumed : row.claim_id # c.claim_id
  BY NewConversion
<1>2. n.jti = c.jti /\ n.claim_id = c.claim_id
  BY DEF ConsumptionOf
<1>3. /\ e.kind = "set" /\ e.claim_id = c.claim_id
      /\ e.lines.merchant_payable = -Bounty(c)
  BY DEF EntrySetOf, ConversionLines
<1>4. \A s \in entry_sets : s.claim_id # c.claim_id
  BY <1>1 DEF IInv, RecordInv
<1>5. ConversionsOf(cid)' =
        IF cid = TokenOf(c).cid THEN ConversionsOf(cid) \cup {n}
        ELSE ConversionsOf(cid)
  BY <1>1, <1>2 DEF ConversionsOf, TokenOf
<1>6. ConversionsOf(cid) \subseteq consumed
  BY DEF ConversionsOf
<1>7. Posted(cid)' = IF cid = TokenOf(c).cid THEN Posted(cid) \cup {e} ELSE Posted(cid)
  BY <1>1, <1>2, <1>3, <1>4, <1>5, <1>6 DEF Posted
<1> DEFINE due == [claim_id |-> c.claim_id, amount |-> Bounty(c)]
<1>8. Due(e) = due
  <2>1. Bounty(c) \in Nat
    BY <1>1, KnownTypes
  <2>2. -e.lines.merchant_payable = Bounty(c)
    BY <1>3, <2>1
  <2> QED
    BY <1>3, <2>2 DEF Due
<1>9. \A s : Due(s)' = Due(s)
  BY DEF Due
<1>10. OwedBy(cid)' = {Due(s)' : s \in Posted(cid)'}
  BY DEF OwedBy, Posted, Due
<1>11. OwedBy(cid)' = {Due(s) : s \in Posted(cid)'}
  BY <1>9, <1>10
<1>12. \A s \in Posted(cid) : Due(s).claim_id # c.claim_id
  BY <1>4 DEF Posted, Due
<1>13. due \notin OwedBy(cid)
  BY <1>12, OwedIsDue
<1>14. OwedBy(cid)' = IF cid = TokenOf(c).cid THEN OwedBy(cid) \cup {due} ELSE OwedBy(cid)
  <2> HIDE DEF due
  <2> QED
    BY <1>7, <1>8, <1>11, OwedIsDue
<1> QED
  BY <1>13, <1>14

\* The bounty leaves the budget and enters what is owed in one transaction;
\* a commitment created with a budget owes nothing yet.
LEMMA BudgetStep == IInv /\ BudgetInv /\ [Next]_vars => BudgetInv'
<1> SUFFICES ASSUME IInv, BudgetInv, [Next]_vars, NEW d \in Commitments
             PROVE  \E S : S = OwedBy(d)' /\ BudgetAdds(d, S)'
  BY DEF BudgetInv
<1> PICK S : S = OwedBy(d) /\ BudgetAdds(d, S)
  BY DEF BudgetInv
<1> PICK T : T = OwedBy(d)'
  OBVIOUS
<1> SUFFICES BudgetAdds(d, T)'
  OBVIOUS
<1>1. budget_remaining \in [Commitments -> Nat \cup {None}]
  BY DEF IInv, TypeOK
<1>2. CASE T = S /\ budget_remaining'[d] = budget_remaining[d]
  BY <1>2 DEF BudgetAdds
<1>3. CASE UNCHANGED <<consumed, entry_sets, budget_remaining>>
  BY <1>2, <1>3, OwedUnchanged
<1>4. ASSUME NEW h \in Handlers, CommitVerified(h) PROVE BudgetAdds(d, T)'
  <2> PICK c : c = claim[h]
    OBVIOUS
  <2> PICK cid : cid = TokenOf(c).cid
    OBVIOUS
  <2> PICK bounty : bounty = Bounty(c)
    OBVIOUS
  <2> PICK due : due = [claim_id |-> c.claim_id, amount |-> bounty]
    OBVIOUS
  <2>1. Known(c)
    BY <1>4, NewConversion
  <2>2. cid \in Commitments /\ bounty \in Nat
    BY <2>1, KnownTypes
  <2>3. budget_remaining' =
          [budget_remaining EXCEPT ![cid] = IF @ = None THEN None ELSE @ - bounty]
    BY <1>4 DEF CommitVerified, ApplyCounters
  <2>4. due \notin S /\ T = IF d = cid THEN S \cup {due} ELSE S
    BY <1>4, OwedGrows
  <2>5. CASE d # cid
    BY <1>1, <1>2, <2>3, <2>4, <2>5
  <2>6. CASE d = cid
    <3>1. due.amount = bounty
      OBVIOUS
    <3>2. Amounts(S \cup {due})
      <4>1. Amounts(S)
        BY DEF BudgetAdds
      <4>2. IsFiniteSet(S \cup {due})
        BY <4>1, FS_AddElement DEF Amounts
      <4> QED
        BY <2>2, <3>1, <4>1, <4>2 DEF Amounts
    <3>3. Owed(S) \in Int /\ Owed(S \cup {due}) = Owed(S) + bounty
      BY <2>4, <3>1, <3>2, OwedAdds
    <3>4. T = S \cup {due}
      BY <2>4, <2>6
    <3>5. ASSUME budget_remaining'[d] # None
          PROVE  budget_remaining'[d] + Owed(T) = Cor[d].budget
      <4>1. /\ budget_remaining[d] \in Nat /\ budget_remaining[d] # None
            /\ budget_remaining'[d] = budget_remaining[d] - bounty
        BY <1>1, <2>2, <2>3, <2>6, <3>5
      <4>2. budget_remaining[d] + Owed(S) = Cor[d].budget
        BY <4>1 DEF BudgetAdds
      <4> QED
        BY <2>2, <3>3, <3>4, <4>1, <4>2
    <3> QED
      BY <3>2, <3>4, <3>5 DEF BudgetAdds
  <2> QED
    BY <2>5, <2>6
<1>5. ASSUME NEW cid \in Commitments, CreateCommitment(cid) PROVE BudgetAdds(d, T)'
  <2>1. /\ cid \notin commitments
        /\ budget_remaining' = [budget_remaining EXCEPT ![cid] = Cor[cid].budget]
        /\ UNCHANGED <<consumed, entry_sets>>
    BY <1>5 DEF CreateCommitment
  <2>2. T = S
    BY <2>1, OwedUnchanged
  <2>3. CASE d = cid
    <3>1. ConversionsOf(d) = {}
      BY <2>1, <2>3 DEF ConversionsOf, IInv, RecordInv
    <3>2. T = {}
      BY <2>2, <3>1 DEF OwedBy
    <3>3. Amounts(T) /\ Owed(T) = 0
      BY <2>2, <3>2, OwedEmpty DEF BudgetAdds
    <3>4. budget_remaining'[d] = Cor[d].budget
      BY <1>1, <2>1, <2>3
    <3>5. Cor[d].budget \in Nat \cup {None}
      BY CorAssumption DEF Cors
    <3>6. budget_remaining'[d] # None => budget_remaining'[d] + 0 = Cor[d].budget
      BY <3>4, <3>5
    <3> QED
      BY <3>3, <3>6 DEF BudgetAdds
  <2>4. CASE d # cid
    BY <1>1, <1>2, <2>1, <2>2, <2>4
  <2> QED
    BY <2>3, <2>4
<1>6. ASSUME NEW r \in Reversers, CommitReverse(r)
      PROVE  T = S /\ budget_remaining' = budget_remaining
  <2>1. /\ UNCHANGED <<consumed, budget_remaining>>
        /\ entry_sets' = entry_sets \cup {ReversalSetOf(reversing[r])}
    BY <1>6 DEF CommitReverse
  <2>2. ReversalSetOf(reversing[r]).kind = "rev"
    BY DEF ReversalSetOf
  <2>3. {s \in entry_sets' : s.kind = "set"} = {s \in entry_sets : s.kind = "set"}
    BY <2>1, <2>2
  <2> QED
    BY <2>1, <2>3, OwedUnchanged
<1> QED
  BY <1>2, <1>3, <1>4, <1>5, <1>6, Writers DEF tables, CommitRejected,
     InsertToken, EndCommitment

\* The double-entry arithmetic of posting.ts: the rounding remainder of the
\* split lands in the reserve, so the lines of a conversion cancel.
LEMMA PostedLinesBalance ==
  ASSUME NEW c, Known(c)
  PROVE  NetOf(EntrySetOf(c).lines) = 0
<1>1. Bounty(c) \in Nat
  BY KnownTypes
<1>2. CorOf(c).take_rate_bps \in Nat /\ CorOf(c).agent_commission_bps \in Nat
  BY KnownTypes, CorAssumption DEF CorOf, Cors
<1>3. PICK b \in Nat : b = Bounty(c)
  BY <1>1
<1>4. PICK x, y \in Int : /\ x = (b * CorOf(c).take_rate_bps) \div 10000
                          /\ y = (b * CorOf(c).agent_commission_bps) \div 10000
  <2>1. b * CorOf(c).take_rate_bps \in Int /\ b * CorOf(c).agent_commission_bps \in Int
    BY <1>2
  <2> QED
    BY <2>1
<1>5. Split(c) = [platform |-> x, agent |-> y, reserve |-> (b - x) - y]
  BY <1>3, <1>4 DEF Split, SplitBounty, BasisPoints
<1>6. EntrySetOf(c).lines =
        [merchant_payable |-> -b, agent_receivable |-> y,
         platform_revenue |-> x, reserve |-> (b - x) - y]
  BY <1>3, <1>5 DEF EntrySetOf, ConversionLines
<1>7. ((-b + y) + x) + ((b - x) - y) = 0
  BY <1>3, <1>4
<1> QED
  BY <1>6, <1>7 DEF NetOf

\* Flipping every side of lines that balance leaves lines that balance.
LEMMA ReversalBalances ==
  ASSUME NEW lines \in Lines, NetOf(lines) = 0
  PROVE  NetOf(ReversalLines(lines)) = 0
<1>1. /\ lines.merchant_payable \in Int /\ lines.agent_receivable \in Int
      /\ lines.platform_revenue \in Int /\ lines.reserve \in Int
  BY DEF Lines
<1> QED
  BY <1>1 DEF NetOf, ReversalLines

Undone == {e \in events : e[1] = "ConversionReversed"}
ReversalEvent(id) == <<"ConversionReversed", id>>
Reversals == {t \in entry_sets : t.kind = "rev"}

\* The key of entry_sets arbitrates, so a set is posted once and reversed once.
LEMMA ReversalsStep ==
  IInv /\ ReversalsAreExact /\ [Next]_vars => ReversalsAreExact'
<1> SUFFICES ASSUME IInv, ReversalsAreExact, [Next]_vars PROVE ReversalsAreExact'
  OBVIOUS
<1>1. /\ \A a, b \in entry_sets :
           a.kind = b.kind /\ a.claim_id = b.claim_id => a = b
      /\ \A s \in entry_sets : NetOf(s.lines) = 0
      /\ \A s \in entry_sets : s.kind = "rev" =>
            \E original \in entry_sets :
              /\ original.kind = "set"
              /\ original.claim_id = s.claim_id
              /\ s.lines = ReversalLines(original.lines)
      /\ Undone = {ReversalEvent(s.claim_id) : s \in Reversals}
  BY DEF ReversalsAreExact, Undone, ReversalEvent, Reversals
<1>2. ASSUME entry_sets' = entry_sets, Undone' = Undone PROVE ReversalsAreExact'
  <2>1. (Undone = {ReversalEvent(s.claim_id) : s \in Reversals})'
    BY <1>1, <1>2 DEF ReversalEvent, Reversals
  <2>2. (/\ \A a, b \in entry_sets :
              a.kind = b.kind /\ a.claim_id = b.claim_id => a = b
         /\ \A s \in entry_sets : NetOf(s.lines) = 0
         /\ \A s \in entry_sets : s.kind = "rev" =>
               \E original \in entry_sets :
                 /\ original.kind = "set"
                 /\ original.claim_id = s.claim_id
                 /\ s.lines = ReversalLines(original.lines))'
    BY <1>1, <1>2
  <2> QED
    BY <2>1, <2>2 DEF ReversalsAreExact, Undone, ReversalEvent, Reversals
<1>3. CASE UNCHANGED tables
  BY <1>2, <1>3 DEF tables, Undone
<1>4. ASSUME NEW h \in Handlers, CommitRejected(h) PROVE ReversalsAreExact'
  <2> PICK e : e = <<"ConversionRejected", claim[h].claim_id, claim[h].jti,
                     FinalVerdict(h)>>
    OBVIOUS
  <2>1. entry_sets' = entry_sets /\ events' = events \cup {e}
    BY <1>4 DEF CommitRejected
  <2>2. e[1] # "ConversionReversed"
    OBVIOUS
  <2>3. Undone' = Undone
    BY <2>1, <2>2 DEF Undone
  <2> QED
    BY <1>2, <2>1, <2>3
<1>5. ASSUME NEW m \in Minters, InsertToken(m) PROVE ReversalsAreExact'
  <2> PICK e : e = <<"TokenMinted", minting[m].jti>>
    OBVIOUS
  <2>1. entry_sets' = entry_sets /\ events' = events \cup {e}
    BY <1>5 DEF InsertToken
  <2>2. e[1] # "ConversionReversed"
    OBVIOUS
  <2>3. Undone' = Undone
    BY <2>1, <2>2 DEF Undone
  <2> QED
    BY <1>2, <2>1, <2>3
<1>6. ASSUME NEW cid \in Commitments, CreateCommitment(cid) \/ EndCommitment(cid)
      PROVE  ReversalsAreExact'
  <2>1. PICK e : /\ e = <<"CommitmentCreated", cid>> \/ e = <<"CommitmentEnded", cid>>
                 /\ entry_sets' = entry_sets /\ events' = events \cup {e}
    BY <1>6 DEF CreateCommitment, EndCommitment
  <2>2. e[1] # "ConversionReversed"
    BY <2>1
  <2>3. Undone' = Undone
    BY <2>1, <2>2 DEF Undone
  <2> QED
    BY <1>2, <2>1, <2>3
<1>7. ASSUME NEW h \in Handlers, CommitVerified(h) PROVE ReversalsAreExact'
  <2> PICK c : c = claim[h]
    OBVIOUS
  <2> PICK s : s = EntrySetOf(c)
    OBVIOUS
  <2> PICK e : e = <<"LedgerEntryPosted", "set", c.claim_id>>
    OBVIOUS
  <2> PICK f : f = <<"ConversionVerified", c.claim_id, c.jti, TokenOf(c).qid>>
    OBVIOUS
  <2>1. /\ Known(c)
        /\ entry_sets' = entry_sets \cup {s}
        /\ \A row \in consumed : row.claim_id # c.claim_id
    BY <1>7, NewConversion
  <2>2. events' = events \cup {e, f}
    BY <1>7 DEF CommitVerified
  <2>3. e[1] # "ConversionReversed" /\ f[1] # "ConversionReversed"
    OBVIOUS
  <2>4. Undone' = Undone
    BY <2>2, <2>3 DEF Undone
  <2>5. s.kind = "set" /\ s.claim_id = c.claim_id /\ NetOf(s.lines) = 0
    BY <2>1, PostedLinesBalance DEF EntrySetOf
  <2>6. \A t \in entry_sets : t.claim_id # c.claim_id
    BY <2>1 DEF IInv, RecordInv
  <2>7. Reversals' = Reversals
    BY <2>1, <2>5 DEF Reversals
  <2>8. \A t : ReversalEvent(t)' = ReversalEvent(t)
    BY DEF ReversalEvent
  <2>9. (Undone = {ReversalEvent(t.claim_id) : t \in Reversals})'
    BY <1>1, <2>4, <2>7, <2>8
  <2>10. \A a, b \in entry_sets' :
           a.kind = b.kind /\ a.claim_id = b.claim_id => a = b
    BY <1>1, <2>1, <2>5, <2>6
  <2>11. \A t \in entry_sets' :
           /\ NetOf(t.lines) = 0
           /\ t.kind = "rev" =>
                \E original \in entry_sets' :
                  /\ original.kind = "set"
                  /\ original.claim_id = t.claim_id
                  /\ t.lines = ReversalLines(original.lines)
    BY <1>1, <2>1, <2>5
  <2> QED
    BY <2>9, <2>10, <2>11 DEF ReversalsAreExact, Undone, ReversalEvent, Reversals
<1>8. ASSUME NEW r \in Reversers, CommitReverse(r) PROVE ReversalsAreExact'
  <2> PICK id : id = reversing[r]
    OBVIOUS
  <2> PICK s : s = ReversalSetOf(id)
    OBVIOUS
  <2> PICK e : e = <<"LedgerEntryPosted", "rev", id>>
    OBVIOUS
  <2> PICK f : f = ReversalEvent(id)
    OBVIOUS
  <2> PICK original : original = PostedSet(id)
    OBVIOUS
  <2>1. /\ id # None /\ ~HasSet("rev", id)
        /\ entry_sets' = entry_sets \cup {s}
        /\ events' = events \cup {e, f}
    BY <1>8 DEF CommitReverse, ReversalEvent
  <2>2. e[1] # "ConversionReversed" /\ f[1] = "ConversionReversed"
    BY DEF ReversalEvent
  <2>3. Undone' = Undone \cup {f}
    BY <2>1, <2>2 DEF Undone
  <2>4. HasSet("set", id)
    BY <2>1 DEF IInv, RecordInv
  <2>5. /\ original \in entry_sets /\ original.kind = "set"
        /\ original.claim_id = id
    BY <2>4 DEF HasSet, PostedSet
  <2>6. s.kind = "rev" /\ s.claim_id = id /\ s.lines = ReversalLines(original.lines)
    BY DEF ReversalSetOf
  <2>7. original.lines \in Lines /\ NetOf(original.lines) = 0
    BY <1>1, <2>5 DEF IInv, TypeOK
  <2>8. NetOf(s.lines) = 0
    BY <2>6, <2>7, ReversalBalances
  <2>9. Reversals' = Reversals \cup {s}
    BY <2>1, <2>6 DEF Reversals
  <2>10. \A t : ReversalEvent(t)' = ReversalEvent(t)
    BY DEF ReversalEvent
  <2>11. {ReversalEvent(t.claim_id) : t \in Reversals \cup {s}}
           = {ReversalEvent(t.claim_id) : t \in Reversals} \cup {f}
    BY <2>6
  <2>12. (Undone = {ReversalEvent(t.claim_id) : t \in Reversals})'
    BY <1>1, <2>3, <2>9, <2>10, <2>11
  <2>13. \A t \in entry_sets : t.kind = "rev" => t.claim_id # id
    BY <2>1 DEF HasSet
  <2>14. \A a, b \in entry_sets' :
           a.kind = b.kind /\ a.claim_id = b.claim_id => a = b
    BY <1>1, <2>1, <2>6, <2>13
  <2>15. \A t \in entry_sets' :
           /\ NetOf(t.lines) = 0
           /\ t.kind = "rev" =>
                \E o \in entry_sets' :
                  /\ o.kind = "set"
                  /\ o.claim_id = t.claim_id
                  /\ t.lines = ReversalLines(o.lines)
    BY <1>1, <2>1, <2>5, <2>6, <2>8
  <2> QED
    BY <2>12, <2>14, <2>15 DEF ReversalsAreExact, Undone, ReversalEvent, Reversals
<1> QED
  BY <1>3, <1>4, <1>5, <1>6, <1>7, <1>8, Writers

-----------------------------------------------------------------------------
(***************************************************************************)
(* The theorems.                                                           *)
(***************************************************************************)

\* The empty database satisfies the inductive invariant.
LEMMA InvInit == Init => IInv
<1> SUFFICES ASSUME Init PROVE IInv
  OBVIOUS
<1>1. TypeOK
  BY TypeInit
<1>2. HandlerInv /\ LockInv /\ Unanswered /\ AnswersMatchStore
  BY NoneAssumption
  DEF Init, HandlerInv, Standing, LockInv, Unanswered, AnswersMatchStore, Known
<1>3. MintInv /\ SingleUse /\ CacheIsSound
  BY DEF Init, MintInv, SingleUse, CacheIsSound
<1>4. RecordInv
  BY FS_EmptySet DEF Init, RecordInv
<1>5. CapEq /\ CapBound
  <2>1. \A cid \in Commitments : LiveConversions(cid) = {}
    BY DEF Init, LiveConversions, ConversionsOf
  <2>2. CapEq
    BY <2>1, FS_EmptySet DEF Init, CapEq
  <2>3. CapBound
    BY CorAssumption DEF Init, CapBound, Cors
  <2> QED
    BY <2>2, <2>3
<1> QED
  BY <1>1, <1>2, <1>3, <1>4, <1>5 DEF IInv

\* The inductive invariant holds in every reachable state.
THEOREM Invariant == Spec => []IInv
<1>1. IInv /\ [Next]_vars => IInv'
  BY TypeStep, HandlerStep, LockStep, MintStep, RecordStep, SingleUseStep,
     CapStep, CacheStep, AnswersStep DEF IInv
<1> QED
  BY <1>1, InvInit, PTL DEF Spec

\* Type correctness: no reachable state of the trio has a negative counter
\* or a malformed row, although the counters are decremented under races.
THEOREM TypeCorrect == Spec => []TypeOK
<1>1. IInv => TypeOK
  BY DEF IInv
<1> QED
  BY <1>1, Invariant, PTL

\* conversions_used counts the live conversions and never exceeds the cap,
\* whatever the interleaving of verdicts and reversals.
THEOREM CapCorrect == Spec => []CapRespected
<1>1. IInv => CapRespected
  BY DEF IInv, CapEq, CapBound, CapRespected
<1> QED
  BY <1>1, Invariant, PTL

\* verify() spends a token once, and its cache never refuses an unspent one.
THEOREM TokensCorrect == Spec => []TokensAreSpentOnce
<1>1. IInv => TokensAreSpentOnce
  BY DEF IInv, TokensAreSpentOnce
<1> QED
  BY <1>1, Invariant, PTL

\* Every verdict that verify() answers is the one stored under its key.
THEOREM AnswersCorrect == Spec => []AnswersMatchStore
<1>1. IInv => AnswersMatchStore
  BY DEF IInv
<1> QED
  BY <1>1, Invariant, PTL

\* No step of the trio rewrites or removes a consumption, an entry set, an
\* event or a stored verdict.
THEOREM HistoryCorrect == Spec => HistoryIsAppendOnly
<1> DEFINE Kept ==
      /\ consumed \subseteq consumed'
      /\ entry_sets \subseteq entry_sets'
      /\ events \subseteq events'
      /\ \A k \in Keys :
           idempotency_keys[k] # None =>
             idempotency_keys'[k] = idempotency_keys[k]
<1>1. IInv /\ [Next]_vars => [Kept]_vars
  BY RecordsStay
<1>2. [][Kept]_vars => HistoryIsAppendOnly
  BY DEF HistoryIsAppendOnly
<1> HIDE DEF Kept
<1> QED
  BY <1>1, <1>2, Invariant, PTL DEF Spec

\* A claim that arrives after its mandate was revoked never verifies, whatever
\* the interleaving of the directory lookup, the revocation and the commit.
THEOREM RevocationCorrect == Spec => []RevocationTakesEffect
<1>1. Init => RevocationInv
  BY DEF Init, RevocationInv, Unrevoked, LetThrough
<1>2. RevocationInv => RevocationTakesEffect
  BY DEF RevocationInv, Unrevoked, LetThrough, RevocationTakesEffect
<1> QED
  BY <1>1, <1>2, RevocationStep, Invariant, PTL DEF Spec

\* A conversion's token, entry set, event and stored verdict exist together
\* or not at all: no crash, race or rollback leaves one of them alone.
THEOREM AtomicCorrect == Spec => []VerdictIsAtomic
<1>1. Init => AtomicInv
  BY DEF Init, AtomicInv, Announced
<1> QED
  BY <1>1, AtomicStep, AtomicImplies, Invariant, PTL DEF Spec

\* What is left of a budget and the bounties posted against it always make the
\* budget, every entry set balances, and a reversal cancels its own conversion.
THEOREM BooksCorrect == Spec => []BooksAreExact
<1>1. Init => BooksInv
  <2> SUFFICES ASSUME Init PROVE BooksInv
    OBVIOUS
  <2>1. \A cid : OwedBy(cid) = {}
    BY DEF Init, OwedBy
  <2>2. BudgetInv
    <3>1. Amounts({})
      BY FS_EmptySet DEF Amounts
    <3>2. \A cid \in Commitments : /\ budget_remaining[cid] = Cor[cid].budget
                                   /\ Cor[cid].budget \in Nat \cup {None}
      BY CorAssumption DEF Init, Cors
    <3>3. \A cid \in Commitments : budget_remaining[cid] # None =>
            budget_remaining[cid] + 0 = Cor[cid].budget
      BY <3>2
    <3> QED
      BY <2>1, <3>1, <3>3, OwedEmpty DEF BudgetInv, BudgetAdds
  <2>3. ReversalsAreExact
    BY DEF Init, ReversalsAreExact
  <2> QED
    BY <2>2, <2>3 DEF BooksInv
<1>2. IInv /\ BooksInv /\ [Next]_vars => BooksInv'
  BY BudgetStep, ReversalsStep DEF BooksInv
<1>3. IInv /\ BooksInv => BooksAreExact
  BY BooksInvBalance DEF IInv
<1> QED
  BY <1>1, <1>2, <1>3, Invariant, PTL DEF Spec
=============================================================================
