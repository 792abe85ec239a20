---------------------------- MODULE MCVerification ----------------------------
(***************************************************************************)
(* Instances of ConversionVerification for TLC.  Times are ticks, amounts  *)
(* a few pence; every constant below is the value of one constant of the   *)
(* specification in one of the configurations.                             *)
(***************************************************************************)
EXTENDS ConversionVerification, TLC

CONSTANTS
  c1, h1, h2, k1, k2, j1, j2, q1, q2, m1, a1

Symmetry == Permutations({h1, h2}) \cup Permutations({k1, k2})

\* A commitment whose cap is one conversion and whose budget is one bounty
\* and a half: 25 percent of the order, split 20/60/20.
CapCor ==
  [cid \in {c1} |->
    [merchant_id |-> "mer_1",
     bounty |-> [type |-> "pct_of_order", amount |-> 0, pct_bps |-> 2500],
     take_rate_bps |-> 2000, agent_commission_bps |-> 6000,
     attribution_window_s |-> 3, eligible_identity_tiers |-> {"linked"},
     max_conversions |-> 1, clawback_window_s |-> 0,
     valid_from |-> 0, valid_until |-> 3, budget |-> 15]]

\* Two unrelated quotes on it, no wallet.
CapMints ==
  {[jti |-> t[1], cid |-> c1, qid |-> t[2], tier |-> "linked",
    expires_at |-> 1, mandate_ref |-> None, apr |-> None] :
     t \in {<<j1, q1>>, <<j2, q2>>}}

Order(claimId, jti, gross, ts) ==
  [claim_id |-> claimId, merchant_id |-> "mer_1", jti |-> jti,
   gross_value |-> gross, ts |-> ts, signed |-> TRUE]

CapClaims == {Order("clm_1", j1, 40, 1), Order("clm_2", j2, 40, 1)}
NoMandates == [m \in {} |-> None]

\* An uncapped, unbudgeted commitment.
OpenCor ==
  [cid \in {c1} |->
    [CapCor[c1] EXCEPT
      !.bounty = [type |-> "fixed", amount |-> 7, pct_bps |-> 0],
      !.max_conversions = None, !.budget = None]]

\* Rates that add up to more than the whole bounty, which the Commitment
\* contract accepts: a larger order cannot be posted.
OverdrawnCor ==
  [cid \in {c1} |->
    [OpenCor[c1] EXCEPT
      !.bounty = [type |-> "pct_of_order", amount |-> 0, pct_bps |-> 2000],
      !.take_rate_bps = 6000]]

\* One quote minted twice: walletless, then again for an approval (same qid,
\* fresh jti, apr set).
RemintMints ==
  {[jti |-> j1, cid |-> c1, qid |-> q1, tier |-> "linked", expires_at |-> 1,
    mandate_ref |-> None, apr |-> None],
   [jti |-> j2, cid |-> c1, qid |-> q1, tier |-> "linked", expires_at |-> 1,
    mandate_ref |-> m1, apr |-> a1]}
RemintClaims ==
  {Order("clm_1", j1, 5, 1), Order("clm_1", j1, 5, 2),
   Order("clm_2", j2, 5, 1), Order("clm_2", j2, 25, 1)}
RemintApproval ==
  [a \in {a1} |-> [mandate_id |-> m1, quote_id |-> q1, exp |-> 1]]
RemintMandate == [m \in {m1} |-> [per_txn |-> 25, per_month |-> 30]]

\* One claim id submitted with two tokens.
ClashClaims == {Order("clm_1", j1, 5, 0), Order("clm_1", j2, 5, 0)}

=============================================================================
