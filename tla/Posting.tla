------------------------------- MODULE Posting -------------------------------
(***************************************************************************)
(* The double-entry arithmetic of the trio's settlement engine             *)
(* (apps/trio/src/settlement/posting.ts): how a bounty is computed, split  *)
(* between platform, agent and reserve, posted as a balanced entry set and *)
(* reversed.  Amounts are integer pence.                                   *)
(*                                                                         *)
(* An entry set has one line per account role.  The side and the amount of *)
(* a line are one signed number, credit positive and debit negative, which *)
(* is how statements.ts and the netting query read the lines back.         *)
(***************************************************************************)
EXTENDS Integers

\* The denominator of every rate in basis points.
BasisPoints == 10000

\* `bounty` is the bounty of a commitment: `type`, and the `amount` (fixed)
\* or the `pct_bps` (pct_of_order) that the type calls for.
BountyFor(bounty, grossPence) ==
  IF bounty.type = "fixed"
  THEN bounty.amount
  ELSE (grossPence * bounty.pct_bps) \div BasisPoints

\* The rounding remainder of both floors lands in the reserve.
SplitBounty(bountyPence, takeRateBps, commissionBps) ==
  LET platform == (bountyPence * takeRateBps) \div BasisPoints
      agent    == (bountyPence * commissionBps) \div BasisPoints
  IN  [platform |-> platform,
       agent    |-> agent,
       reserve  |-> (bountyPence - platform) - agent]

\* pence() refuses a negative amount, so a set with a negative share is
\* never built: EntrySet.parse throws instead.
Postable(split) ==
  split.platform >= 0 /\ split.agent >= 0 /\ split.reserve >= 0

\* The lines of the balanced set of a verified conversion: one debit to
\* the merchant's payable, three credits.
ConversionLines(bountyPence, split) ==
  [merchant_payable |-> -bountyPence,
   agent_receivable |-> split.agent,
   platform_revenue |-> split.platform,
   reserve          |-> split.reserve]

\* Mutant of ReversalLines: the reserve is left where it was.
ReversalKeepingReserve(lines) ==
  [merchant_payable |-> -lines.merchant_payable,
   agent_receivable |-> -lines.agent_receivable,
   platform_revenue |-> -lines.platform_revenue,
   reserve          |-> lines.reserve]

\* Every line side-flipped, amounts and accounts untouched.
ReversalLines(lines) ==
  [merchant_payable |-> -lines.merchant_payable,
   agent_receivable |-> -lines.agent_receivable,
   platform_revenue |-> -lines.platform_revenue,
   reserve          |-> -lines.reserve]

\* The sum of the credits minus the sum of the debits, which the deferred
\* trigger entry_set_balance requires to be zero at COMMIT.
NetOf(lines) ==
  ((lines.merchant_payable + lines.agent_receivable)
    + lines.platform_revenue) + lines.reserve

=============================================================================
