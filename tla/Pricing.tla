-------------------------------- MODULE Pricing --------------------------------
(***************************************************************************)
(* What an offer's mechanics do to a list price, in whole pence             *)
(* (contracts pricing.ts), and the two quantities the core derives from it: *)
(* the consumer's value at a reference price (eligibility/stacking.ts) and  *)
(* the margin an offer costs (guardrails/rules.ts).                         *)
(***************************************************************************)
EXTENDS Integers

\* The variants, by what they do to the price.
PercentOff == {"percentage_off", "threshold_percentage"}
ValueOff == {"fixed_off", "threshold_discount", "welcome_bonus", "winback",
             "birthday_reward", "referral_reward"}
PriceSetters == {"bundle", "member_price"}
PointsTypes == {"points_multiplier", "points_bonus", "points_threshold_bonus",
                "points_per_sku", "points_exchange_boost", "points_back_pct"}
Neutral == PointsTypes \cup
  {"bogo", "multibuy_price", "free_shipping", "free_gift", "tier_unlock", "tier_accelerator",
   "tier_gift", "welcome_points", "early_access", "experience_upgrade", "vip_event_invite"}
\* These ask for a minimum spend before they do anything (points_threshold_bonus
\* has one too, but promises it whatever the list price is).
Gated == {"threshold_discount", "threshold_percentage", "free_shipping", "free_gift"}
MechanicsTypes == PercentOff \cup ValueOff \cup PriceSetters \cup Neutral

\* A mechanic: its type, its basis points, the money it names, its minimum
\* spend (0 where it has none) and, for a bundle, the SKUs in it.
Mechanics(Skus) ==
  [type : MechanicsTypes, bps : Nat, value : Nat, min_spend : Nat, skus : SUBSET Skus]

FloorBps(amount, bps) == (amount * bps) \div 10000
Clamp(list, price) == IF price < 0 THEN 0 ELSE IF price > list THEN list ELSE price

Applies(list, m) == m.type \notin Gated \/ list >= m.min_spend

\* The price a mechanic that applies asks for, before it is clamped.
Asked(list, m) ==
  IF m.type \in PercentOff THEN list - FloorBps(list, m.bps)
  ELSE IF m.type \in ValueOff THEN list - m.value
  ELSE IF m.type \in PriceSetters THEN m.value
  ELSE list

applyMechanics(list, m) ==
  IF Applies(list, m) THEN [final |-> Clamp(list, Asked(list, m)), applied |-> TRUE]
                      ELSE [final |-> list, applied |-> FALSE]

REFERENCE_LIST_PENCE == 10000
consumerValueScore(m) == REFERENCE_LIST_PENCE - applyMechanics(REFERENCE_LIST_PENCE, m).final

isPointsDenominated(m) == m.type \in PointsTypes

marginCostBps(list, m) ==
  IF list = 0 THEN 0 ELSE ((list - applyMechanics(list, m).final) * 10000) \div list

\* The share of the budget that is left against the share of the window that
\* is, at least a hundredth; exact where the code divides floats.
lambdaBps(remaining, reference, from, until, now) ==
  LET total == until - from
      left == Clamp(100 * total, 100 * (until - now))
      leftAtLeast == IF left < total THEN total ELSE left
  IN  (10000 * remaining * 100 * total) \div (reference * leftAtLeast)

===============================================================================
