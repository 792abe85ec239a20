------------------------------ MODULE Eligibility ------------------------------
(***************************************************************************)
(* The pure stages of an offer read, as functions of what was fetched for  *)
(* them: the filter chain with its stacking groups and merchant rules      *)
(* (eligibility/), the ranking by rules or by the sidecar (decisioning/)   *)
(* and the guardrails (guardrails/).  A candidate is an offer with the     *)
(* commitment it pointed at; offer ids are numbers, in the order of ids.   *)
(***************************************************************************)
EXTENDS Pricing, Ordering, Functions, FiniteSets, Sequences

CONSTANTS
  Null,          \* null: no group, no commitment, no limit, no setting
  All,           \* the scope that every SKU matches
  ListPrice      \* listPriceFor: the list price of each offer

-----------------------------------------------------------------------------
\* A bundle also matches the SKUs in it.
skuMatches(offer, sku) ==
  \/ offer.sku_scope = All
  \/ offer.sku_scope # All /\ sku \in offer.sku_scope
  \/ offer.mechanics.type = "bundle" /\ sku \in offer.mechanics.skus

Reasons == <<"OFFER_NOT_LIVE", "TIER_INELIGIBLE", "SKU_MISMATCH", "COMMITMENT_ENDED",
             "CAP_EXHAUSTED">>

\* A commitment whose status could not be read counts as ended.
Fails(c, input) ==
  LET status == IF c.cor = Null THEN Null ELSE input.statuses[c.cor]
      live == status # Null /\ status.status = "live"
  IN  [ OFFER_NOT_LIVE   |-> ~(c.offer.status = "live" /\ input.now \in c.offer.from .. c.offer.until),
        TIER_INELIGIBLE  |-> input.tier \notin c.offer.tiers,
        SKU_MISMATCH     |-> input.sku # Null /\ ~skuMatches(c.offer, input.sku),
        COMMITMENT_ENDED |-> c.cor # Null /\ ~live,
        CAP_EXHAUSTED    |-> live /\ status.max # Null /\ status.used >= status.max ]

Failed(c, input) == {i \in DOMAIN Reasons : Fails(c, input)[Reasons[i]]}

\* The first check that fails names the reason.
ReasonFor(c, input) ==
  Reasons[CHOOSE i \in Failed(c, input) : \A j \in Failed(c, input) : i <= j]

Score(c) == consumerValueScore(c.offer.mechanics)
Better(c, d) == Score(c) > Score(d) \/ (Score(c) = Score(d) /\ c.offer.id < d.offer.id)

\* Mutant of winners: a tie goes to the later offer, and both stay.
winnersKeepingTies(eligible) ==
  {c \in Range(eligible) : \A d \in Range(eligible) :
     d.offer.group = c.offer.group => Score(c) >= Score(d)}

\* The winners so far, when one more candidate comes.
Challenge(won, c) ==
  LET rivals == {d \in won : d.offer.group = c.offer.group}
  IN  IF c.offer.group = Null \/ \E d \in rivals : ~Better(c, d) THEN won
      ELSE (won \ rivals) \cup {c}

\* The winner of each stacking group, found in one pass.
winners(eligible) ==
  LET won[i \in 0 .. Len(eligible)] == IF i = 0 THEN {} ELSE Challenge(won[i - 1], eligible[i])
  IN  won[Len(eligible)]

dedupeStacking(eligible) ==
  LET won == winners(eligible)
  IN  Only(eligible, {i \in DOMAIN eligible : eligible[i].offer.group = Null \/ eligible[i] \in won})

\* A rule is one of three kinds; what it does not name is Null.
ruleExcludes(rule, offer, input) ==
  /\ rule.merchant = offer.merchant
  /\ \/ rule.type = "agent" /\ input.agent # Null /\ rule.agent = input.agent
     \/ rule.type = "tier" /\ \/ rule.tier # Null /\ rule.tier = input.tier
                              \/ rule.segment # Null /\ rule.segment = input.segment
     \/ rule.type = "sku" /\ (offer.sku_scope = All \/ rule.sku \in offer.sku_scope)

Excluded(cs, reason) == {[id |-> c.offer.id, reason |-> reason] : c \in cs}

\* The rules come after the groups: an excluded winner leaves its group empty.
filterEligibility(candidates, input, rules) ==
  LET eligible == Only(candidates, {i \in DOMAIN candidates : Failed(candidates[i], input) = {}})
      kept == dedupeStacking(eligible)
      survivors == Only(kept, {i \in DOMAIN kept : ~\E r \in rules : ruleExcludes(r, kept[i].offer, input)})
  IN  [ eligible |-> survivors,
        excluded |->
          {[id |-> c.offer.id, reason |-> ReasonFor(c, input)] :
             c \in Range(candidates) \ Range(eligible)}
          \cup Excluded(Range(eligible) \ Range(kept), "STACKING_DEDUPED")
          \cup Excluded(Range(kept) \ Range(survivors), "MERCHANT_EXCLUDED") ]

-----------------------------------------------------------------------------
\* RulesDecisioner: priority, then a bounty, then the value, then the id.
Before(priority, c, d) ==
  LET key(e) == <<-priority[e.offer.merchant], IF e.cor = Null THEN 1 ELSE 0, -Score(e),
                  e.offer.id>>
  IN  Precedes(key(c), key(d))

rankByRules(eligible, priority) ==
  LET cs == Range(eligible)
  IN  SortedBy(cs, {p \in cs \X cs : Before(priority, p[1], p[2])})

Ids(cs) == {c.offer.id : c \in Range(cs)}

\* The sidecar's answer, or Null when there was none that parses.
isPermutation(order, eligible) ==
  Len(order) = Len(eligible) /\ Range(order) = Ids(eligible)

\* HttpDecisioner: an answer that is not a permutation is refused wholesale.
rank(eligible, order, priority) ==
  IF eligible # <<>> /\ order # Null /\ isPermutation(order, eligible)
    THEN [i \in 1 .. Len(order) |-> CHOOSE c \in Range(eligible) : c.offer.id = order[i]]
    ELSE rankByRules(eligible, priority)

-----------------------------------------------------------------------------
\* Settings of a merchant: denied terms and categories, a ceiling, the pacing.
denylisted(offer, settings) ==
  \/ offer.words \cap settings.terms # {}
  \/ offer.sku_scope # All /\ offer.sku_scope \cap settings.categories # {}

SuppressedFor(c, input, settings) ==
  LET status == IF c.cor = Null THEN Null ELSE input.statuses[c.cor]
      rule == settings[c.offer.merchant]
  IN  IF status # Null /\ status.budget # Null /\ status.budget <= 0 THEN "BUDGET_EXHAUSTED"
      ELSE IF rule = Null THEN "no"
      ELSE IF denylisted(c.offer, rule) THEN "BRAND_DENYLIST"
      ELSE IF rule.ceiling # Null
              /\ marginCostBps(ListPrice[c.offer.id], c.offer.mechanics) > rule.ceiling
        THEN "MARGIN_CEILING_EXCEEDED"
      ELSE "no"

\* The merchants of shown offers whose budget burns too fast for the time left.
LowLambda(passed, input, settings) ==
  {m \in {c.offer.merchant : c \in passed} :
     \E c \in passed :
       LET pacing == settings[m].pacing
           status == input.statuses[c.cor]
       IN  /\ c.offer.merchant = m /\ settings[m] # Null /\ pacing # Null
           /\ c.cor # Null /\ status # Null /\ status.budget # Null
           /\ c.offer.until > c.offer.from
           /\ lambdaBps(status.budget, pacing.reference, c.offer.from, c.offer.until, input.now)
                < pacing.threshold }

\* Points of merchants on a low budget come before everything else.
applyGuardrails(ranked, input, settings) ==
  LET shown == Only(ranked, {i \in DOMAIN ranked : SuppressedFor(ranked[i], input, settings) = "no"})
      low == LowLambda(Range(shown), input, settings)
      first(c) == c.offer.merchant \in low /\ isPointsDenominated(c.offer.mechanics)
  IN  [ passed |-> Only(shown, {i \in DOMAIN shown : first(shown[i])})
                   \o Only(shown, {i \in DOMAIN shown : ~first(shown[i])}),
        suppressed |-> {[id |-> c.offer.id, reason |-> SuppressedFor(c, input, settings)] :
                          c \in Range(ranked) \ Range(shown)} ]

===============================================================================
