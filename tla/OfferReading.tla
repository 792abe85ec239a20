----------------------------- MODULE OfferReading ------------------------------
(***************************************************************************)
(* readOffers (offers/read-offers.ts): the stages of a read one after the  *)
(* other, each on what the earlier ones fetched, against operators who     *)
(* edit the offers (Offers) and the merchants' rules, and a consumer who   *)
(* withdraws her consent.  A read ends with a quote for every offer that   *)
(* has a commitment, and for a registered agent a token for the quote      *)
(* (quotes/service.ts); a check_eligibility ends with the filter.          *)
(***************************************************************************)
EXTENDS Offers

CONSTANTS
  Readers,
  Inputs,         \* the reads there are: agent, tier, segment, sku, now, with a mandate or not,
                  \* and the offers asked about, Null if it is not a check_eligibility
  MaxReads,       \* bound: how many of them are made
  Orders(_),      \* what the sidecar may answer: orders of some offers, or Null
  Rules,          \* the rules merchants may have
  Settings, Priority,
  Keys, Class,    \* keys of the consumer's data, and the flag each falls under, or Null
  QuoteTtl, TokenTtlBound, AttributionWindow

\* Offers are numbers, in the order of their ids; times and lives are in
\* seconds, prices in pence, and a permutation names offers.
ASSUME ReadingAssumption ==
  /\ IsFiniteSet(Offers) /\ Offers \subseteq Int /\ ListPrice \in [Offers -> Nat]
  /\ Cap \in Int /\ Null \notin Int
  /\ \A m \in Merchants : Priority[m] \in Int
  /\ QuoteTtl \in Int /\ TokenTtlBound \in Int /\ AttributionWindow \in Int
  /\ \A ids \in SUBSET Offers : Orders(ids) \subseteq Seq(Offers) \cup {Null}
  /\ \A input \in Inputs :
       /\ input.now \in Int
       /\ input.wanted # Null => input.wanted \subseteq Offers
       /\ input = [ agent |-> input.agent, tier |-> input.tier, segment |-> input.segment,
                    sku |-> input.sku, now |-> input.now, mandate |-> input.mandate,
                    statuses |-> input.statuses, wanted |-> input.wanted ]

VARIABLES
  reads,          \* each reader's read in flight
  made,           \* how many reads were made
  quotes,         \* core.quotes, each with its QuoteIssued event: one transaction
  suppressions,   \* OfferSuppressed events
  tokens,         \* the tokens the trio minted, in order
  flags,          \* the data_sharing flags of the mandate; Null once it is revoked
  eligibility_rules, \* core.eligibility_rules
  pd_store        \* wallet.pd_store: the consumer's keys, consented or not; Null if absent

sources == <<flags, eligibility_rules, pd_store>>
readVars == <<reads, made, quotes, suppressions, tokens, sources>>
readingVars == <<offerVars, readVars>>

NoStatuses == [c \in Cors |-> Null]
NoRead == [ step |-> "idle", id |-> 0, input |-> Null, candidates |-> <<>>, asked |-> {},
            eligibility |-> Null, granted |-> {}, pd |-> {}, verdict |-> Null, todo |-> <<>>,
            token |-> Null, withheld |-> {}, standing |-> {} ]

At(r, step) == reads[r].step = step

\* Mutant of allowed: a key without a class is free.
allowedWithoutClass(k, granted) == Class[k] = Null \/ Class[k] \in granted

\* A key is shared under the flag of its class, and under no other.
allowed(k, granted) == Class[k] # Null /\ Class[k] \in granted

\* RulesStore.list: every merchant's rules, now.
listRules == eligibility_rules

\* The candidates: one query for live offers that match the SKU, of which a
\* check_eligibility keeps those it asks about; this snapshot is what the rest
\* of the read is about.  What the consumer withholds now, and which rules
\* stand, is remembered for the properties below.
Candidates(r, input) ==
  /\ At(r, "idle") /\ made < MaxReads /\ made' = made + 1
  /\ LET matching == {o \in Offers : /\ offers[o].row.status = "live"
                                     /\ input.sku = Null \/ skuMatches(offers[o].row, input.sku)
                                     /\ input.wanted = Null \/ o \in input.wanted}
         ids == Ascending(matching)
     IN  reads' = [reads EXCEPT ![r] = [NoRead EXCEPT
           !.step = "statuses", !.id = made', !.input = [input EXCEPT !.statuses = NoStatuses],
           !.candidates = [i \in 1 .. Len(ids) |-> [offer |-> offers[ids[i]].row, cor |-> offers[ids[i]].cor]],
           !.asked = {offers[o].cor : o \in matching} \ {Null},
           !.withheld = {k \in Keys : flags = Null \/ pd_store[k] # TRUE \/ Class[k] \notin flags},
           !.standing = listRules]]
  /\ UNCHANGED <<offerVars, quotes, suppressions, tokens, sources>>

OnlyReads == UNCHANGED <<offerVars, made, quotes, suppressions, tokens, sources>>

\* What the trio says of a commitment now; any other answer, or none, is Null.
StatusRead(c, answered) == IF answered THEN cors[c] ELSE Null

\* One call per distinct commitment, all in flight together.
FetchStatus(r, c, answered) ==
  /\ At(r, "statuses") /\ c \in reads[r].asked
  /\ reads' = [reads EXCEPT ![r].asked = @ \ {c},
                            ![r].input.statuses[c] = StatusRead(c, answered)]
  /\ OnlyReads

Filter(r) ==
  /\ At(r, "statuses") /\ reads[r].asked = {}
  /\ reads' = [reads EXCEPT
       ![r].step = IF reads[r].input.wanted # Null THEN "results"
                   ELSE IF reads[r].input.mandate THEN "mandate" ELSE "decide",
       ![r].eligibility = filterEligibility(reads[r].candidates, reads[r].input, listRules)]
  /\ OnlyReads

\* checkEligibility: a verdict for each offer asked about; one that was no
\* candidate is not live.
results(read) ==
  [o \in read.input.wanted |->
     IF o \in Ids(read.eligibility.eligible) THEN "eligible"
     ELSE IF \E e \in read.eligibility.excluded : e.id = o
       THEN (CHOOSE e \in read.eligibility.excluded : e.id = o).reason
       ELSE "OFFER_NOT_LIVE"]

AnswerCheck(r) ==
  /\ At(r, "results")
  /\ reads' = [reads EXCEPT ![r] = NoRead]
  /\ OnlyReads

\* pdFor: one query for the mandate with its flags, if it is active ...
ReadMandate(r) ==
  /\ At(r, "mandate")
  /\ reads' = IF flags = Null THEN [reads EXCEPT ![r].step = "decide"]
              ELSE [reads EXCEPT ![r].step = "items", ![r].granted = flags]
  /\ OnlyReads

\* ... and one for the consented data, of which the flags let some through.
ReadItems(r) ==
  /\ At(r, "items")
  /\ reads' = [reads EXCEPT ![r].step = "decide",
       ![r].pd = {k \in Keys : pd_store[k] = TRUE /\ allowed(k, reads[r].granted)}]
  /\ OnlyReads

\* The ranking, the guardrails, and an event for each offer they suppress.
Decide(r, order) ==
  LET ranked == rank(reads[r].eligibility.eligible, order, Priority)
      verdict == applyGuardrails(ranked, reads[r].input, Settings)
  IN  /\ At(r, "decide")
      /\ reads' = [reads EXCEPT ![r].step = "quote", ![r].verdict = verdict,
                     ![r].todo = Only(verdict.passed, {i \in DOMAIN verdict.passed : verdict.passed[i].cor # Null})]
      /\ suppressions' = suppressions \cup {<<reads[r].id, s>> : s \in verdict.suppressed}
      /\ UNCHANGED <<offerVars, made, quotes, tokens, sources>>

-----------------------------------------------------------------------------
\* issueOne, for the next offer that has a commitment.
QuoteId(r) == <<reads[r].id, Head(reads[r].todo).offer.id>>
Provisional(r) == reads[r].input.now + Clamp(TokenTtlBound, QuoteTtl)

\* The trio's clock may lag a second; a token lives as long as the attribution
\* window at most.
TokenOf(r, lag) ==
  [ qid |-> QuoteId(r), cor |-> Head(reads[r].todo).cor, aid |-> reads[r].input.agent,
    exp |-> reads[r].input.now - lag + Clamp(TokenTtlBound, AttributionWindow) ]

\* Mutant of Mint: a mint without an answer is tried again.
MintRetrying(r, lag, answered) ==
  LET token == TokenOf(r, lag)
  IN  /\ At(r, "quote") /\ reads[r].todo # <<>> /\ reads[r].input.agent # Null
      /\ cors[token.cor].status = "live" /\ Provisional(r) <= token.exp
      /\ tokens' = Append(tokens, token)
      /\ reads' = IF answered THEN [reads EXCEPT ![r].step = "row", ![r].token = token] ELSE reads
      /\ UNCHANGED <<offerVars, made, quotes, suppressions, sources>>

\* The trio mints for a commitment that is live, if the quote ends before the
\* token.  A lost answer is not asked for again: the quote ships unpayable.
Mint(r, lag, answered) ==
  LET token == TokenOf(r, lag)
  IN  /\ At(r, "quote") /\ reads[r].todo # <<>> /\ reads[r].input.agent # Null
      /\ cors[token.cor].status = "live" /\ Provisional(r) <= token.exp
      /\ tokens' = Append(tokens, token)
      /\ reads' = [reads EXCEPT ![r].step = "row", ![r].token = IF answered THEN token ELSE Null]
      /\ UNCHANGED <<offerVars, made, quotes, suppressions, sources>>

\* An anonymous read asks for no token; otherwise the mint was refused or failed.
NoMint(r) ==
  /\ At(r, "quote") /\ reads[r].todo # <<>>
  /\ reads' = [reads EXCEPT ![r].step = "row", ![r].token = Null]
  /\ OnlyReads

\* The row and its event, with the price of the offer as it was shown.
InsertQuote(r) ==
  LET c == Head(reads[r].todo)
      token == reads[r].token
  IN  /\ At(r, "row")
      /\ quotes' = quotes \cup
           {[ qid |-> QuoteId(r), offer |-> c.offer.id, cor |-> c.cor, agent |-> reads[r].input.agent,
              token |-> token # Null,
              final |-> applyMechanics(ListPrice[c.offer.id], c.offer.mechanics).final,
              expires_at |-> IF token = Null THEN Provisional(r)
                             ELSE IF token.exp < Provisional(r) THEN token.exp ELSE Provisional(r) ]}
      /\ reads' = [reads EXCEPT ![r].step = "quote", ![r].todo = Tail(@), ![r].token = Null]
      /\ UNCHANGED <<offerVars, made, suppressions, tokens, sources>>

Answer(r) ==
  /\ At(r, "quote") /\ reads[r].todo = <<>>
  /\ reads' = [reads EXCEPT ![r] = NoRead]
  /\ OnlyReads

\* The core restarts; its reads are gone, rows and tokens stay.
RestartCore ==
  /\ \E r \in Readers : ~At(r, "idle")
  /\ reads' = [r \in Readers |-> NoRead]
  /\ OnlyReads

-----------------------------------------------------------------------------
\* The consumer stores, withholds or removes a key, or revokes the mandate.
PutPd(k, consented) ==
  /\ Change
  /\ pd_store' = [pd_store EXCEPT ![k] = consented]
  /\ reads' = [r \in Readers |-> IF consented = TRUE THEN [reads[r] EXCEPT !.withheld = @ \ {k}]
                                 ELSE reads[r]]
  /\ UNCHANGED <<offers, offer_commitments, cors, operators, published,
                 made, quotes, suppressions, tokens, flags, eligibility_rules>>

RevokeSharing ==
  /\ Change
  /\ flags # Null /\ flags' = Null
  /\ UNCHANGED <<offers, offer_commitments, cors, operators, published,
                 reads, made, quotes, suppressions, tokens, eligibility_rules, pd_store>>

\* A merchant's rule is added or removed in the control plane.
EditRules(rule) ==
  /\ Change
  /\ IF rule \in eligibility_rules
       THEN /\ eligibility_rules' = eligibility_rules \ {rule}
            /\ reads' = [r \in Readers |-> [reads[r] EXCEPT !.standing = @ \ {rule}]]
       ELSE eligibility_rules' = eligibility_rules \cup {rule} /\ UNCHANGED reads
  /\ UNCHANGED <<offers, offer_commitments, cors, operators, published,
                 made, quotes, suppressions, tokens, flags, pd_store>>

ReadingInit ==
  /\ reads = [r \in Readers |-> NoRead] /\ made = 0
  /\ quotes = {} /\ suppressions = {} /\ tokens = <<>>
  /\ eligibility_rules = Rules

ReadingNext ==
  \/ OffersNext /\ UNCHANGED readVars
  \/ \E r \in Readers :
       \/ \E input \in Inputs : Candidates(r, input)
       \/ \E c \in Cors, answered \in BOOLEAN : FetchStatus(r, c, answered)
       \/ Filter(r)
       \/ AnswerCheck(r)
       \/ ReadMandate(r)
       \/ ReadItems(r)
       \/ At(r, "decide") /\ \E order \in Orders(Ids(reads[r].eligibility.eligible)) : Decide(r, order)
       \/ \E lag \in {0, 1}, answered \in BOOLEAN : Mint(r, lag, answered)
       \/ NoMint(r)
       \/ InsertQuote(r)
       \/ Answer(r)
  \/ RestartCore
  \/ \E k \in Keys, consented \in BOOLEAN \cup {Null} : PutPd(k, consented)
  \/ RevokeSharing
  \/ \E rule \in Rules : EditRules(rule)

\* The market from its beginning, with any consents.
ReadingSpec ==
  /\ OffersInit /\ changes \in Nat /\ ReadingInit
  /\ flags \in {Null} \cup SUBSET {Class[k] : k \in Keys} /\ pd_store \in [Keys -> BOOLEAN \cup {Null}]
  /\ [][ReadingNext]_readingVars

-----------------------------------------------------------------------------
\* What the filter lets through: a candidate for the consumer's tier that no rule
\* excludes which has stood since the read arrived, by facts the trio confirmed
\* in this read.
SoundlyEligible(c, read) ==
  /\ c \in Range(read.candidates) /\ read.input.tier \in c.offer.tiers
  /\ c.cor # Null => LET s == read.input.statuses[c.cor]
                     IN  s # Null /\ s.status = "live" /\ s.used < s.max
  /\ \A rule \in read.standing : ~ruleExcludes(rule, c.offer, read.input)

\* A read shows what it should, each offer exactly once or not at all, and says
\* why not; only a better offer of its group displaces an offer; whatever the
\* sidecar answers, what is shown was eligible, with budget left, by facts the
\* trio confirmed in this read and by every rule that stood throughout, and an
\* offer in points of a merchant low on budget is above her priced ones
\* (read-offers.ts, eligibility/, decisioning/, guardrails/).  What
\* check_eligibility calls eligible is so by the same measure, and nothing asked
\* about goes without a verdict.
ReadIsSound(read) ==
  LET passed == read.verdict.passed
      shown == Ids(passed)
      fates == {<<e.id, e.reason>> : e \in read.eligibility.excluded \cup read.verdict.suppressed}
      names == {f[1] : f \in fates}
      of(id) == CHOOSE c \in Range(read.candidates) : c.offer.id = id
      stayed(c) == \A f \in fates : f[1] = c.offer.id => f[2] \in
        {"MERCHANT_EXCLUDED", "BUDGET_EXHAUSTED", "BRAND_DENYLIST", "MARGIN_CEILING_EXCEEDED"}
  IN  /\ shown \cup names = Ids(read.candidates) /\ shown \cap names = {}
      /\ Cardinality(fates) = Cardinality(names) /\ Cardinality(shown) = Len(passed)
      /\ \A c, d \in Range(passed) : c.offer.group = d.offer.group => c = d \/ c.offer.group = Null
      /\ \A f \in fates : f[2] = "STACKING_DEDUPED" =>
           \E d \in Range(read.candidates) :
             /\ d.offer.group = of(f[1]).offer.group /\ stayed(d)
             /\ Score(d) >= Score(of(f[1]))
      /\ \A c \in Range(passed) :
           SoundlyEligible(c, read) /\ (c.cor # Null => read.input.statuses[c.cor].budget > 0)
      /\ \A i, j \in DOMAIN passed :
           /\ i < j /\ passed[i].offer.merchant = passed[j].offer.merchant
           /\ isPointsDenominated(passed[j].offer.mechanics)
           /\ passed[j].offer.merchant \in LowLambda(Range(passed), read.input, Settings)
           => isPointsDenominated(passed[i].offer.mechanics)

CheckIsSound(read) ==
  \A o \in read.input.wanted :
    /\ results(read)[o] = "eligible" =>
         \E c \in Range(read.candidates) : c.offer.id = o /\ SoundlyEligible(c, read)
    /\ o \in Ids(read.candidates) => results(read)[o] # "OFFER_NOT_LIVE"
         \/ \E c \in Range(read.candidates) :
              c.offer.id = o /\ read.input.now \notin c.offer.from .. c.offer.until

ReadsAreSound ==
  \A r \in Readers :
    /\ reads[r].step = "quote" => ReadIsSound(reads[r])
    /\ reads[r].step = "results" => CheckIsSound(reads[r])

\* A quote as it is read back by its id.
getQuote(qid) == {q \in quotes : q.qid = qid}

\* A quote is honest: it is of a commitment of its offer; it has a token only
\* for a registered agent, the token is the only one ever minted for it, for
\* that commitment and that agent, and outlives it (quotes/service.ts:58, the
\* token client's "NO RETRIES").
QuotesAreHonest ==
  /\ \A i, j \in DOMAIN tokens : tokens[i].qid = tokens[j].qid => i = j
  /\ \A q \in quotes :
       /\ cors[q.cor].offer = q.offer /\ q.final \in 0 .. ListPrice[q.offer]
       /\ q.token => \E i \in DOMAIN tokens :
            /\ tokens[i].qid = q.qid /\ tokens[i].cor = q.cor /\ tokens[i].aid = q.agent
            /\ q.expires_at <= tokens[i].exp
  /\ \A q \in quotes : getQuote(q.qid) = {q}

\* Data that the consumer withheld since before the read arrived, by the
\* mandate's end, its flags or the key's consent, never reaches the ranking:
\* "revocation strips on the very next read" (pd-reader.ts).
WithheldStaysHome == \A r \in Readers : reads[r].pd \cap reads[r].withheld = {}

===============================================================================
