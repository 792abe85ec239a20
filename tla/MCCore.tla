-------------------------------- MODULE MCCore --------------------------------
(***************************************************************************)
(* Small instances for TLC of the core's records and of the ledger's       *)
(* published record.  The parts share nothing that a step of another       *)
(* reads, so a behaviour runs one of them.                                 *)
(*   editing, browsing: the market; operators edit drafts while they are   *)
(*     read, or a catalogue of live offers is read in every way while its  *)
(*     commitments are used up and consent withdrawn;                      *)
(*   heads: the ledger, the publication of its heads and their audit;      *)
(*   packs: the ledger of one conversion and the proof packs cut from it;  *)
(*   onboarding: merchants sign up and operators change what they have;    *)
(*   doors: the deliveries of a merchant while his secrets are rotated;    *)
(*   requests: agents, their requests and the copies of them.              *)
(***************************************************************************)
EXTENDS OfferReading, HeadPublication, ProofPacks, MerchantDoors, AgentRequests, TLC

CONSTANTS Parts, t1, t2, p1

VARIABLE part

CONSTANTS email, purchases, diary, gold, anyone

Mechanic(type, bps, value) ==
  [type |-> type, bps |-> bps, value |-> value, min_spend |-> 0, skus |-> {}]

Row(id, merchant, mechanic, group, status) ==
  [ id |-> id, merchant |-> merchant, mechanics |-> mechanic, sku_scope |-> All,
    tiers |-> {gold, anyone}, group |-> group, status |-> status, from |-> 0, until |-> 4,
    words |-> {} ]

Half == Mechanic("percentage_off", 5000, 0)
FivePounds == Mechanic("fixed_off", 0, 500)
Points == Mechanic("points_bonus", 0, 0)
Bundle == [Mechanic("bundle", 0, 20000) EXCEPT !.skus = {"kettle"}]

MCInitialTerms ==
  [o \in Offers |-> Row(o, "aurora", IF o = 1 THEN Half ELSE Points, Null,
                        IF o = 1 THEN "draft" ELSE "ended")]
MCPatches == {[mechanics |-> FivePounds]}
MCListPrice == [o \in Offers |-> 2000 * o]

Asks(agent, tier, sku, mandate) ==
  [ agent |-> agent, tier |-> tier, segment |-> "new", sku |-> sku, now |-> 2,
    mandate |-> mandate, statuses |-> Null, wanted |-> Null ]
MCInputs == { Asks("a", gold, Null, FALSE), Asks("b", anyone, "kettle", FALSE),
              Asks(Null, anyone, Null, TRUE),
              [Asks("b", gold, Null, FALSE) EXCEPT !.wanted = {1, 2, 3}] }

\* The sidecar answers with any order of the offers, one of them twice, or not.
MCOrders(ids) ==
  {Null} \cup {order \in UNION {[1 .. n -> ids] : n \in {Cardinality(ids)}} :
                 ids # {} /\ order[1] # 1}

MCRules == { [type |-> "agent", merchant |-> "brio", agent |-> "b"],
             [type |-> "tier", merchant |-> "aurora", tier |-> Null, segment |-> "old"],
             [type |-> "sku", merchant |-> "brio", sku |-> "lamp"] }
MCSettings ==
  [ aurora |-> [ terms |-> {}, categories |-> {"toys"}, ceiling |-> 4000,
                 pacing |-> [reference |-> 2, threshold |-> 15000] ],
    brio |-> Null ]
MCPriority == [aurora |-> 0, brio |-> 1]
MCClass == (email :> "email") @@ (purchases :> "purchase_history") @@ (diary :> Null)

Editing ==
  /\ OffersInit /\ changes = 3
  /\ flags = Null /\ pd_store = [k \in Keys |-> Null]

Counters(used, budget) == [used |-> used, budget |-> budget]

\* A catalogue: what the three offers do, which of them share a group, and how
\* far their commitments are used up.
Browsing ==
  /\ changes = 1
  /\ \E first \in {Half, FivePounds}, second \in {FivePounds, Bundle}, group \in {"g", Null} :
       LET rows == << Row(1, "aurora", first, "g", "live"), Row(2, "brio", second, "g", "live"),
                      [Row(3, "aurora", Points, group, "live") EXCEPT !.tiers = {gold}] >>
       IN  offers = [o \in Offers |-> [row |-> rows[o], cor |-> IF o = 2 THEN Null ELSE o]]
  /\ \E first \in {Counters(0, 2), Counters(1, 1), Counters(1, 0), Counters(2, 1)} :
       cors = [c \in Cors |-> IF c = 2 THEN Null
                 ELSE [offer |-> c, status |-> "live", max |-> Cap] @@ first]
  /\ offer_commitments = {[offer |-> o, cor |-> o, ended |-> FALSE] : o \in {1, 3}}
  /\ published = <<>> /\ operators = [p \in Operators |-> Ready]
  /\ flags = {"email"} /\ pd_store = [k \in Keys |-> TRUE]

-----------------------------------------------------------------------------
\* Proof packs: two commitments of a merchant, one token, and its claim tried
\* again under a new id.
MCToken == [jti |-> "j1", qid |-> "q1", cid |-> "com1"]
MCTokens == {MCToken}
MCCommitted == {[commitment_id |-> c, merchant |-> "aurora", terms |-> "terms"] : c \in {"com1", "com2"}}
MCClaims == {[claim_id |-> k, merchant |-> "aurora", token |-> MCToken, order |-> "order"] : k \in {"k1", "k2"}}

-----------------------------------------------------------------------------
\* A merchant with one secret, and what comes in his name: signed with his
\* secret, with one that he may come to have, early, through Shopify, garbled
\* and without an idempotency key, or a claim of his own or another's.
ActiveShop ==
  /\ clock = 0
  /\ merchants = [m \in Shops |-> IF m # 1 THEN NoOne ELSE
       [slug |-> 1, status |-> "active", signing_key_ref |-> 1, suspended_at |-> NoOne]]
  /\ webhook_secrets =
       [s \in Secrets |-> IF s = 1 THEN [merchant |-> 1, revoked_at |-> NoOne] ELSE NoOne]
  /\ key_rows = {[merchant |-> 1, ref |-> 1]} /\ custody = {1}
  /\ onboarder = [w \in Onboarders |-> AtDesk] /\ sheets = {}
  /\ delivery = [d \in Deliveries |-> Outside]
  /\ windows = [b \in Buckets |-> NoOne]
  /\ undisturbed = {}
  /\ signups = MaxSignups /\ edits = 0 /\ troubles = 0

Sent(door, secret, ts, carrier) ==
  [ door |-> door, slug |-> 1, secret |-> secret, ts |-> ts, keyed |-> TRUE, parses |-> TRUE,
    claimant |-> NoOne, carrier |-> carrier, quoted |-> FALSE ]
Claimed(claimant) ==
  [Sent("claims", NoOne, NoOne, Carrier(NoOne, NoOne)) EXCEPT !.claimant = claimant]
Question(slug, claimant, quoted) ==
  [Sent("verdict", NoOne, NoOne, Carrier(NoOne, NoOne)) EXCEPT
     !.slug = slug, !.claimant = claimant, !.quoted = quoted]
TokenOffer == offerOut([token |-> "token"])
MCDeliveries ==
  { Sent("grade_b", 1, 0, TokenOffer), Sent("grade_b", 2, 2, TokenOffer),
    Sent("shopify", 1, NoOne, [TokenOffer EXCEPT !.elsewhere = "other"]),
    [Sent("ucp", 1, -1, Carrier("garbled", "other")) EXCEPT !.keyed = FALSE],
    Claimed(1), Claimed(2),
    Question(1, 1, FALSE), Question(1, 2, FALSE), Question(NoOne, 1, TRUE), Question(1, NoOne, FALSE) }

MCOffsets == {RequestSkew}

-----------------------------------------------------------------------------
marketVars == readingVars
headVars == <<vars, publication>>

CoreInit ==
  /\ part \in Parts
  /\ ReadingInit /\ IF part = "browsing" THEN Browsing ELSE Editing
  /\ PublishedInit /\ PacksInit
  /\ IF part = "doors" THEN ActiveShop ELSE DoorsInit
  /\ RequestsInit

CoreNext ==
  \/ /\ part \in {"editing", "browsing"} /\ ReadingNext
     /\ UNCHANGED <<part, headVars, packVars, doorVars, requestVars>>
  \/ /\ part = "heads" /\ PublishedNext
     /\ UNCHANGED <<part, marketVars, packVars, doorVars, requestVars>>
  \/ /\ part = "packs" /\ PacksNext
     /\ UNCHANGED <<part, marketVars, headVars, doorVars, requestVars>>
  \/ /\ part = "onboarding" => UNCHANGED <<clock, gate>>
     /\ part \in {"onboarding", "doors"} /\ DoorsNext
     /\ UNCHANGED <<part, marketVars, headVars, packVars, requestVars>>
  \/ /\ part = "requests" /\ RequestsNext
     /\ UNCHANGED <<part, marketVars, headVars, packVars, doorVars>>

CoreSpec ==
  CoreInit /\ [][CoreNext]_<<part, marketVars, headVars, packVars, doorVars, requestVars>>

CoreSymmetry == Permutations(Operators) \cup Permutations(Onboarders)

===============================================================================
