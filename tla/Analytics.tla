------------------------------- MODULE Analytics -------------------------------
(***************************************************************************)
(* The analytics projection over the ledger and the mint-vs-claim monitor  *)
(* (apps/core/src/modules/analytics): five fragments behind one cursor,    *)
(* advanced by the monitor's cycle, wiped and replayed by the rebuild, and *)
(* the badges the monitor derives from them.                               *)
(*                                                                         *)
(* The ledger is its committed events in order, each with the day its body *)
(* says; how they come there and how catchUp reads them in batches is the  *)
(* matter of EventLedger and Projections.  An operator runs the rebuild    *)
(* between two cycles of the monitor.  A row that no upsert has touched    *)
(* and a row of zeros are the same.                                        *)
(***************************************************************************)
EXTENDS Integers, SequencesExt

CONSTANTS
  Terms,       \* of each commitment: its merchant and its bounty
  TokenOf,     \* of each jti: its commitment and its agent
  ClaimOf,     \* of each claim: its merchant, its jti or None, its gross value
  Reasons,     \* reason codes of rejections and suppressions
  MaxEvents,   \* bound on the ledger
  MaxDays,     \* bound on the calendar
  Window,      \* windowDays
  MinMints,
  FloorBps,
  MaxReplays,  \* bound on rebuilds
  MaxFailed,   \* bound on the cycles that fail
  Missing,     \* the '(unknown)' of agents and merchants
  NotThere     \* null

VARIABLES
  facts,       \* events.events
  calendar,    \* the UTC day
  seen,        \* the cursor of analytics_v1
  tables,      \* the projection's tables
  cycle,       \* where the monitor's cycle stands
  rates,       \* the sums it selected, by merchant; NotThere without a row
  health,      \* core.merchant_health
  replays,
  failed       \* cycles that failed

analyticsVars == <<facts, calendar, seen, tables, cycle, rates, health, replays, failed>>

AnalysedCommitments == DOMAIN Terms
Jtis == DOMAIN TokenOf
ClaimIds == DOMAIN ClaimOf
Shops == {Terms[c].merchant : c \in AnalysedCommitments} \cup {ClaimOf[k].merchant : k \in ClaimIds}
AgentsSeen == {TokenOf[j].agent : j \in Jtis} \cup {Missing}
Days == 1 .. MaxDays

\* Money is whole and not negative, and rates are (contracts: Money, Commitment);
\* a claim has its token's jti or none that decodes.
ASSUME AnalyticsAssumption ==
  /\ IsFiniteSet(AnalysedCommitments) /\ IsFiniteSet(Jtis) /\ IsFiniteSet(ClaimIds) /\ IsFiniteSet(Reasons)
  /\ MaxDays \in Nat \ {0}
  /\ \A c \in AnalysedCommitments : IF Terms[c].bounty.type = "fixed" THEN Terms[c].bounty.amount \in Nat
                                    ELSE Terms[c].bounty.pct_bps \in Nat
  /\ \A j \in Jtis : TokenOf[j].commitment \in AnalysedCommitments
  /\ \A k \in ClaimIds : ClaimOf[k].jti \in Jtis \cup {NotThere} /\ ClaimOf[k].gross \in Nat
  /\ NotThere \notin Jtis /\ NotThere \notin Int

Columns == {"mints", "claims", "verified", "rejected"}

Fact(type, of) == [type |-> type, of |-> of, reason |-> NotThere, day |-> calendar]
Told(type, of) == \E i \in DOMAIN facts : facts[i].type = type /\ facts[i].of = of

-----------------------------------------------------------------------------
\* What the components append, in the order they can; the commitments come
\* first.

JtiUsed(k) == \E l \in ClaimIds : ClaimOf[l].jti = ClaimOf[k].jti /\ Told("ConversionVerified", l)
Undecided(k) == ~Told("ConversionVerified", k) /\ ~Told("ConversionRejected", k)

\* An undecodable token has no ConversionClaimed event, and is rejected.
Tellable ==
     {Fact("TokenMinted", j) : j \in {l \in Jtis : ~Told("TokenMinted", l)}}
  \cup {Fact("ConversionClaimed", k) : k \in {l \in ClaimIds :
          ClaimOf[l].jti # NotThere /\ Told("TokenMinted", ClaimOf[l].jti) /\ ~Told("ConversionClaimed", l)}}
  \cup {Fact("ConversionVerified", k) : k \in {l \in ClaimIds :
          Told("ConversionClaimed", l) /\ Undecided(l) /\ ~JtiUsed(l)}}
  \cup {[Fact("ConversionRejected", k) EXCEPT !.reason = r] : r \in Reasons, k \in {l \in ClaimIds :
          (Told("ConversionClaimed", l) \/ ClaimOf[l].jti = NotThere) /\ Undecided(l)}}
  \cup {Fact("ConversionReversed", k) : k \in {l \in ClaimIds :
          Told("ConversionVerified", l) /\ ~Told("ConversionReversed", l)}}

Tell(fact) ==
  /\ Len(facts) < MaxEvents
  /\ fact \in Tellable
  /\ facts' = Append(facts, fact)
  /\ UNCHANGED <<calendar, seen, tables, cycle, rates, health, replays, failed>>

NextDay ==
  /\ calendar < MaxDays
  /\ calendar' = calendar + 1
  /\ UNCHANGED <<facts, seen, tables, cycle, rates, health, replays, failed>>

-----------------------------------------------------------------------------
(* The fragments: each takes the tables and an event to the tables.        *)

EmptyTables ==
  [ commitments |-> {}, tokens |-> {},
    claims      |-> [k \in ClaimIds |-> NotThere],
    conversions |-> [x \in AgentsSeen \X Days |-> [count |-> 0, gross |-> 0]],
    funnel      |-> [x \in (Shops \cup {Missing}) \X Days |-> [column \in Columns |-> 0]],
    rejections  |-> [x \in Days \X Reasons \X Shops \X AgentsSeen |-> 0],
    burn        |-> [x \in AnalysedCommitments \X Days |-> 0] ]

merchantForCommitment(t, c) == IF c \in t.commitments THEN Terms[c].merchant ELSE Missing
agentForToken(t, j) == IF j \in t.tokens THEN TokenOf[j].agent ELSE Missing

bountyFor(bounty, gross) ==
  IF bounty.type = "fixed" THEN bounty.amount ELSE (gross * bounty.pct_bps) \div 10000

indexes(t, e) ==
  [t EXCEPT !.commitments = IF e.type = "CommitmentCreated" THEN @ \cup {e.of} ELSE @,
            !.tokens = IF e.type = "TokenMinted" THEN @ \cup {e.of} ELSE @]

conversionsByAgentDay(t, e) ==
  IF e.type # "ConversionVerified" THEN t ELSE
  [t EXCEPT !.conversions[<<agentForToken(t, ClaimOf[e.of].jti), e.day>>] =
     [count |-> @.count + 1, gross |-> @.gross + ClaimOf[e.of].gross]]

mintVsClaimByMerchantDay(t, e) ==
  LET merchant == IF e.type = "TokenMinted" THEN merchantForCommitment(t, TokenOf[e.of].commitment)
                  ELSE ClaimOf[e.of].merchant
      column == CASE e.type = "TokenMinted" -> "mints" [] e.type = "ConversionClaimed" -> "claims"
                  [] e.type = "ConversionVerified" -> "verified" [] OTHER -> "rejected"
  IN  IF e.type \in {"CommitmentCreated", "ConversionReversed"} THEN t
      ELSE [t EXCEPT !.funnel[<<merchant, e.day>>][column] = @ + 1]

rejectionsByReasonDay(t, e) ==
  IF e.type # "ConversionRejected" THEN t ELSE
  [t EXCEPT !.rejections[<<e.day, e.reason, ClaimOf[e.of].merchant,
                           agentForToken(t, ClaimOf[e.of].jti)>>] = @ + 1]

\* A verified conversion burns its bounty and leaves it in the index; a
\* reversal credits what the index holds, on the day of the reversal.
budgetBurn(t, e) ==
  LET commitment == TokenOf[ClaimOf[e.of].jti].commitment
      bounty == bountyFor(Terms[commitment].bounty, ClaimOf[e.of].gross)
  IN  CASE e.type = "ConversionVerified" /\ commitment \in t.commitments ->
             [t EXCEPT !.claims[e.of] = IF @ = NotThere THEN bounty ELSE @,
                       !.burn[<<commitment, e.day>>] = @ + bounty]
        [] e.type = "ConversionReversed" /\ t.claims[e.of] # NotThere ->
             [t EXCEPT !.burn[<<commitment, e.day>>] = @ - t.claims[e.of]]
        [] OTHER -> t

applyFragments(t, e) ==
  budgetBurn(rejectionsByReasonDay(mintVsClaimByMerchantDay(
    conversionsByAgentDay(indexes(t, e), e), e), e), e)

-----------------------------------------------------------------------------
(* The monitor and the rebuild.                                            *)

StartMonitorCycle ==
  /\ cycle = "idle"
  /\ cycle' = "catching up"
  /\ UNCHANGED <<facts, calendar, seen, tables, rates, health, replays, failed>>

\* One event and the cursor, in one transaction.
ApplyNext ==
  /\ cycle = "catching up" /\ seen < Len(facts)
  /\ tables' = applyFragments(tables, facts[seen + 1])
  /\ seen' = seen + 1
  /\ UNCHANGED <<facts, calendar, cycle, rates, health, replays, failed>>

InWindow(day) == day >= calendar - Window

\* The sums of the days in the window, of the merchants that have one.
SelectRates ==
  LET days(m) == {d \in Days : InWindow(d) /\ \E column \in Columns : tables.funnel[<<m, d>>][column] > 0}
      total(m, column) == SumFunction([d \in days(m) |-> tables.funnel[<<m, d>>][column]])
  IN  /\ cycle = "catching up" /\ seen = Len(facts)
      /\ rates' = [m \in Shops |-> IF days(m) = {} THEN NotThere
                                   ELSE [mints |-> total(m, "mints"), claims |-> total(m, "claims")]]
      /\ cycle' = "rating"
      /\ UNCHANGED <<facts, calendar, seen, tables, health, replays, failed>>

statusFor(mints, claims) ==
  IF mints < MinMints THEN "insufficient_data"
  ELSE IF mints > 0 /\ (claims * 10000) \div mints < FloorBps THEN "under_reporting"
  ELSE "healthy"

\* Mutant of UpsertHealth: a row that is there is left as it is.
InsertHealth(m) ==
  /\ cycle = "rating" /\ rates[m] # NotThere
  /\ health' = IF health[m] # NotThere THEN health
               ELSE [health EXCEPT ![m] = statusFor(rates[m].mints, rates[m].claims)]
  /\ rates' = [rates EXCEPT ![m] = NotThere]
  /\ UNCHANGED <<facts, calendar, seen, tables, cycle, replays, failed>>

UpsertHealth(m) ==
  /\ cycle = "rating" /\ rates[m] # NotThere
  /\ health' = [health EXCEPT ![m] = statusFor(rates[m].mints, rates[m].claims)]
  /\ rates' = [rates EXCEPT ![m] = NotThere]
  /\ UNCHANGED <<facts, calendar, seen, tables, cycle, replays, failed>>

EndMonitorCycle ==
  /\ cycle = "rating" /\ \A m \in Shops : rates[m] = NotThere
  /\ cycle' = "idle"
  /\ UNCHANGED <<facts, calendar, seen, tables, rates, health, replays, failed>>

\* A query fails, or the process dies: the next tick starts over.
FailMonitorCycle ==
  /\ cycle # "idle" /\ failed < MaxFailed
  /\ cycle' = "idle" /\ failed' = failed + 1
  /\ rates' = [m \in Shops |-> NotThere]
  /\ UNCHANGED <<facts, calendar, seen, tables, health, replays>>

\* Mutant of Rebuild: the bounties burned are not wiped.
RebuildKeepingBurn ==
  /\ cycle = "idle" /\ replays < MaxReplays
  /\ tables' = [EmptyTables EXCEPT !.burn = tables.burn]
  /\ seen' = 0 /\ replays' = replays + 1
  /\ UNCHANGED <<facts, calendar, cycle, rates, health, failed>>

\* Every fragment deletes its tables, and the cursor is set back.
Rebuild ==
  /\ cycle = "idle" /\ replays < MaxReplays
  /\ tables' = EmptyTables
  /\ seen' = 0 /\ replays' = replays + 1
  /\ UNCHANGED <<facts, calendar, cycle, rates, health, failed>>

AnalyticsInit ==
  /\ calendar = 1 /\ facts = SetToSeq({Fact("CommitmentCreated", c) : c \in AnalysedCommitments})
  /\ seen = 0 /\ tables = EmptyTables
  /\ cycle = "idle" /\ rates = [m \in Shops |-> NotThere]
  /\ health = [m \in Shops |-> NotThere] /\ replays = 0 /\ failed = 0

MonitorStep ==
  \/ StartMonitorCycle \/ ApplyNext \/ SelectRates \/ EndMonitorCycle
  \/ \E m \in Shops : UpsertHealth(m)

AnalyticsNext ==
  \/ \E fact \in Tellable : Tell(fact)
  \/ NextDay \/ MonitorStep \/ FailMonitorCycle \/ Rebuild

-----------------------------------------------------------------------------
(* What the tables and the badges say.                                     *)

Counted(type) == {facts[i].of : i \in {j \in 1 .. seen : facts[j].type = type}}
Standing == Counted("ConversionVerified") \ Counted("ConversionReversed")

\* The bounty of a claim: the share, rounded down to a whole number.
BountyDue(c, k) ==
  LET share == ClaimOf[k].gross * Terms[c].bounty.pct_bps
  IN  IF Terms[c].bounty.type = "fixed" THEN Terms[c].bounty.amount
      ELSE CHOOSE p \in 0 .. share : p * 10000 <= share /\ share < (p + 1) * 10000

\* The conversions that stand on a commitment.
StandingOn(c) == {k \in Standing : TokenOf[ClaimOf[k].jti].commitment = c}

\* Up to the cursor, the tables agree with the trio and with each other: a
\* commitment has burned the bounties of the conversions that stand, each
\* rounded down on its own; agents have the conversions that merchants have, with
\* their gross; and every rejection has a reason (budget-burn.ts:8-13, to the
\* penny, replays and reversals included).
TablesAgree ==
  /\ \A c \in AnalysedCommitments :
       SumFunction([d \in Days |-> tables.burn[<<c, d>>]])
         = SumFunction([k \in StandingOn(c) |-> BountyDue(c, k)])
  /\ SumFunction([x \in Shops \X Days |-> tables.funnel[x]["verified"]])
       = SumFunction([x \in AgentsSeen \X Days |-> tables.conversions[x].count])
  /\ SumFunction([x \in AgentsSeen \X Days |-> tables.conversions[x].gross])
       = SumFunction([k \in Counted("ConversionVerified") |-> ClaimOf[k].gross])
  /\ \A m \in Shops :
       SumFunction([d \in Days |-> tables.funnel[<<m, d>>]["rejected"]])
         = SumFunction([x \in Days \X Reasons \X {m} \X AgentsSeen |-> tables.rejections[x]])

\* The badge a merchant deserves by the ledger today.
TokensIn(m) == {i \in DOMAIN facts : /\ facts[i].type = "TokenMinted" /\ InWindow(facts[i].day)
                                     /\ Terms[TokenOf[facts[i].of].commitment].merchant = m}
ClaimsIn(m) == {i \in DOMAIN facts : /\ facts[i].type = "ConversionClaimed" /\ InWindow(facts[i].day)
                                     /\ ClaimOf[facts[i].of].merchant = m}
Deserved(m) == statusFor(Cardinality(TokensIn(m)), Cardinality(ClaimsIn(m)))

\* When the ledger and the calendar come to rest, every badge is deserved: see
\* ReadersCatchUp in MCLedger.
BadgesSettle ==
  <>[](\A m \in Shops : TokensIn(m) \cup ClaimsIn(m) # {} => health[m] = Deserved(m))

===============================================================================
