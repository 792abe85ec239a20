-------------------------------- MODULE Errand --------------------------------
(***************************************************************************)
(* One errand of the valet: its row and its log in the valet's database,   *)
(* the drivers that move it (errand/driver.ts), the mirror of its          *)
(* transitions in the event ledger, and what a driver talks to on the way: *)
(* the quotes of the core, the wallet's approval requests, the checkout of *)
(* the shop and the claims that the shop's webhook files.                  *)
(*                                                                         *)
(* A driver is a process, or a resumed one: it reads the row, runs the     *)
(* side effect of the state it read, asks the reducer, records the         *)
(* transition if the row is still where it was, mirrors it, and starts     *)
(* over.  Each of these is a step, so that two drivers interleave, and a   *)
(* driver may die between any two.                                         *)
(***************************************************************************)
EXTENDS ErrandReducer, Sequences, FiniteSets

CONSTANTS
  Drivers,
  MaxTroubles,  \* bound: how often, together, a driver dies or an operator retries
  MaxOrders,    \* bound: how many orders the shop can place
  MaxClaims     \* bound: how many claims their webhooks can file

ASSUME BoundsAssumption == MaxTroubles \in Nat /\ MaxOrders \in Nat /\ MaxClaims \in Nat

VARIABLES
  errand,         \* the row in valet.errands
  log,            \* valet.errand_events of the errand
  mirror,         \* its ErrandStateChanged events in the ledger
  quotes,         \* core: "none" until it is minted, "live", "expired"
  request,        \* wallet.approval_requests, by quote
  orders,         \* the shop: the token of each order it placed
  delivering,     \* the orders whose webhook is on its way
  confirmation,   \* whether one is remembered under the errand's key
  claims,         \* core.claims_intake: the quote and verdict of each claim
  pc,             \* where each driver stands
  seen,           \* the row it read or was given back
  event,          \* what it is about to dispatch
  notice,         \* the transition it recorded and is about to mirror
  awaited,        \* the order whose confirmation it waits for, or 0
  troubles        \* how often a driver died or the errand was retried

tables == <<errand, log, mirror>>
shop == <<orders, delivering, confirmation>>
world == <<quotes, request, shop, claims>>
vars == <<tables, world, pc, seen, event, notice, awaited, troubles>>

\* What the wallet refuses or finds expired is "declined" too: the gate treats
\* the three alike.
RequestStatus == {"none", "pending", "approved", "declined"}
Verdicts == {"pending", "verified", "rejected"}

MirroredStates == States \ {"BRIEFED", "SEARCHING"}
Transition(from, to, q) == [from |-> from, to |-> to, quote |-> q]
Transitions == [from : States, to : States, quote : Quotes \cup {None}]
ASSUME NoNoticeAssumption == None \notin Transitions

-----------------------------------------------------------------------------
\* Steps of a driver.

Goto(d, label) == pc' = [pc EXCEPT ![d] = label]
\* Leaving step() forgets what it held.
Forget(d) ==
  /\ seen' = [seen EXCEPT ![d] = None]
  /\ event' = [event EXCEPT ![d] = None]
  /\ notice' = [notice EXCEPT ![d] = None]
  /\ awaited' = [awaited EXCEPT ![d] = 0]
Leave(d, label) == Goto(d, label) /\ Forget(d)
Raise(d, e) == event' = [event EXCEPT ![d] = e] /\ Goto(d, "dispatch")
NextIn(d, state) == pc[d] = "next" /\ seen[d].state = state

\* step() reads the row: a terminal errand, or a failed one, leaves nothing to
\* do, and one that was only briefed goes to the search at once.
Read(d) ==
  /\ IF errand.state \in Terminal \cup {"FAILED"}
       THEN Goto(d, "rest") /\ UNCHANGED <<seen, event>>
       ELSE /\ seen' = [seen EXCEPT ![d] = errand]
            /\ IF errand.state = "BRIEFED"
                 THEN Raise(d, Event("SEARCH_STARTED"))
                 ELSE Goto(d, "next") /\ UNCHANGED event
  /\ UNCHANGED <<tables, world, notice, awaited, troubles>>

Start(d) == pc[d] = "rest" /\ Read(d)
Get(d) == pc[d] = "get" /\ Read(d)

\* A read of the offers mints a quote and a token, or finds nothing to buy.
Search(d) ==
  /\ NextIn(d, "SEARCHING")
  /\ \/ \E q \in Quotes :
          /\ quotes[q] = "none"
          /\ quotes' = [quotes EXCEPT ![q] = "live"]
          /\ Raise(d, QuoteEvent("QUOTE_RECEIVED", q))
     \/ quotes' = quotes /\ Raise(d, Event("SEARCH_FAILED"))
  /\ UNCHANGED <<tables, request, shop, claims, seen, notice, awaited, troubles>>

\* The watchdog: the expiry of the quote is looked at before anything else.
CheckExpiry(d) ==
  /\ pc[d] = "next"
  /\ seen[d].state \in {"QUOTED", "AWAITING_APPROVAL", "APPROVED"}
  /\ IF quotes[seen[d].quote] = "expired"
       THEN Raise(d, Event("TIMED_OUT"))
       ELSE \/ NextIn(d, "QUOTED") /\ Goto(d, "consult") /\ UNCHANGED event
            \/ NextIn(d, "AWAITING_APPROVAL") /\ Goto(d, "check") /\ UNCHANGED event
            \/ NextIn(d, "APPROVED") /\ Raise(d, Event("EXECUTION_STARTED"))
  /\ UNCHANGED <<tables, world, seen, notice, awaited, troubles>>

\* What the wallet can answer to a request for the quote: the standing row
\* wins; a new one depends on the expiry, the limits of the mandate and the
\* amount the consumer authorised in advance, all read before the row is
\* written; a quote or a mandate that do not match leave no row.
Answers(q) == IF request[q] = "none" THEN RequestStatus ELSE {request[q]}

OutcomeFrom(status, q) ==
  CASE status = "approved" -> {QuoteEvent("APPROVAL_GRANTED", q)}
    [] status = "declined" -> {Event("APPROVAL_DECLINED")}
    [] OTHER               -> {}

\* Mutant of Consult: it fails open.
ConsultFailingOpen(d) ==
  /\ pc[d] = "consult"
  /\ \/ Raise(d, Event("APPROVAL_SKIPPED")) /\ UNCHANGED request
     \/ \E status \in Answers(seen[d].quote) :
          /\ seen[d].mandate
          /\ request' = [request EXCEPT ![seen[d].quote] = status]
          /\ \E e \in OutcomeFrom(status, seen[d].quote) : Raise(d, e)
  /\ UNCHANGED <<tables, quotes, shop, claims, seen, notice, awaited, troubles>>

\* The gate at QUOTED.  An answer that does not come back parks the errand.
Consult(d) ==
  /\ pc[d] = "consult"
  /\ IF ~seen[d].mandate
       THEN Raise(d, Event("APPROVAL_SKIPPED")) /\ UNCHANGED request
       ELSE \E status \in Answers(seen[d].quote), heard \in BOOLEAN :
              LET outcome == OutcomeFrom(status, seen[d].quote) IN
                /\ request' = [request EXCEPT ![seen[d].quote] = status]
                /\ IF heard /\ outcome # {}
                     THEN \E e \in outcome : Raise(d, e)
                     ELSE Raise(d, Event("APPROVAL_REQUESTED"))
  /\ UNCHANGED <<tables, quotes, shop, claims, seen, notice, awaited, troubles>>

\* The poll at AWAITING_APPROVAL; nothing to hear ends the drive.
CheckApproval(d) ==
  /\ pc[d] = "check"
  /\ \/ /\ \E e \in OutcomeFrom(request[seen[d].quote], seen[d].quote) : Raise(d, e)
        /\ UNCHANGED <<seen, notice, awaited>>
     \/ Leave(d, "rest")
  /\ UNCHANGED <<tables, world, troubles>>

\* The catalogue has no match, or the shop refuses the order.
FailCheckout(d) ==
  /\ NextIn(d, "EXECUTING")
  /\ Raise(d, Event("TIMED_OUT"))
  /\ UNCHANGED <<tables, world, seen, notice, awaited, troubles>>

\* The shop's handler up to the webhook: a remembered confirmation is
\* replayed, and otherwise an order is placed.
Checkout(d) ==
  /\ NextIn(d, "EXECUTING")
  /\ IF confirmation
       THEN Goto(d, "poll") /\ UNCHANGED <<shop, awaited>>
       ELSE /\ Len(orders) < MaxOrders
            /\ orders' = Append(orders, seen[d].token)
            /\ delivering' = delivering \cup {Len(orders')}
            /\ awaited' = [awaited EXCEPT ![d] = Len(orders')]
            /\ Goto(d, "confirming")
            /\ UNCHANGED confirmation
  /\ UNCHANGED <<tables, quotes, request, claims, seen, event, notice, troubles>>

\* The rest of it, whether or not the driver still listens: the webhook was
\* delivered, dropped or given up, the confirmation is remembered and returned.
Confirm(n) ==
  /\ n \in delivering
  /\ delivering' = delivering \ {n}
  /\ confirmation' = TRUE
  /\ pc' = [d \in Drivers |->
              IF pc[d] = "confirming" /\ awaited[d] = n THEN "poll" ELSE pc[d]]
  /\ awaited' = [d \in Drivers |-> IF awaited[d] = n THEN 0 ELSE awaited[d]]
  /\ UNCHANGED <<tables, quotes, request, orders, claims, seen, event, notice, troubles>>

\* A webhook of an order that carries a token files a claim.  It is sent up to
\* three times, and the core may be late, or make a second claim of a retry.
FileClaim(n) ==
  /\ n \in DOMAIN orders /\ orders[n] # None
  /\ Len(claims) < MaxClaims
  /\ claims' = Append(claims, [quote |-> orders[n].quote, verdict |-> "pending"])
  /\ UNCHANGED <<tables, quotes, request, shop, pc, seen, event, notice, awaited, troubles>>

Latest(c, q) ==
  /\ c \in DOMAIN claims /\ claims[c].quote = q
  /\ \A later \in DOMAIN claims : claims[later].quote = q => later <= c

\* Mutant of Poll: a claim that is not rejected is taken for a verified one.
PollTakingPending(d) ==
  /\ pc[d] = "poll"
  /\ \/ \E c \in DOMAIN claims :
          /\ Latest(c, seen[d].quote)
          /\ Raise(d, IF claims[c].verdict = "rejected" THEN Event("CLAIM_REJECTED")
                                                       ELSE ClaimEvent("CLAIM_VERIFIED", c))
     \/ Raise(d, Event("TIMED_OUT"))
  /\ UNCHANGED <<tables, world, seen, notice, awaited, troubles>>

\* The poll for a verdict: a decided one is taken from the latest claim of the
\* quote; the attempts run out only if the last one finds nothing decided.
Poll(d) ==
  /\ pc[d] = "poll"
  /\ \/ \E c \in DOMAIN claims :
          /\ Latest(c, seen[d].quote)
          /\ \/ /\ claims[c].verdict = "verified"
                /\ Raise(d, ClaimEvent("CLAIM_VERIFIED", c))
             \/ /\ claims[c].verdict = "rejected"
                /\ Raise(d, Event("CLAIM_REJECTED"))
     \/ /\ \A c \in DOMAIN claims :
             Latest(c, seen[d].quote) => claims[c].verdict = "pending"
        /\ Raise(d, Event("TIMED_OUT"))
  /\ UNCHANGED <<tables, world, seen, notice, awaited, troubles>>

-----------------------------------------------------------------------------
\* dispatch(): reducer, store, mirror, in this order.

\* An event the state does not accept throws and ends the drive.
RefuseDispatch(d) ==
  /\ pc[d] = "dispatch"
  /\ ~Accepts(seen[d].state, event[d].type)
  /\ Leave(d, "rest")
  /\ UNCHANGED <<tables, world, troubles>>

\* Mutant of MayRecord: the UPDATE names the errand but not its state.
MayAlwaysRecord(d) == TRUE

\* The guard on the from-state: only a row that is still there moves.
MayRecord(d) == errand.state = seen[d].state

RecordTransition(d) ==
  /\ pc[d] = "dispatch"
  /\ MayRecord(d)
  /\ \E to \in States :
       /\ <<seen[d].state, event[d].type, to>> \in Diagram
       /\ errand' = Patched(errand, to, event[d])
       /\ log' = Append(log, Entry(seen[d].state, to, event[d]))
       /\ notice' = [notice EXCEPT ![d] = Transition(seen[d].state, to, errand'.quote)]
  /\ Goto(d, "mirror")
  /\ UNCHANGED <<mirror, world, seen, event, awaited, troubles>>

\* Mutant of LoseTransition: the stale error is swallowed and the drive goes on.
LoseTransitionQuietly(d) ==
  /\ pc[d] = "dispatch"
  /\ ~MayRecord(d)
  /\ \E to \in States :
       /\ <<seen[d].state, event[d].type, to>> \in Diagram
       /\ notice' = [notice EXCEPT ![d] = Transition(seen[d].state, to, seen[d].quote)]
  /\ Goto(d, "mirror")
  /\ UNCHANGED <<tables, world, seen, event, awaited, troubles>>

LoseTransition(d) ==
  /\ pc[d] = "dispatch"
  /\ Accepts(seen[d].state, event[d].type)
  /\ ~MayRecord(d)
  /\ Leave(d, "rest")
  /\ UNCHANGED <<tables, world, troubles>>

\* The transitions from QUOTED on go to the ledger; then the drive goes on.
Mirror(d) ==
  /\ pc[d] = "mirror"
  /\ mirror' = IF notice[d].to \in MirroredStates THEN Append(mirror, notice[d])
                                                  ELSE mirror
  /\ Leave(d, "get")
  /\ UNCHANGED <<errand, log, world, troubles>>

\* An operator retries an errand that failed.
Retry(d) ==
  /\ pc[d] = "rest"
  /\ errand.state = "FAILED"
  /\ troubles < MaxTroubles
  /\ troubles' = troubles + 1
  /\ seen' = [seen EXCEPT ![d] = errand]
  /\ Raise(d, Event("RETRY"))
  /\ UNCHANGED <<tables, world, notice, awaited>>

\* The process is killed, or a call throws what drive() does not catch: a
\* read of the core that fails, a mirror that cannot append.
Die(d) ==
  /\ pc[d] # "rest"
  /\ troubles < MaxTroubles
  /\ troubles' = troubles + 1
  /\ Leave(d, "rest")
  /\ UNCHANGED <<tables, world>>

\* A checkout is given ten seconds.  What the shop was asked to do goes on.
AbortCheckout(d) ==
  /\ pc[d] = "confirming"
  /\ Leave(d, "rest")
  /\ UNCHANGED <<tables, world, troubles>>

-----------------------------------------------------------------------------
\* The clock, the consumer and the trio.

ExpireQuote(q) ==
  /\ quotes[q] = "live"
  /\ quotes' = [quotes EXCEPT ![q] = "expired"]
  /\ UNCHANGED <<tables, request, shop, claims, pc, seen, event, notice, awaited, troubles>>

\* The consumer decides a pending request; the quote was live when an approval
\* began, and may have expired by the time it is recorded.
RecordDecision(q) ==
  /\ request[q] = "pending"
  /\ \E decision \in {"approved", "declined"} :
       request' = [request EXCEPT ![q] = decision]
  /\ UNCHANGED <<tables, quotes, shop, claims, pc, seen, event, notice, awaited, troubles>>

\* A quote converts once: of its claims at most one is verified.
JudgeClaim(c) ==
  /\ c \in DOMAIN claims /\ claims[c].verdict = "pending"
  /\ \E verdict \in {"verified", "rejected"} :
       /\ verdict = "verified" =>
            \A o \in DOMAIN claims :
              claims[o].quote = claims[c].quote => claims[o].verdict # "verified"
       /\ claims' = [claims EXCEPT ![c].verdict = verdict]
  /\ UNCHANGED <<tables, quotes, request, shop, pc, seen, event, notice, awaited, troubles>>

-----------------------------------------------------------------------------
\* startErrand has written the row; nobody drives it yet.
Init ==
  /\ errand \in {Briefed(m) : m \in BOOLEAN}
  /\ log = <<>> /\ mirror = <<>>
  /\ quotes = [q \in Quotes |-> "none"]
  /\ request = [q \in Quotes |-> "none"]
  /\ orders = <<>> /\ delivering = {} /\ confirmation = FALSE /\ claims = <<>>
  /\ pc = [d \in Drivers |-> "rest"]
  /\ seen = [d \in Drivers |-> None]
  /\ event = [d \in Drivers |-> None]
  /\ notice = [d \in Drivers |-> None]
  /\ awaited = [d \in Drivers |-> 0]
  /\ troubles = 0

Drive(d) ==
  \/ Start(d) \/ Get(d) \/ Search(d) \/ CheckExpiry(d) \/ Consult(d) \/ CheckApproval(d)
  \/ FailCheckout(d) \/ Checkout(d) \/ AbortCheckout(d) \/ Poll(d)
  \/ RefuseDispatch(d) \/ RecordTransition(d) \/ LoseTransition(d) \/ Mirror(d)
  \/ Retry(d) \/ Die(d)

Surroundings ==
  \/ \E n \in delivering : Confirm(n)
  \/ \E n \in DOMAIN orders : FileClaim(n)
  \/ \E q \in Quotes : ExpireQuote(q) \/ RecordDecision(q)
  \/ \E c \in DOMAIN claims : JudgeClaim(c)

Next == (\E d \in Drivers : Drive(d)) \/ Surroundings

Spec == Init /\ [][Next]_vars

-----------------------------------------------------------------------------
Labels == {"rest", "get", "next", "consult", "check", "confirming",
           "poll", "dispatch", "mirror"}

\* Every variable keeps its type; the shop delivers and is waited for only
\* orders that it placed.
TypeOK ==
  /\ errand \in Rows
  /\ log \in Seq(Entries) /\ mirror \in Seq(Transitions)
  /\ quotes \in [Quotes -> {"none", "live", "expired"}]
  /\ request \in [Quotes -> RequestStatus]
  /\ orders \in Seq(Tokens \cup {None})
  /\ delivering \subseteq DOMAIN orders
  /\ confirmation \in BOOLEAN
  /\ claims \in Seq([quote : Quotes, verdict : Verdicts])
  /\ pc \in [Drivers -> Labels]
  /\ seen \in [Drivers -> Rows \cup {None}]
  /\ event \in [Drivers -> Events \cup {None}]
  /\ notice \in [Drivers -> Transitions \cup {None}]
  /\ awaited \in [Drivers -> {0} \cup DOMAIN orders]
  /\ troubles \in 0..MaxTroubles

\* However many drivers resume the errand and wherever they die, its row moves
\* along the diagram and the log holds exactly its moves: replaying the log
\* gives the row (store.ts, "replaying the log through the reducer + these
\* patches reproduces the row").
Record == INSTANCE ErrandRecord
ImplementsErrandRecord == Record!Spec

\* The ledger is told of a transition no more often than it happened, and of
\* the quote the errand really runs on: the loser of a race reports nothing,
\* neither its transition nor the quote it found (driver.ts, "the mirror trail
\* follows the persisted truth").
Occurrences(s, t) == Cardinality({i \in DOMAIN s : s[i].from = t.from /\ s[i].to = t.to})
MirrorTellsTheTruth ==
  \A i \in DOMAIN mirror :
    /\ Occurrences(mirror, mirror[i]) <= Occurrences(log, mirror[i])
    /\ mirror[i].quote = errand.quote

\* Nothing that was quoted is ordered under a mandate before the wallet has
\* approved its quote, and the order carries the token minted for the approval,
\* whatever was lost, retried or run twice on the way (approval-gate.ts, "fail
\* closed: an unreachable wallet parks the errand rather than buying").
ApprovedBeforeBuying ==
  errand.mandate =>
    \A n \in DOMAIN orders : orders[n] # None =>
      orders[n].apr /\ request[orders[n].quote] = "approved"

\* A confirmed errand names a claim the trio has verified, on its own quote,
\* whichever driver polled and however many claims the orders led to.
ConfirmedConverted ==
  errand.state = "CONFIRMED" =>
    /\ errand.claim \in DOMAIN claims
    /\ claims[errand.claim] = [quote |-> errand.quote, verdict |-> "verified"]

\* "A resumed errand replays the same confirmation, never a second order"
\* (checkout-rail.ts:6-8): the errand leads to one order at most.
NeverDoubleBuys == Len(orders) <= 1

=============================================================================
