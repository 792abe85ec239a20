---------------------------- MODULE Errand_proofs ----------------------------
(***************************************************************************)
(* Proofs about Errand: for any number of drivers, quotes, retries, deaths *)
(* and orders, the row and its log behave as ErrandRecord promises, under  *)
(* a mandate nothing that was quoted is ordered unapproved, what is        *)
(* confirmed has converted, and the ledger is told only what happened.     *)
(***************************************************************************)
EXTENDS Errand, SequenceTheorems, FiniteSetTheorems, TLAPS

Searched == {"QUOTED", "AWAITING_APPROVAL", "APPROVED"}

\* A driver holds what its place in the code needs: the row it read, the event
\* it dispatches, the transition it mirrors, and a quote where it asks for one.
DriversHold ==
  \A d \in Drivers :
    /\ pc[d] \in {"next", "consult", "check", "confirming", "poll", "dispatch"}
         => seen[d] # None
    /\ pc[d] \in {"consult", "check"} => seen[d].state \in Searched
    /\ pc[d] = "dispatch" => event[d] # None
    /\ pc[d] = "mirror" => notice[d] # None

\* A row between its search and its execution has a quote, and so does an event
\* that brings one.
HasQuote(row) == row.state \in Searched => row.quote # None
EventHasQuote(e) == e.type \in Quoting => e.quote # None
Quoted ==
  /\ HasQuote(errand)
  /\ \A d \in Drivers :
       /\ seen[d] # None => HasQuote(seen[d])
       /\ event[d] # None => EventHasQuote(event[d])

TInv == TypeOK /\ DriversHold /\ Quoted

-----------------------------------------------------------------------------
\* What an event does to a row.
LEMMA PatchedRow ==
  ASSUME NEW row \in Rows, NEW to \in States, NEW e \in Events, EventHasQuote(e)
  PROVE  /\ Patched(row, to, e) \in Rows
         /\ Patched(row, to, e).state = to
         /\ Patched(row, to, e).mandate = row.mandate
BY NoneAssumption DEF Patched, Rows, Events, Tokens, EventHasQuote, Quoting

\* What a driver raises and forgets is typed.
LEMMA EventsTyped ==
  /\ \A type \in EventTypes : Event(type) \in Events
  /\ \A type \in EventTypes, q \in Quotes : QuoteEvent(type, q) \in Events
  /\ \A type \in EventTypes, c \in Nat : ClaimEvent(type, c) \in Events
BY DEF Event, QuoteEvent, ClaimEvent, Events

LEMMA SearchedRow ==
  ASSUME NEW row \in Rows, HasQuote(row), row.state \in Searched
  PROVE  row.quote \in Quotes
BY DEF HasQuote, Rows

LEMMA InitTInv == Init => TInv
<1> SUFFICES ASSUME Init PROVE TInv
  OBVIOUS
<1>1. errand \in Rows /\ errand.state = "BRIEFED"
  BY DEF Init, Briefed, Rows, States
<1>2. TypeOK
  <2>1. troubles \in 0..MaxTroubles
    BY BoundsAssumption DEF Init
  <2>2. confirmation \in BOOLEAN
    BY DEF Init
  <2>3. /\ log \in Seq(Entries) /\ mirror \in Seq(Transitions)
        /\ orders \in Seq(Tokens \cup {None}) /\ delivering \subseteq DOMAIN orders
        /\ claims \in Seq([quote : Quotes, verdict : Verdicts])
    BY DEF Init
  <2>4. /\ quotes \in [Quotes -> {"none", "live", "expired"}]
        /\ request \in [Quotes -> RequestStatus] /\ pc \in [Drivers -> Labels]
        /\ seen \in [Drivers -> Rows \cup {None}]
        /\ event \in [Drivers -> Events \cup {None}]
        /\ notice \in [Drivers -> Transitions \cup {None}]
        /\ awaited \in [Drivers -> {0} \cup DOMAIN orders]
    BY DEF Init, RequestStatus, Labels
  <2> QED
    BY <1>1, <2>1, <2>2, <2>3, <2>4 DEF TypeOK
<1>3. DriversHold /\ Quoted
  BY <1>1 DEF Init, DriversHold, Quoted, HasQuote, Searched
<1> QED
  BY <1>2, <1>3 DEF TInv

-----------------------------------------------------------------------------
\* A driver that leaves step() holds nothing.
LEMMA Leaving ==
  ASSUME TInv, NEW d \in Drivers, NEW label \in {"rest", "get"}, Leave(d, label),
         UNCHANGED <<errand, log, world>>,
         mirror' \in Seq(Transitions), troubles' \in 0..MaxTroubles
  PROVE  TInv'
<1> USE DEF TInv, Leave, Goto, Forget, world, shop
<1>1. TypeOK'
  BY DEF TypeOK, Labels
<1>2. DriversHold'
  BY DEF TypeOK, DriversHold
<1>3. Quoted'
  BY DEF TypeOK, Quoted
<1> QED
  BY <1>1, <1>2, <1>3

\* Raising a typed event keeps the invariant, whatever the world answered.
LEMMA Raising ==
  ASSUME TInv, NEW d \in Drivers, NEW e \in Events, EventHasQuote(e), Raise(d, e),
         NEW row \in Rows, HasQuote(row), seen' = [seen EXCEPT ![d] = row],
         UNCHANGED <<tables, shop, claims, notice, awaited>>,
         quotes' \in [Quotes -> {"none", "live", "expired"}],
         request' \in [Quotes -> RequestStatus], troubles' \in 0..MaxTroubles
  PROVE  TInv'
<1> USE DEF TInv, Raise, Goto, tables, shop
<1>1. TypeOK'
  BY DEF TypeOK, Labels
<1>2. DriversHold'
  BY NoneAssumption DEF TypeOK, DriversHold
<1>3. Quoted'
  BY DEF TypeOK, Quoted
<1> QED
  BY <1>1, <1>2, <1>3

\* A driver that raises an event on the row it holds.
LEMMA RaisingOnSeen ==
  ASSUME TInv, NEW d \in Drivers, NEW e \in Events, EventHasQuote(e), Raise(d, e),
         seen[d] # None,
         UNCHANGED <<tables, shop, claims, seen, notice, awaited, troubles>>,
         quotes' \in [Quotes -> {"none", "live", "expired"}],
         request' \in [Quotes -> RequestStatus]
  PROVE  TInv'
<1>1. seen[d] \in Rows /\ HasQuote(seen[d]) /\ seen' = [seen EXCEPT ![d] = seen[d]]
  BY DEF TInv, TypeOK, Quoted
<1>2. troubles' \in 0..MaxTroubles
  BY DEF TInv, TypeOK
<1> QED
  BY <1>1, <1>2, Raising

\* The events without a quote.
LEMMA PlainEvents ==
  \A type \in EventTypes \ Quoting :
    /\ Event(type) \in Events /\ EventHasQuote(Event(type))
    /\ \A c \in Nat : ClaimEvent(type, c) \in Events /\ EventHasQuote(ClaimEvent(type, c))
BY EventsTyped DEF Event, ClaimEvent, EventHasQuote

LEMMA QuoteEvents ==
  \A type \in Quoting, q \in Quotes :
    QuoteEvent(type, q) \in Events /\ EventHasQuote(QuoteEvent(type, q))
BY EventsTyped, NoneAssumption DEF QuoteEvent, EventHasQuote, Quoting, EventTypes

-----------------------------------------------------------------------------
LEMMA ReadTInv ==
  ASSUME TInv, NEW d \in Drivers, pc[d] \in {"rest", "get"}, Read(d)
  PROVE  TInv'
<1>1. CASE errand.state \in Terminal \cup {"FAILED"}
  <2>1. TypeOK'
    BY <1>1 DEF TInv, TypeOK, Read, Goto, Labels, tables, world, shop
  <2>2. DriversHold' /\ Quoted'
    BY <1>1 DEF TInv, TypeOK, DriversHold, Quoted, Read, Goto, tables
  <2> QED
    BY <2>1, <2>2 DEF TInv
<1>2. CASE errand.state \notin Terminal \cup {"FAILED"} /\ errand.state = "BRIEFED"
  <2>1. Event("SEARCH_STARTED") \in Events /\ EventHasQuote(Event("SEARCH_STARTED"))
    BY PlainEvents DEF EventTypes, Quoting
  <2>2. errand \in Rows /\ HasQuote(errand)
    BY DEF TInv, TypeOK, Quoted
  <2>3. /\ Raise(d, Event("SEARCH_STARTED")) /\ seen' = [seen EXCEPT ![d] = errand]
        /\ UNCHANGED <<tables, shop, claims, notice, awaited>>
        /\ quotes' \in [Quotes -> {"none", "live", "expired"}]
        /\ request' \in [Quotes -> RequestStatus] /\ troubles' \in 0..MaxTroubles
    BY <1>2 DEF Read, TInv, TypeOK, world
  <2> QED
    BY <2>1, <2>2, <2>3, Raising
<1>3. CASE errand.state \notin Terminal \cup {"FAILED"} /\ errand.state # "BRIEFED"
  <2>1. TypeOK'
    BY <1>3 DEF TInv, TypeOK, Read, Goto, Labels, tables, world, shop
  <2>2. DriversHold' /\ Quoted'
    BY <1>3, NoneAssumption, SMTT(30)
    DEF TInv, TypeOK, DriversHold, Quoted, Read, Goto, tables
  <2> QED
    BY <2>1, <2>2 DEF TInv
<1> QED
  BY <1>1, <1>2, <1>3

LEMMA SearchTInv ==
  ASSUME TInv, NEW d \in Drivers, Search(d)
  PROVE  TInv'
<1>1. /\ seen[d] # None
      /\ UNCHANGED <<tables, shop, claims, seen, notice, awaited, troubles>>
      /\ request' \in [Quotes -> RequestStatus]
  BY DEF Search, NextIn, TInv, TypeOK, DriversHold
<1>2. ASSUME NEW q \in Quotes, quotes' = [quotes EXCEPT ![q] = "live"],
             Raise(d, QuoteEvent("QUOTE_RECEIVED", q))
      PROVE  TInv'
  <2>1. quotes' \in [Quotes -> {"none", "live", "expired"}]
    BY <1>2 DEF TInv, TypeOK
  <2> QED
    BY <1>1, <1>2, <2>1, QuoteEvents, RaisingOnSeen DEF Quoting
<1>3. CASE quotes' = quotes /\ Raise(d, Event("SEARCH_FAILED"))
  <2>1. quotes' \in [Quotes -> {"none", "live", "expired"}]
    BY <1>3 DEF TInv, TypeOK
  <2> QED
    BY <1>1, <1>3, <2>1, PlainEvents, RaisingOnSeen DEF EventTypes, Quoting
<1> QED
  BY <1>2, <1>3 DEF Search

LEMMA CheckExpiryTInv ==
  ASSUME TInv, NEW d \in Drivers, CheckExpiry(d)
  PROVE  TInv'
<1>1. /\ seen[d] # None
      /\ UNCHANGED <<tables, shop, claims, seen, notice, awaited, troubles>>
      /\ quotes' \in [Quotes -> {"none", "live", "expired"}]
      /\ request' \in [Quotes -> RequestStatus]
  BY DEF CheckExpiry, TInv, TypeOK, DriversHold, world
<1>2. ASSUME NEW type \in {"TIMED_OUT", "EXECUTION_STARTED"}, Raise(d, Event(type))
      PROVE  TInv'
  BY <1>1, <1>2, PlainEvents, RaisingOnSeen DEF EventTypes, Quoting
<1>3. ASSUME NEW label \in {"consult", "check"}, Goto(d, label), UNCHANGED event
      PROVE  TInv'
  <2>1. TypeOK'
    BY <1>1, <1>3 DEF TInv, TypeOK, CheckExpiry, Goto, Labels, tables, world, shop
  <2>2. DriversHold' /\ Quoted'
    BY <1>1, <1>3
    DEF TInv, TypeOK, DriversHold, Quoted, CheckExpiry, Goto, Searched, tables
  <2> QED
    BY <2>1, <2>2 DEF TInv
<1> QED
  BY <1>2, <1>3 DEF CheckExpiry, NextIn

LEMMA ConsultTInv ==
  ASSUME TInv, NEW d \in Drivers, Consult(d)
  PROVE  TInv'
<1>1. /\ seen[d] # None
      /\ UNCHANGED <<tables, shop, claims, seen, notice, awaited, troubles>>
      /\ quotes' \in [Quotes -> {"none", "live", "expired"}]
  BY DEF Consult, TInv, TypeOK, DriversHold
<1>2. seen[d].quote \in Quotes
  BY SearchedRow, <1>1 DEF Consult, TInv, TypeOK, DriversHold, Quoted
<1>3. request' \in [Quotes -> RequestStatus]
  BY <1>2 DEF Consult, Answers, TInv, TypeOK, RequestStatus
<1>4. ASSUME NEW type \in {"APPROVAL_SKIPPED", "APPROVAL_REQUESTED", "APPROVAL_DECLINED"},
             Raise(d, Event(type))
      PROVE  TInv'
  BY <1>1, <1>3, <1>4, PlainEvents, RaisingOnSeen DEF EventTypes, Quoting
<1>5. ASSUME Raise(d, QuoteEvent("APPROVAL_GRANTED", seen[d].quote))
      PROVE  TInv'
  BY <1>1, <1>2, <1>3, <1>5, QuoteEvents, RaisingOnSeen DEF Quoting
<1> QED
  BY <1>4, <1>5 DEF Consult, OutcomeFrom

\* What a driver that leaves does not touch.
LEMMA LeavingOnly ==
  ASSUME TInv, NEW d \in Drivers, NEW label \in {"rest", "get"}, Leave(d, label),
         UNCHANGED <<tables, world, troubles>>
  PROVE  TInv'
<1>1. /\ mirror' \in Seq(Transitions) /\ troubles' \in 0..MaxTroubles
      /\ UNCHANGED <<errand, log, world>>
  BY DEF TInv, TypeOK, tables
<1> QED
  BY <1>1, Leaving

LEMMA CheckApprovalTInv ==
  ASSUME TInv, NEW d \in Drivers, CheckApproval(d)
  PROVE  TInv'
<1>1. CASE Leave(d, "rest")
  BY <1>1, LeavingOnly DEF CheckApproval
<1>2. CASE /\ \E e \in OutcomeFrom(request[seen[d].quote], seen[d].quote) : Raise(d, e)
           /\ UNCHANGED <<seen, notice, awaited>>
  <2>1. /\ seen[d] # None
        /\ UNCHANGED <<tables, shop, claims, seen, notice, awaited, troubles>>
        /\ quotes' \in [Quotes -> {"none", "live", "expired"}]
        /\ request' \in [Quotes -> RequestStatus]
    BY <1>2 DEF CheckApproval, TInv, TypeOK, DriversHold, world
  <2>2. seen[d].quote \in Quotes
    BY SearchedRow, <2>1 DEF CheckApproval, TInv, TypeOK, DriversHold, Quoted
  <2>3. ASSUME Raise(d, QuoteEvent("APPROVAL_GRANTED", seen[d].quote))
        PROVE  TInv'
    BY <2>1, <2>2, <2>3, QuoteEvents, RaisingOnSeen DEF Quoting
  <2>4. ASSUME Raise(d, Event("APPROVAL_DECLINED"))
        PROVE  TInv'
    BY <2>1, <2>4, PlainEvents, RaisingOnSeen DEF EventTypes, Quoting
  <2> QED
    BY <1>2, <2>3, <2>4 DEF OutcomeFrom
<1> QED
  BY <1>1, <1>2 DEF CheckApproval

LEMMA FailCheckoutTInv ==
  ASSUME TInv, NEW d \in Drivers, FailCheckout(d)
  PROVE  TInv'
<1>1. /\ seen[d] # None
      /\ UNCHANGED <<tables, shop, claims, seen, notice, awaited, troubles>>
      /\ quotes' \in [Quotes -> {"none", "live", "expired"}]
      /\ request' \in [Quotes -> RequestStatus]
  BY DEF FailCheckout, NextIn, TInv, TypeOK, DriversHold, world
<1> QED
  BY <1>1, PlainEvents, RaisingOnSeen DEF FailCheckout, EventTypes, Quoting

LEMMA CheckoutTInv ==
  ASSUME TInv, NEW d \in Drivers, Checkout(d)
  PROVE  TInv'
<1>0. seen[d] \in Rows
  BY DEF Checkout, NextIn, TInv, TypeOK, DriversHold
<1>1. TypeOK'
  <2>1. CASE confirmation
    BY <2>1 DEF TInv, TypeOK, Checkout, Goto, Labels, tables, shop
  <2>2. CASE ~confirmation
    <3>1. /\ orders' \in Seq(Tokens \cup {None}) /\ Len(orders') = Len(orders) + 1
          /\ DOMAIN orders \subseteq DOMAIN orders' /\ Len(orders') \in DOMAIN orders'
      <4> DEFINE Token == Tokens \cup {None}
      <4>1. orders \in Seq(Token) /\ seen[d].token \in Token
        BY <1>0 DEF TInv, TypeOK, Rows
      <4>2. orders' = Append(orders, seen[d].token)
        BY <2>2 DEF Checkout
      <4> HIDE DEF Token
      <4>3. /\ orders' \in Seq(Token) /\ Len(orders') = Len(orders) + 1
            /\ DOMAIN orders \subseteq DOMAIN orders' /\ Len(orders') \in DOMAIN orders'
        BY <4>1, <4>2
      <4> QED
        BY <4>3 DEF Token
    <3>2. /\ delivering' = delivering \cup {Len(orders')}
          /\ awaited' = [awaited EXCEPT ![d] = Len(orders')]
          /\ confirmation' = confirmation
      BY <2>2 DEF Checkout
    <3>3. /\ delivering' \subseteq DOMAIN orders'
          /\ awaited' \in [Drivers -> {0} \cup DOMAIN orders']
      BY <3>1, <3>2 DEF TInv, TypeOK
    <3> QED
      BY <2>2, <3>1, <3>2, <3>3 DEF TInv, TypeOK, Checkout, Goto, Labels, tables
  <2> QED
    BY <2>1, <2>2
<1>2. DriversHold' /\ Quoted'
  BY DEF TInv, TypeOK, DriversHold, Quoted, Checkout, NextIn, Goto, tables
<1> QED
  BY <1>1, <1>2 DEF TInv

LEMMA PollTInv ==
  ASSUME TInv, NEW d \in Drivers, Poll(d)
  PROVE  TInv'
<1>1. /\ seen[d] # None
      /\ UNCHANGED <<tables, shop, claims, seen, notice, awaited, troubles>>
      /\ quotes' \in [Quotes -> {"none", "live", "expired"}]
      /\ request' \in [Quotes -> RequestStatus]
  BY DEF Poll, TInv, TypeOK, DriversHold, world
<1>2. ASSUME NEW c \in DOMAIN claims, Raise(d, ClaimEvent("CLAIM_VERIFIED", c))
      PROVE  TInv'
  <2>1. c \in Nat
    BY DEF TInv, TypeOK
  <2> QED
    BY <1>1, <1>2, <2>1, PlainEvents, RaisingOnSeen DEF EventTypes, Quoting
<1>3. ASSUME NEW type \in {"CLAIM_REJECTED", "TIMED_OUT"}, Raise(d, Event(type))
      PROVE  TInv'
  BY <1>1, <1>3, PlainEvents, RaisingOnSeen DEF EventTypes, Quoting
<1> QED
  BY <1>2, <1>3 DEF Poll

\* The row stays a row with the quote its state needs.
LEMMA DiagramQuotes ==
  ASSUME NEW row \in Rows, NEW e \in Events, NEW to \in States,
         HasQuote(row), EventHasQuote(e), <<row.state, e.type, to>> \in Diagram
  PROVE  HasQuote(Patched(row, to, e))
BY DEF HasQuote, EventHasQuote, Patched, Diagram, Searched, Quoting

LEMMA RecordTransitionTInv ==
  ASSUME TInv, NEW d \in Drivers, RecordTransition(d)
  PROVE  TInv'
<1>1. PICK to \in States :
        /\ <<errand.state, event[d].type, to>> \in Diagram
        /\ errand' = Patched(errand, to, event[d])
        /\ log' = Append(log, Entry(errand.state, to, event[d]))
        /\ notice' = [notice EXCEPT ![d] = Transition(errand.state, to, errand'.quote)]
  BY DEF RecordTransition, MayRecord
<1>2. event[d] \in Events /\ EventHasQuote(event[d]) /\ errand \in Rows /\ HasQuote(errand)
  BY DEF RecordTransition, TInv, TypeOK, DriversHold, Quoted
<1>3. errand' \in Rows /\ HasQuote(errand')
  BY <1>1, <1>2, PatchedRow, DiagramQuotes
<1>4. Transition(errand.state, to, errand'.quote) \in Transitions
  BY <1>2, <1>3 DEF Transition, Transitions, Rows
<1>5. Entry(errand.state, to, event[d]) \in Entries
  BY <1>2 DEF Entry, Entries, Rows
<1>6. TypeOK'
  BY <1>1, <1>3, <1>4, <1>5
  DEF TInv, TypeOK, RecordTransition, Goto, Labels, world, shop
<1>7. DriversHold' /\ Quoted'
  BY <1>1, <1>3, <1>4, NoNoticeAssumption
  DEF TInv, TypeOK, DriversHold, Quoted, RecordTransition, Goto
<1> QED
  BY <1>6, <1>7 DEF TInv

LEMMA MirrorTInv ==
  ASSUME TInv, NEW d \in Drivers, Mirror(d)
  PROVE  TInv'
<1>1. notice[d] \in Transitions
  BY DEF Mirror, TInv, TypeOK, DriversHold
<1>2. /\ mirror' \in Seq(Transitions) /\ troubles' \in 0..MaxTroubles
     
  BY <1>1 DEF Mirror, TInv, TypeOK
<1> QED
  BY <1>2, Leaving DEF Mirror

LEMMA RetryTInv ==
  ASSUME TInv, NEW d \in Drivers, Retry(d)
  PROVE  TInv'
<1>1. Event("RETRY") \in Events /\ EventHasQuote(Event("RETRY"))
  BY PlainEvents DEF EventTypes, Quoting
<1>2. errand \in Rows /\ HasQuote(errand)
  BY DEF TInv, TypeOK, Quoted
<1>3. /\ Raise(d, Event("RETRY")) /\ seen' = [seen EXCEPT ![d] = errand]
      /\ UNCHANGED <<tables, shop, claims, notice, awaited>>
      /\ quotes' \in [Quotes -> {"none", "live", "expired"}]
      /\ request' \in [Quotes -> RequestStatus]
  BY DEF Retry, TInv, TypeOK, world
<1>4. troubles' \in 0..MaxTroubles
  BY BoundsAssumption DEF Retry, TInv, TypeOK
<1> QED
  BY <1>1, <1>2, <1>3, <1>4, Raising

LEMMA DieTInv ==
  ASSUME TInv, NEW d \in Drivers, Die(d)
  PROVE  TInv'
<1>1. /\ mirror' \in Seq(Transitions)
      /\ troubles' \in 0..MaxTroubles /\ UNCHANGED <<errand, log, world>>
  BY BoundsAssumption DEF Die, TInv, TypeOK, tables
<1> QED
  BY <1>1, Leaving DEF Die

LEMMA SurroundingsTInv ==
  ASSUME TInv, Surroundings
  PROVE  TInv'
<1>1. ASSUME NEW n \in delivering, Confirm(n)
      PROVE  TInv'
  <2>1. /\ pc' \in [Drivers -> Labels]
        /\ awaited' \in [Drivers -> {0} \cup DOMAIN orders']
        /\ delivering' \subseteq DOMAIN orders'
    BY <1>1 DEF Confirm, TInv, TypeOK, Labels
  <2>2. TypeOK'
    BY <1>1, <2>1 DEF Confirm, TInv, TypeOK, tables
  <2>3. DriversHold' /\ Quoted'
    BY <1>1 DEF Confirm, TInv, TypeOK, DriversHold, Quoted, tables
  <2> QED
    BY <2>2, <2>3 DEF TInv
<1>2. ASSUME NEW q \in Quotes, ExpireQuote(q) \/ RecordDecision(q)
      PROVE  TInv'
  <2>1. TypeOK'
    BY <1>2 DEF ExpireQuote, RecordDecision, TInv, TypeOK, RequestStatus, tables, shop
  <2>2. DriversHold' /\ Quoted'
    BY <1>2 DEF ExpireQuote, RecordDecision, TInv, DriversHold, Quoted, tables
  <2> QED
    BY <2>1, <2>2 DEF TInv
<1>3. ASSUME NEW c \in DOMAIN claims, JudgeClaim(c)
      PROVE  TInv'
  <2>1. claims' \in Seq([quote : Quotes, verdict : Verdicts])
    <3> DEFINE Claim == [quote : Quotes, verdict : Verdicts]
    <3>1. PICK v \in Verdicts : claims' = [claims EXCEPT ![c].verdict = v]
      BY <1>3 DEF JudgeClaim, Verdicts
    <3>2. claims \in Seq(Claim) /\ c \in 1..Len(claims)
      BY DEF TInv, TypeOK
    <3>3. [claims[c] EXCEPT !.verdict = v] \in Claim
      <4> HIDE DEF Claim
      <4>1. claims[c] \in Claim
        BY <3>2
      <4> QED
        BY <4>1 DEF Claim
    <3> HIDE DEF Claim
    <3>4. [claims EXCEPT ![c] = [claims[c] EXCEPT !.verdict = v]] \in Seq(Claim)
      BY <3>2, <3>3, ExceptSeq
    <3>5. claims' \in Seq(Claim)
      BY <3>1, <3>4
    <3> QED
      BY <3>5 DEF Claim
  <2>2. TypeOK'
    BY <1>3, <2>1 DEF JudgeClaim, TInv, TypeOK, tables, shop
  <2>3. DriversHold' /\ Quoted'
    BY <1>3 DEF JudgeClaim, TInv, DriversHold, Quoted, tables
  <2> QED
    BY <2>2, <2>3 DEF TInv
<1>4. ASSUME NEW n \in DOMAIN orders, FileClaim(n)
      PROVE  TInv'
  <2>1. orders[n] \in Tokens
    BY <1>4 DEF FileClaim, TInv, TypeOK
  <2>2. claims' \in Seq([quote : Quotes, verdict : Verdicts])
    <3> DEFINE Claim == [quote : Quotes, verdict : Verdicts]
               filed == [quote |-> orders[n].quote, verdict |-> "pending"]
    <3>1. filed \in Claim
      BY <2>1 DEF Tokens, Verdicts
    <3>2. claims \in Seq(Claim) /\ claims' = Append(claims, filed)
      BY <1>4 DEF FileClaim, TInv, TypeOK
    <3> HIDE DEF Claim, filed
    <3>3. claims' \in Seq(Claim)
      BY <3>1, <3>2
    <3> QED
      BY <3>3 DEF Claim
  <2>3. TypeOK'
    BY <1>4, <2>2 DEF FileClaim, TInv, TypeOK, tables, shop
  <2>4. DriversHold' /\ Quoted'
    BY <1>4 DEF FileClaim, TInv, TypeOK, DriversHold, Quoted, tables
  <2> QED
    BY <2>3, <2>4 DEF TInv
<1> QED
  BY <1>1, <1>2, <1>3, <1>4 DEF Surroundings

LEMMA NextTInv == TInv /\ [Next]_vars => TInv'
<1> SUFFICES ASSUME TInv, [Next]_vars PROVE TInv'
  OBVIOUS
<1>1. ASSUME NEW d \in Drivers, Start(d) \/ Get(d) PROVE TInv'
  BY <1>1, ReadTInv DEF Start, Get
<1>2. ASSUME NEW d \in Drivers,
             AbortCheckout(d) \/ RefuseDispatch(d) \/ LoseTransition(d)
      PROVE  TInv'
  BY <1>2, LeavingOnly DEF AbortCheckout, RefuseDispatch, LoseTransition
<1>3. CASE UNCHANGED vars
  BY <1>3 DEF vars, tables, world, shop, TInv, TypeOK, DriversHold, Quoted
<1> QED
  BY <1>1, <1>2, <1>3, SearchTInv, CheckExpiryTInv, ConsultTInv, CheckApprovalTInv,
     FailCheckoutTInv, CheckoutTInv, PollTInv, RecordTransitionTInv, MirrorTInv,
     RetryTInv, DieTInv, SurroundingsTInv
  DEF Next, Drive

LEMMA TInvHolds == Spec => []TInv
BY InitTInv, NextTInv, PTL DEF Spec

\* Type correctness: an errand moves only to states of the contract, and the
\* shop's memory and deliveries name orders that were placed.
THEOREM TypeCorrect == Spec => []TypeOK
<1>1. TInv => TypeOK
  BY DEF TInv
<1> QED
  BY <1>1, TInvHolds, PTL

-----------------------------------------------------------------------------
\* Only recordTransition writes the row and the log.
LEMMA OneWriter ==
  ASSUME Next, ~\E d \in Drivers : RecordTransition(d)
  PROVE  UNCHANGED <<errand, log>>
BY DEF Next, Drive, Surroundings, Start, Get, Read, Search, CheckExpiry, Consult,
       CheckApproval, FailCheckout, Checkout, AbortCheckout, Poll, RefuseDispatch,
       LoseTransition, Mirror, Retry, Die, Confirm, FileClaim, ExpireQuote, RecordDecision,
       JudgeClaim, tables

\* The row and the log of any number of drivers, whatever dies or races, are
\* those of one errand that takes the events of its log one by one.
THEOREM ErrandRecordImplemented == Spec => ImplementsErrandRecord
<1>1. Init => Record!Init
  BY DEF Init, Briefed, Record!Init, Record!Briefed
<1>2. TInv /\ [Next]_vars => [Record!Next]_(Record!vars)
  <2> SUFFICES ASSUME TInv, [Next]_vars PROVE [Record!Next]_(Record!vars)
    OBVIOUS
  <2>1. ASSUME NEW d \in Drivers, RecordTransition(d)
        PROVE  Record!Apply
    <3>1. PICK to \in States :
            /\ <<errand.state, event[d].type, to>> \in Diagram
            /\ errand' = Patched(errand, to, event[d])
            /\ log' = Append(log, Entry(errand.state, to, event[d]))
      BY <2>1 DEF RecordTransition, MayRecord
    <3> DEFINE entry == Entry(errand.state, to, event[d])
    <3>2. log \in Seq(Entries) /\ entry \in Entries
      BY <2>1 DEF TInv, TypeOK, DriversHold, RecordTransition, Entry, Entries, Rows
    <3>3. Len(log') = Len(log) + 1 /\ log'[Len(log')] = entry
      <4> HIDE DEF entry
      <4>1. log' = Append(log, entry)
        BY <3>1 DEF entry
      <4> QED
        BY <3>2, <4>1
    <3>4. entry.from = errand.state /\ entry.event = event[d] /\ entry.to = to
      BY DEF Entry
    <3> QED
      BY <3>1, <3>3, <3>4
      DEF Record!Apply, Record!Diagram, Diagram, Record!Entry, Entry,
          Record!Patched, Patched, Record!Quoting, Quoting
  <2>2. CASE Next /\ ~\E d \in Drivers : RecordTransition(d)
    BY <2>2, OneWriter DEF Record!vars
  <2>3. CASE UNCHANGED vars
    BY <2>3 DEF vars, tables, Record!vars
  <2> QED
    BY <2>1, <2>2, <2>3 DEF Record!Next
<1> QED
  BY <1>1, <1>2, TInvHolds, PTL DEF Spec, ImplementsErrandRecord, Record!Spec

-----------------------------------------------------------------------------
\* Approval.  What the row and the drivers hold is approved, or was never
\* quoted, or runs under no mandate.

Approved(token) == token = None \/ (token.apr /\ request[token.quote] = "approved")
Ready == {"APPROVED", "EXECUTING", "FAILED", "CONFIRMED"}

\* Before the search there is no token; from APPROVED on, and on the way back
\* from FAILED, the token is an approved one.
RowApproved(row) ==
  /\ row.state \in {"BRIEFED", "SEARCHING"} => row.token = None
  /\ row.mandate /\ row.state \in Ready => Approved(row.token)

EventApproved(e) ==
  /\ e.type = "APPROVAL_SKIPPED" => ~errand.mandate
  /\ e.type = "APPROVAL_GRANTED" => request[e.quote] = "approved"

AInv ==
  /\ RowApproved(errand)
  /\ \A d \in Drivers :
       /\ seen[d] # None => seen[d].mandate = errand.mandate /\ RowApproved(seen[d])
       /\ event[d] # None => EventApproved(event[d])
  /\ ApprovedBeforeBuying

LEMMA InitAInv == Init => AInv
BY DEF Init, AInv, RowApproved, Ready, Briefed, ApprovedBeforeBuying

\* An approval is never taken back.
LEMMA ApprovalIsFinal ==
  ASSUME TInv, Next, NEW q \in Quotes, request[q] = "approved"
  PROVE  request'[q] = "approved"
<1>1. ASSUME NEW d \in Drivers, Consult(d) PROVE request'[q] = "approved"
  <2>1. seen[d].quote \in Quotes
    BY <1>1, SearchedRow DEF Consult, TInv, TypeOK, DriversHold, Quoted
  <2> QED
    BY <1>1, <2>1 DEF Consult, Answers, TInv, TypeOK
<1>2. ASSUME NEW p \in Quotes, RecordDecision(p) PROVE request'[q] = "approved"
  BY <1>2 DEF RecordDecision, TInv, TypeOK
<1>3. CASE /\ ~\E d \in Drivers : Consult(d)
           /\ ~\E p \in Quotes : RecordDecision(p)
  BY <1>3 DEF Next, Drive, Surroundings, Start, Get, Read, Search, CheckExpiry,
       CheckApproval, FailCheckout, Checkout, AbortCheckout, Poll, RefuseDispatch,
       RecordTransition, LoseTransition, Mirror, Retry, Die, Confirm, FileClaim, ExpireQuote,
       JudgeClaim, world
<1> QED
  BY <1>1, <1>2, <1>3

\* So what was approved stays approved, whatever the step.
LEMMA ApprovedStays ==
  ASSUME TInv, Next, NEW token \in Tokens \cup {None}, Approved(token)
  PROVE  Approved(token)'
BY ApprovalIsFinal DEF Approved, Tokens

LEMMA RowStays ==
  ASSUME TInv, Next, NEW row \in Rows, RowApproved(row)
  PROVE  RowApproved(row)'
<1>1. row.token \in Tokens \cup {None}
  BY DEF Rows
<1> QED
  BY <1>1, ApprovedStays DEF RowApproved

LEMMA MandateStays ==
  ASSUME TInv, Next
  PROVE  errand'.mandate = errand.mandate
<1>1. ASSUME NEW d \in Drivers, RecordTransition(d)
      PROVE  errand'.mandate = errand.mandate
  BY <1>1, PatchedRow DEF RecordTransition, TInv, TypeOK, DriversHold, Quoted
<1> QED
  BY <1>1, OneWriter

\* A driver keeps the row it read, reads the row, or forgets it.
LEMMA SeenIsRead ==
  ASSUME TInv, Next, NEW d \in Drivers
  PROVE  seen'[d] \in {seen[d], errand, None}
BY ZenonT(30) DEF Next, Drive, Surroundings, Start, Get, Read, Search, CheckExpiry, Consult,
       CheckApproval, FailCheckout, Checkout, AbortCheckout, Poll, RefuseDispatch,
       RecordTransition, LoseTransition, Mirror, Retry, Die, Confirm, FileClaim, ExpireQuote,
       RecordDecision, JudgeClaim, Leave, Forget, Goto, Raise, TInv, TypeOK

\* A skip is raised only without a mandate, a grant only on an approved request.
LEMMA EventIsJustified ==
  ASSUME TInv, Next, NEW e \in Drivers
  PROVE  \/ event'[e] \in {event[e], None}
         \/ event'[e].type \notin {"APPROVAL_SKIPPED", "APPROVAL_GRANTED"}
         \/ /\ event'[e].type = "APPROVAL_SKIPPED"
            /\ seen[e] # None /\ ~seen[e].mandate
         \/ /\ event'[e].type = "APPROVAL_GRANTED"
            /\ request'[event'[e].quote] = "approved"
<1> DEFINE Justified ==
      \/ event'[e] \in {event[e], None}
      \/ event'[e].type \notin {"APPROVAL_SKIPPED", "APPROVAL_GRANTED"}
      \/ /\ event'[e].type = "APPROVAL_SKIPPED"
         /\ seen[e] # None /\ ~seen[e].mandate
      \/ /\ event'[e].type = "APPROVAL_GRANTED"
         /\ request'[event'[e].quote] = "approved"
<1>1. ASSUME NEW d \in Drivers, Consult(d) PROVE Justified
  <2>1. /\ seen[d] # None /\ seen[d].quote \in Quotes
        /\ event \in [Drivers -> Events \cup {None}] /\ request \in [Quotes -> RequestStatus]
    BY <1>1, SearchedRow DEF Consult, TInv, TypeOK, DriversHold, Quoted
  <2>2. CASE ~seen[d].mandate
    BY <1>1, <2>1, <2>2 DEF Consult, Raise, Event
  <2>3. CASE seen[d].mandate
    <3>1. PICK status \in Answers(seen[d].quote), heard \in BOOLEAN :
            /\ request' = [request EXCEPT ![seen[d].quote] = status]
            /\ IF heard /\ OutcomeFrom(status, seen[d].quote) # {}
                 THEN \E x \in OutcomeFrom(status, seen[d].quote) : Raise(d, x)
                 ELSE Raise(d, Event("APPROVAL_REQUESTED"))
      BY <1>1, <2>3 DEF Consult
    <3>2. request'[seen[d].quote] = status
      BY <2>1, <3>1
    <3> QED
      BY <2>1, <3>1, <3>2 DEF OutcomeFrom, Raise, Event, QuoteEvent
  <2> QED
    BY <2>2, <2>3
<1>2. ASSUME NEW d \in Drivers, CheckApproval(d) PROVE Justified
  <2>1. request' = request /\ event \in [Drivers -> Events \cup {None}]
    BY <1>2 DEF CheckApproval, world, TInv, TypeOK
  <2> QED
    BY <1>2, <2>1
    DEF CheckApproval, Leave, Forget, Raise, OutcomeFrom, Event, QuoteEvent
<1>3. ASSUME NEW d \in Drivers,
             Start(d) \/ Get(d) \/ Search(d) \/ CheckExpiry(d) \/ FailCheckout(d)
               \/ Poll(d) \/ Retry(d)
      PROVE  Justified
  <2>1. event \in [Drivers -> Events \cup {None}]
    BY DEF TInv, TypeOK
  <2>2. CASE Start(d) \/ Get(d)
    BY <2>1, <2>2 DEF Start, Get, Read, Raise, Event
  <2>3. CASE Search(d)
    BY <2>1, <2>3 DEF Search, Raise, Event, QuoteEvent
  <2>4. CASE CheckExpiry(d)
    BY <2>1, <2>4 DEF CheckExpiry, Raise, Event
  <2>5. CASE FailCheckout(d)
    BY <2>1, <2>5 DEF FailCheckout, Raise, Event
  <2>6. CASE Poll(d)
    BY <2>1, <2>6 DEF Poll, Raise, Event, ClaimEvent
  <2>7. CASE Retry(d)
    BY <2>1, <2>7 DEF Retry, Raise, Event
  <2> QED
    BY <1>3, <2>2, <2>3, <2>4, <2>5, <2>6, <2>7
<1>4. ASSUME NEW d \in Drivers,
             AbortCheckout(d) \/ RefuseDispatch(d) \/ LoseTransition(d) \/ Mirror(d) \/ Die(d)
      PROVE  Justified
  <2>1. event' = [event EXCEPT ![d] = None]
    BY <1>4 DEF AbortCheckout, RefuseDispatch, LoseTransition, Mirror, Die, Leave, Forget
  <2>2. event \in [Drivers -> Events \cup {None}]
    BY DEF TInv, TypeOK
  <2> QED
    BY <2>1, <2>2
<1>5. ASSUME NEW d \in Drivers, Checkout(d) \/ RecordTransition(d) PROVE Justified
  BY <1>5 DEF Checkout, RecordTransition
<1>6. CASE Surroundings
  BY <1>6 DEF Surroundings, Confirm, FileClaim, ExpireQuote, RecordDecision, JudgeClaim
<1> QED
  <2>1. ASSUME NEW d \in Drivers, Drive(d) PROVE Justified
    <3> HIDE DEF Justified
    <3> QED
      BY <2>1, <1>1, <1>2, <1>3, <1>4, <1>5 DEF Drive
  <2>2. (\E d \in Drivers : Drive(d)) \/ Surroundings
    BY DEF Next
  <2>3. CASE \E d \in Drivers : Drive(d)
    BY <2>1, <2>3
  <2>4. CASE Surroundings
    BY <1>6, <2>4
  <2> QED
    BY <2>2, <2>3, <2>4

\* The shop gets an order from a driver that holds an executing row.
LEMMA OrderedFromExecuting ==
  ASSUME TInv, Next, orders' # orders
  PROVE  \E d \in Drivers : /\ orders' = Append(orders, seen[d].token)
                            /\ seen[d] # None /\ seen[d].state = "EXECUTING"
<1>1. ASSUME NEW d \in Drivers, Checkout(d)
      PROVE  /\ orders' = Append(orders, seen[d].token)
             /\ seen[d] # None /\ seen[d].state = "EXECUTING"
  BY <1>1 DEF Checkout, NextIn, shop, TInv, DriversHold
<1>2. CASE ~\E d \in Drivers : Checkout(d)
  BY <1>2 DEF Next, Drive, Surroundings, Start, Get, Read, Search, CheckExpiry, Consult,
       CheckApproval, FailCheckout, AbortCheckout, Poll, RefuseDispatch,
       RecordTransition, LoseTransition, Mirror, Retry, Die, Confirm, FileClaim, ExpireQuote,
       RecordDecision, JudgeClaim, world, shop
<1> QED
  BY <1>1, <1>2

\* Along the diagram: APPROVED is entered by a skip or with the token of an
\* approval, and left for a state that keeps it.
LEMMA DiagramApproves ==
  ASSUME NEW d \in Drivers, NEW to \in States, errand \in Rows, event[d] \in Events,
         RowApproved(errand), EventApproved(event[d]),
         <<errand.state, event[d].type, to>> \in Diagram
  PROVE  RowApproved(Patched(errand, to, event[d]))
BY DEF RowApproved, EventApproved, Approved, Patched, Diagram, Ready, Quoting, Rows

LEMMA NextAInv == TInv /\ AInv /\ [Next]_vars => AInv'
<1> SUFFICES ASSUME TInv, AInv, Next PROVE AInv'
  BY DEF vars, tables, world, shop, AInv, RowApproved, EventApproved, Approved,
         ApprovedBeforeBuying
<1>1. RowApproved(errand)'
  <2>1. ASSUME NEW d \in Drivers, RecordTransition(d) PROVE RowApproved(errand)'
    <3>1. PICK to \in States : /\ <<errand.state, event[d].type, to>> \in Diagram
                               /\ errand' = Patched(errand, to, event[d])
      BY <2>1 DEF RecordTransition, MayRecord
    <3>2. /\ errand \in Rows /\ event[d] \in Events /\ EventHasQuote(event[d])
          /\ EventApproved(event[d]) /\ RowApproved(errand) /\ request' = request
      BY <2>1 DEF RecordTransition, TInv, TypeOK, DriversHold, Quoted, AInv, world
    <3>3. RowApproved(Patched(errand, to, event[d]))
      BY <3>1, <3>2, DiagramApproves
    <3> QED
      BY <3>1, <3>2, <3>3 DEF RowApproved, Approved
  <2>2. CASE ~\E d \in Drivers : RecordTransition(d)
    BY <2>2, OneWriter, RowStays DEF AInv, TInv, TypeOK, RowApproved, Approved
  <2> QED
    BY <2>1, <2>2
<1>2. ASSUME NEW d \in Drivers, (seen[d] # None)'
      PROVE  (seen[d].mandate = errand.mandate /\ RowApproved(seen[d]))'
  <2>1. seen'[d] \in {seen[d], errand} /\ seen'[d] \in Rows
    BY <1>2, SeenIsRead, NextTInv DEF TInv, TypeOK
  <2>2. seen'[d].mandate = errand.mandate /\ RowApproved(seen'[d])
    BY <1>2, <2>1 DEF AInv
  <2> QED
    BY <2>1, <2>2, MandateStays, RowStays DEF RowApproved, Approved
<1>3. ASSUME NEW d \in Drivers, (event[d] # None)'
      PROVE  EventApproved(event[d])'
  <2>1. CASE event'[d] = event[d]
    <3>1. event[d] \in Events /\ EventHasQuote(event[d]) /\ EventApproved(event[d])
      BY <1>3, <2>1 DEF TInv, TypeOK, Quoted, AInv
    <3>2. event[d].type = "APPROVAL_GRANTED" => event[d].quote \in Quotes
      BY <3>1 DEF Events, EventHasQuote, Quoting
    <3> QED
      BY <2>1, <3>1, <3>2, MandateStays, ApprovalIsFinal DEF EventApproved
  <2>2. CASE event'[d] # event[d]
    BY <1>3, <2>2, EventIsJustified, MandateStays DEF EventApproved, AInv
  <2> QED
    BY <2>1, <2>2
<1>4. ApprovedBeforeBuying'
  <2> SUFFICES ASSUME errand'.mandate, NEW n \in DOMAIN orders', orders'[n] # None
               PROVE  orders'[n].apr /\ request'[orders'[n].quote] = "approved"
    BY DEF ApprovedBeforeBuying
  <2>1. errand.mandate
    BY MandateStays
  <2>2. ASSUME n \in DOMAIN orders, orders'[n] = orders[n]
        PROVE  orders'[n].apr /\ request'[orders'[n].quote] = "approved"
    <3>1. Approved(orders[n]) /\ orders[n] \in Tokens \cup {None}
      BY <2>1, <2>2 DEF AInv, ApprovedBeforeBuying, Approved, TInv, TypeOK
    <3> QED
      BY <2>2, <3>1, ApprovedStays DEF Approved
  <2>3. CASE orders' = orders
    BY <2>2, <2>3
  <2>4. CASE orders' # orders
    <3>1. PICK d \in Drivers : /\ orders' = Append(orders, seen[d].token)
                               /\ seen[d] # None /\ seen[d].state = "EXECUTING"
      BY <2>4, OrderedFromExecuting
    <3>2. Approved(seen[d].token) /\ seen[d].token \in Tokens \cup {None}
      BY <2>1, <3>1 DEF AInv, RowApproved, Ready, TInv, TypeOK, Rows
    <3>3. \/ n \in DOMAIN orders /\ orders'[n] = orders[n]
          \/ orders'[n] = seen[d].token
      <4> DEFINE token == seen[d].token
      <4>1. orders \in Seq(Tokens \cup {None}) /\ orders' = Append(orders, token)
        BY <3>1 DEF TInv, TypeOK
      <4> HIDE DEF token
      <4>2. (n \in DOMAIN orders /\ orders'[n] = orders[n]) \/ orders'[n] = token
        BY <4>1
      <4> QED
        BY <4>2 DEF token
    <3> QED
      BY <2>2, <3>2, <3>3, ApprovedStays DEF Approved
  <2> QED
    BY <2>3, <2>4
<1> QED
  BY <1>1, <1>2, <1>3, <1>4 DEF AInv

\* Under a mandate no order that came of a quote is placed before the wallet has
\* approved that quote, for any number of drivers, deaths and retries.
THEOREM UnapprovedIsNotBought == Spec => []ApprovedBeforeBuying
<1>1. Spec => [](TInv /\ AInv)
  BY InitTInv, InitAInv, NextTInv, NextAInv, PTL DEF Spec
<1>2. AInv => ApprovedBeforeBuying
  BY DEF AInv
<1> QED
  BY <1>1, <1>2, PTL

-----------------------------------------------------------------------------
\* Confirmation.  Once it is quoted, the errand keeps its quote; a driver that
\* polls for a verdict holds an executing row; the verdict it found stands.

Early == {"BRIEFED", "SEARCHING"}
Converted(c) ==
  c \in DOMAIN claims /\ claims[c] = [quote |-> errand.quote, verdict |-> "verified"]

OfOneQuote(row) ==
  row.state \notin Early => errand.state \notin Early /\ row.quote = errand.quote

CInv ==
  /\ \A d \in Drivers :
       /\ pc[d] \in {"confirming", "poll"} => seen[d].state = "EXECUTING"
       /\ seen[d] # None => OfOneQuote(seen[d])
       /\ event[d] # None /\ event[d].type = "CLAIM_VERIFIED" =>
            errand.state \notin Early /\ Converted(event[d].claim)
  /\ ConfirmedConverted

LEMMA InitCInv == Init => CInv
BY DEF Init, CInv, Briefed, ConfirmedConverted

\* Only an event of the search brings a quote, and no edge leads back to it.
LEMMA QuoteIsKept ==
  ASSUME TInv, Next, errand.state \notin Early
  PROVE  errand'.state \notin Early /\ errand'.quote = errand.quote
<1>1. ASSUME NEW d \in Drivers, RecordTransition(d)
      PROVE  errand'.state \notin Early /\ errand'.quote = errand.quote
  <2>1. PICK to \in States :
          /\ <<errand.state, event[d].type, to>> \in Diagram
          /\ errand' = Patched(errand, to, event[d])
    BY <1>1 DEF RecordTransition, MayRecord
  <2>2. to \notin Early /\ event[d].type # "QUOTE_RECEIVED"
    BY <2>1 DEF Diagram, Early
  <2> QED
    BY <2>1, <2>2 DEF Patched
<1> QED
  BY <1>1, OneWriter

\* A verified claim is final, and claims are only added.
LEMMA VerifiedStays ==
  ASSUME TInv, Next, NEW c \in DOMAIN claims, claims[c].verdict = "verified"
  PROVE  c \in DOMAIN claims' /\ claims'[c] = claims[c]
<1> DEFINE Claim == [quote : Quotes, verdict : Verdicts]
<1>1. claims \in Seq(Claim)
  BY DEF TInv, TypeOK
<1>2. ASSUME NEW n \in DOMAIN orders, FileClaim(n)
      PROVE  c \in DOMAIN claims' /\ claims'[c] = claims[c]
  <2> DEFINE new == [quote |-> orders[n].quote, verdict |-> "pending"]
  <2>1. orders[n] # None /\ claims' = Append(claims, new)
    BY <1>2 DEF FileClaim
  <2>2. new \in Claim
    BY <2>1 DEF TInv, TypeOK, Tokens, Verdicts
  <2> HIDE DEF new, Claim
  <2> QED
    BY <1>1, <2>1, <2>2
<1>3. ASSUME NEW o \in DOMAIN claims, JudgeClaim(o)
      PROVE  c \in DOMAIN claims' /\ claims'[c] = claims[c]
  BY <1>1, <1>3 DEF JudgeClaim
<1>4. CASE /\ ~\E n \in DOMAIN orders : FileClaim(n)
           /\ ~\E o \in DOMAIN claims : JudgeClaim(o)
  <2>1. claims' = claims
    BY <1>4 DEF Next, Drive, Surroundings, Start, Get, Read, Search, CheckExpiry, Consult,
         CheckApproval, FailCheckout, Checkout, AbortCheckout, Poll, RefuseDispatch,
         RecordTransition, LoseTransition, Mirror, Retry, Die, Confirm, ExpireQuote,
         RecordDecision, world
  <2> QED
    BY <2>1
<1> QED
  BY <1>2, <1>3, <1>4

\* A driver waits for a confirmation or polls with the row it checked out with.
LEMMA PollsWhatItBought ==
  ASSUME TInv, Next, NEW e \in Drivers, pc'[e] \in {"confirming", "poll"}
  PROVE  /\ seen'[e] = seen[e]
         /\ pc[e] \in {"confirming", "poll"} \/ seen[e].state = "EXECUTING"
<1> USE DEF TInv, TypeOK
<1>1. ASSUME NEW d \in Drivers, Start(d) \/ Get(d) \/ Retry(d)
      PROVE  d # e /\ seen'[e] = seen[e] /\ pc'[e] = pc[e]
  BY <1>1 DEF Start, Get, Read, Retry, Raise, Goto
<1>2. ASSUME NEW d \in Drivers, Search(d) \/ CheckExpiry(d) \/ Consult(d)
      PROVE  d # e /\ seen'[e] = seen[e] /\ pc'[e] = pc[e]
  BY <1>2 DEF Search, CheckExpiry, Consult, Raise, Goto
<1>3. ASSUME NEW d \in Drivers,
             CheckApproval(d) \/ FailCheckout(d) \/ Poll(d) \/ RecordTransition(d)
      PROVE  d # e /\ seen'[e] = seen[e] /\ pc'[e] = pc[e]
  BY <1>3 DEF CheckApproval, FailCheckout, Poll, RecordTransition, Raise, Leave, Forget, Goto
<1>4. ASSUME NEW d \in Drivers,
             AbortCheckout(d) \/ RefuseDispatch(d) \/ LoseTransition(d) \/ Mirror(d) \/ Die(d)
      PROVE  d # e /\ seen'[e] = seen[e] /\ pc'[e] = pc[e]
  BY <1>4 DEF AbortCheckout, RefuseDispatch, LoseTransition, Mirror, Die, Leave, Forget, Goto
<1>5. ASSUME NEW d \in Drivers, Checkout(d)
      PROVE  /\ seen'[e] = seen[e]
             /\ pc[e] \in {"confirming", "poll"} \/ seen[e].state = "EXECUTING"
  BY <1>5 DEF Checkout, NextIn, Goto
<1>6. CASE Surroundings
  BY <1>6 DEF Surroundings, Confirm, FileClaim, ExpireQuote, RecordDecision, JudgeClaim
<1>7. CASE \E d \in Drivers : Drive(d)
  BY <1>1, <1>2, <1>3, <1>4, <1>5, <1>7 DEF Drive
<1> QED
  BY <1>6, <1>7 DEF Next

\* The verdict comes from a poll that found a verified claim of the quote held.
LEMMA VerdictIsFound ==
  ASSUME TInv, Next, NEW e \in Drivers,
         event'[e] # event[e], event'[e] # None, event'[e].type = "CLAIM_VERIFIED"
  PROVE  /\ pc[e] = "poll"
         /\ event'[e].claim \in DOMAIN claims
         /\ claims[event'[e].claim].quote = seen[e].quote
         /\ claims[event'[e].claim].verdict = "verified"
         /\ UNCHANGED <<errand, claims>>
<1>1. event \in [Drivers -> Events \cup {None}]
  BY DEF TInv, TypeOK
<1>2. ASSUME NEW d \in Drivers, Start(d) \/ Get(d) \/ Retry(d) PROVE FALSE
  BY <1>1, <1>2 DEF Start, Get, Read, Retry, Raise, Event
<1>3. ASSUME NEW d \in Drivers, Search(d) \/ CheckExpiry(d) \/ FailCheckout(d) PROVE FALSE
  BY <1>1, <1>3 DEF Search, CheckExpiry, FailCheckout, Raise, Event, QuoteEvent
<1>4. ASSUME NEW d \in Drivers, Consult(d) \/ CheckApproval(d) PROVE FALSE
  BY <1>1, <1>4 DEF Consult, CheckApproval, OutcomeFrom, Leave, Forget, Raise, Event, QuoteEvent
<1>5. ASSUME NEW d \in Drivers,
             AbortCheckout(d) \/ RefuseDispatch(d) \/ LoseTransition(d) \/ Mirror(d) \/ Die(d)
      PROVE  FALSE
  BY <1>1, <1>5 DEF AbortCheckout, RefuseDispatch, LoseTransition, Mirror, Die, Leave, Forget
<1>6. ASSUME NEW d \in Drivers, Checkout(d) \/ RecordTransition(d) PROVE FALSE
  BY <1>6 DEF Checkout, RecordTransition
<1>7. CASE Surroundings
  BY <1>7 DEF Surroundings, Confirm, FileClaim, ExpireQuote, RecordDecision, JudgeClaim
<1>8. CASE \E d \in Drivers : Drive(d)
  <2>1. PICK d \in Drivers : Poll(d)
    BY <1>2, <1>3, <1>4, <1>5, <1>6, <1>8 DEF Drive
  <2>2. d = e
    BY <1>1, <2>1 DEF Poll, Raise
  <2> QED
    BY <1>1, <2>1, <2>2 DEF Poll, Raise, Event, ClaimEvent, Latest, tables, world
<1> QED
  BY <1>7, <1>8 DEF Next

LEMMA NextCInv == TInv /\ CInv /\ [Next]_vars => CInv'
<1>1. CASE UNCHANGED vars
  BY <1>1 DEF vars, tables, world, CInv, OfOneQuote, Converted, ConfirmedConverted
<1> SUFFICES ASSUME TInv, CInv, Next PROVE CInv'
  BY <1>1
<1>2. ASSUME NEW d \in Drivers, pc'[d] \in {"confirming", "poll"}
      PROVE  seen'[d].state = "EXECUTING"
  BY <1>2, PollsWhatItBought DEF CInv
<1>3. ASSUME NEW d \in Drivers, seen'[d] # None PROVE OfOneQuote(seen[d])'
  BY <1>3, SeenIsRead, QuoteIsKept DEF CInv, OfOneQuote
<1>4. ASSUME NEW c \in DOMAIN claims, errand.state \notin Early, Converted(c)
      PROVE  errand'.state \notin Early /\ Converted(c)'
  BY <1>4, QuoteIsKept, VerifiedStays DEF Converted
<1>5. ASSUME NEW d \in Drivers, event'[d] # None, event'[d].type = "CLAIM_VERIFIED"
      PROVE  errand'.state \notin Early /\ Converted(event[d].claim)'
  <2>1. CASE event'[d] = event[d]
    BY <1>4, <1>5, <2>1 DEF CInv, Converted
  <2>2. CASE event'[d] # event[d]
    <3>1. /\ pc[d] = "poll" /\ UNCHANGED <<errand, claims>>
          /\ event'[d].claim \in DOMAIN claims
          /\ claims[event'[d].claim].quote = seen[d].quote
          /\ claims[event'[d].claim].verdict = "verified"
      BY <1>5, <2>2, VerdictIsFound
    <3>2. errand.state \notin Early /\ seen[d].quote = errand.quote
      BY <3>1 DEF CInv, OfOneQuote, Early, TInv, DriversHold
    <3>3. claims[event'[d].claim] \in [quote : Quotes, verdict : Verdicts]
      <4> DEFINE Claim == [quote : Quotes, verdict : Verdicts]
                 c == event'[d].claim
      <4>1. claims \in Seq(Claim) /\ c \in DOMAIN claims
        BY <3>1 DEF TInv, TypeOK
      <4> HIDE DEF Claim, c
      <4>2. claims[c] \in Claim
        BY <4>1
      <4> QED
        BY <4>2 DEF Claim, c
    <3> QED
      BY <3>1, <3>2, <3>3 DEF Converted
  <2> QED
    BY <2>1, <2>2
<1>6. ConfirmedConverted'
  <2>1. ASSUME NEW d \in Drivers, RecordTransition(d), errand'.state = "CONFIRMED"
        PROVE  Converted(errand.claim)'
    <3>1. PICK to \in States :
            /\ <<errand.state, event[d].type, to>> \in Diagram
            /\ errand' = Patched(errand, to, event[d])
      BY <2>1 DEF RecordTransition, MayRecord
    <3>2. event[d] # None /\ claims' = claims
      BY <2>1 DEF RecordTransition, TInv, DriversHold, world
    <3>3. event[d].type = "CLAIM_VERIFIED"
      BY <2>1, <3>1 DEF Patched, Diagram
    <3>4. errand'.claim = event[d].claim /\ errand'.quote = errand.quote
      BY <3>1, <3>3 DEF Patched
    <3> QED
      BY <3>2, <3>3, <3>4 DEF CInv, Converted
  <2>2. CASE ~\E d \in Drivers : RecordTransition(d)
    <3>1. errand' = errand
      BY <2>2, OneWriter
    <3> SUFFICES ASSUME errand.state = "CONFIRMED" PROVE Converted(errand.claim)'
      BY <3>1 DEF ConfirmedConverted, Converted
    <3>2. errand.state \notin Early /\ Converted(errand.claim)
      BY DEF CInv, ConfirmedConverted, Converted, Early
    <3>3. errand.claim \in DOMAIN claims
      BY <3>2 DEF Converted
    <3> QED
      BY <1>4, <3>1, <3>2, <3>3 DEF Converted
  <2> QED
    BY <2>1, <2>2 DEF ConfirmedConverted, Converted
<1> QED
  BY <1>2, <1>3, <1>5, <1>6 DEF CInv

\* A confirmed errand names a verified claim on its own quote, for any number of
\* drivers, orders and claims.
THEOREM ConfirmedIsConverted == Spec => []ConfirmedConverted
<1>1. Spec => [](TInv /\ CInv)
  BY InitTInv, InitCInv, NextTInv, NextCInv, PTL DEF Spec
<1>2. CInv => ConfirmedConverted
  BY DEF CInv
<1> QED
  BY <1>1, <1>2, PTL

-----------------------------------------------------------------------------
\* The mirror.  A transition in the ledger, or in the hands of a driver about to
\* tell it, was recorded, and no two drivers tell the same one.

Telling(from, to) ==
  {d \in Drivers : notice[d] # None /\ notice[d].from = from /\ notice[d].to = to}
Places(s, from, to) == {i \in DOMAIN s : s[i].from = from /\ s[i].to = to}

\* A transition from QUOTED on is told of an errand that has settled on its quote.
TellsOf(t) == t.to \notin Early => errand.state \notin Early /\ t.quote = errand.quote

MInv ==
  /\ \A d \in Drivers : notice[d] # None => TellsOf(notice[d])
  /\ \A i \in DOMAIN mirror : mirror[i].to \notin Early /\ TellsOf(mirror[i])
  /\ \A from, to \in States :
       \E told \in SUBSET Drivers :
         /\ told = Telling(from, to) /\ IsFiniteSet(told)
         /\ Cardinality(Places(mirror, from, to)) + Cardinality(told)
              <= Cardinality(Places(log, from, to))

LEMMA InitMInv == Init => MInv
<1> SUFFICES ASSUME Init PROVE MInv
  OBVIOUS
<1>1. \A from, to : Telling(from, to) = {}
  BY DEF Init, Telling
<1>2. \A from, to : Places(mirror, from, to) = {} /\ Places(log, from, to) = {}
  BY DEF Init, Places
<1>3. IsFiniteSet({}) /\ Cardinality({}) = 0
  BY FS_EmptySet
<1>4. \A from, to \in States :
         /\ {} = Telling(from, to) /\ IsFiniteSet({})
         /\ Cardinality(Places(mirror, from, to)) + Cardinality({})
              <= Cardinality(Places(log, from, to))
  BY <1>1, <1>2, <1>3
<1>5. \A d \in Drivers : notice[d] = None
  BY DEF Init
<1>6. DOMAIN mirror = {}
  BY DEF Init
<1> QED
  BY <1>4, <1>5, <1>6 DEF MInv

\* How often a transition occurs in a trail is a number, and one more entry
\* raises it by one if it is that transition.
LEMMA PlacesCount ==
  ASSUME NEW S, NEW s \in Seq(S), NEW from, NEW to
  PROVE  /\ IsFiniteSet(Places(s, from, to))
         /\ Cardinality(Places(s, from, to)) \in Nat
<1>1. Places(s, from, to) \subseteq 1..Len(s)
  BY DEF Places
<1>2. IsFiniteSet(1..Len(s))
  BY FS_Interval
<1> QED
  BY <1>1, <1>2, FS_Subset, FS_CardinalityType

LEMMA PlacesGrow ==
  ASSUME NEW S, NEW s \in Seq(S), NEW x \in S, NEW from, NEW to
  PROVE  Cardinality(Places(Append(s, x), from, to)) =
           IF x.from = from /\ x.to = to
           THEN Cardinality(Places(s, from, to)) + 1
           ELSE Cardinality(Places(s, from, to))
<1> DEFINE n == Len(s) + 1
<1>1. /\ DOMAIN Append(s, x) = DOMAIN s \cup {n} /\ n \notin DOMAIN s
      /\ Append(s, x)[n] = x
      /\ \A i \in DOMAIN s : Append(s, x)[i] = s[i]
  OBVIOUS
<1> HIDE DEF n
<1>2. n \notin Places(s, from, to)
  BY <1>1 DEF Places
<1>3. Places(Append(s, x), from, to) =
        IF x.from = from /\ x.to = to
        THEN Places(s, from, to) \cup {n} ELSE Places(s, from, to)
  BY <1>1 DEF Places
<1> QED
  BY <1>2, <1>3, PlacesCount, FS_AddElement

\* A driver records with RecordTransition, tells with Mirror, and does neither
\* in any other step.
LEMMA OneTeller ==
  ASSUME TInv, [Next]_vars, ~\E d \in Drivers : RecordTransition(d) \/ Mirror(d)
  PROVE  /\ UNCHANGED <<errand, log, mirror>>
         /\ \A d \in Drivers : notice'[d] = notice[d] \/ notice'[d] = None
BY ZenonT(30) DEF TInv, TypeOK, Next, Drive, Surroundings, Start, Get, Read, Search, CheckExpiry,
       Consult, CheckApproval, FailCheckout, Checkout, AbortCheckout, Poll,
       RefuseDispatch, LoseTransition, Retry, Die, Confirm, FileClaim, ExpireQuote,
       RecordDecision, JudgeClaim, tables, vars, Leave, Forget

\* What was told of an errand on its quote stays true.
LEMMA TellsOfStays ==
  ASSUME TInv, [Next]_vars, NEW t, TellsOf(t)
  PROVE  TellsOf(t)'
<1>1. CASE Next
  BY <1>1, QuoteIsKept DEF TellsOf
<1>2. CASE UNCHANGED vars
  BY <1>2 DEF vars, tables, TellsOf
<1> QED
  BY <1>1, <1>2

LEMMA NextMInv == TInv /\ MInv /\ [Next]_vars => MInv'
<1> SUFFICES ASSUME TInv, MInv, [Next]_vars PROVE MInv'
  OBVIOUS
<1>1. /\ notice \in [Drivers -> Transitions \cup {None}]
      /\ log \in Seq(Entries) /\ mirror \in Seq(Transitions)
  BY DEF TInv, TypeOK
<1>2. \A t : TellsOf(t) => TellsOf(t)'
  BY TellsOfStays
<1>3. ASSUME NEW d \in Drivers, RecordTransition(d) PROVE MInv'
  <2>1. PICK to \in States :
          /\ errand' = Patched(errand, to, event[d])
          /\ log' = Append(log, Entry(errand.state, to, event[d]))
          /\ notice' = [notice EXCEPT ![d] = Transition(errand.state, to, errand'.quote)]
          /\ mirror' = mirror
    BY <1>3 DEF RecordTransition, MayRecord
  <2> PICK t : t = Transition(errand.state, to, errand'.quote)
    OBVIOUS
  <2> PICK e : e = Entry(errand.state, to, event[d])
    OBVIOUS
  <2>2. t.from = errand.state /\ t.to = to /\ t.quote = errand'.quote
    BY DEF Transition
  <2>3. e \in Entries /\ e.from = errand.state /\ e.to = to
    BY <1>3 DEF TInv, TypeOK, DriversHold, RecordTransition, Entry, Entries, Rows
  <2>4. errand'.state = to
    BY <2>1 DEF Patched
  <2>5. notice'[d] = t /\ \A c \in Drivers : c # d => notice'[c] = notice[c]
    BY <1>1, <2>1
  <2>6. \A c \in Drivers : notice'[c] # None => TellsOf(notice[c])'
    <3>1. TellsOf(t)'
      BY <2>2, <2>4 DEF TellsOf
    <3> SUFFICES ASSUME NEW c \in Drivers, notice'[c] # None PROVE TellsOf(notice[c])'
      OBVIOUS
    <3>2. CASE c = d
      BY <2>5, <3>1, <3>2 DEF TellsOf
    <3>3. CASE c # d
      <4> PICK u : u = notice[c]
        OBVIOUS
      <4>1. u # None /\ notice'[c] = u
        BY <2>5, <3>3
      <4>2. TellsOf(u)'
        BY <1>2, <4>1 DEF MInv
      <4> QED
        BY <4>1, <4>2 DEF TellsOf
    <3> QED
      BY <3>2, <3>3
  <2>7. \A i \in DOMAIN mirror' : mirror'[i].to \notin Early /\ TellsOf(mirror[i])'
    BY <1>2, <2>1 DEF MInv
  <2>8. ASSUME NEW from \in States, NEW onto \in States
        PROVE  \E told \in SUBSET Drivers :
                 /\ told = Telling(from, onto)' /\ IsFiniteSet(told)
                 /\ Cardinality(Places(mirror', from, onto)) + Cardinality(told)
                      <= Cardinality(Places(log', from, onto))
    <3> PICK told \in SUBSET Drivers :
          /\ told = Telling(from, onto) /\ IsFiniteSet(told)
          /\ Cardinality(Places(mirror, from, onto)) + Cardinality(told)
               <= Cardinality(Places(log, from, onto))
      BY DEF MInv
    <3> PICK next : next = Telling(from, onto)'
      OBVIOUS
    <3>1. /\ Cardinality(told) \in Nat
          /\ Cardinality(Places(mirror, from, onto)) \in Nat
          /\ Cardinality(Places(log, from, onto)) \in Nat
      BY <1>1, FS_CardinalityType, PlacesCount
    <3>2. Cardinality(Places(log', from, onto)) =
            IF errand.state = from /\ to = onto
            THEN Cardinality(Places(log, from, onto)) + 1
            ELSE Cardinality(Places(log, from, onto))
      BY <1>1, <2>1, <2>3, PlacesGrow
    <3>3. CASE errand.state = from /\ to = onto
      <4>1. next \subseteq told \cup {d}
        BY <2>5 DEF Telling
      <4>2. IsFiniteSet(told \cup {d}) /\ Cardinality(told \cup {d}) <= Cardinality(told) + 1
        <5>1. IsFiniteSet(told)
          OBVIOUS
        <5>2. /\ IsFiniteSet(told \cup {d})
              /\ \/ Cardinality(told \cup {d}) = Cardinality(told)
                 \/ Cardinality(told \cup {d}) = Cardinality(told) + 1
          BY <5>1, FS_AddElement
        <5> QED
          BY <3>1, <5>2
      <4>3. IsFiniteSet(next) /\ Cardinality(next) <= Cardinality(told \cup {d})
        BY <4>1, <4>2, FS_Subset
      <4>4. Cardinality(next) \in Nat /\ Cardinality(told \cup {d}) \in Nat
        BY <4>2, <4>3, FS_CardinalityType
      <4>5. Cardinality(Places(mirror', from, onto)) + Cardinality(next)
              <= Cardinality(Places(log', from, onto))
        BY <2>1, <3>1, <3>2, <3>3, <4>2, <4>3, <4>4
      <4>6. next \in SUBSET Drivers
        BY <4>1
      <4> QED
        BY <4>3, <4>5, <4>6
    <3>4. CASE ~(errand.state = from /\ to = onto)
      <4>1. next \subseteq told
        BY <2>2, <2>5, <3>4 DEF Telling
      <4>2. IsFiniteSet(next) /\ Cardinality(next) <= Cardinality(told)
        BY <4>1, FS_Subset
      <4>3. Cardinality(next) \in Nat
        BY <4>2, FS_CardinalityType
      <4>4. Cardinality(Places(mirror', from, onto)) + Cardinality(next)
              <= Cardinality(Places(log', from, onto))
        BY <2>1, <3>1, <3>2, <3>4, <4>2, <4>3
      <4>5. next \in SUBSET Drivers
        BY <4>1
      <4> QED
        BY <4>2, <4>4, <4>5
    <3> QED
      BY <3>3, <3>4
  <2> QED
    BY <2>1, <2>6, <2>7, <2>8 DEF MInv, TellsOf
<1>4. ASSUME NEW d \in Drivers, Mirror(d) PROVE MInv'
  <2> PICK t : t = notice[d]
    OBVIOUS
  <2>1. /\ t \in Transitions /\ t # None
        /\ mirror' = IF t.to \in MirroredStates THEN Append(mirror, t) ELSE mirror
        /\ notice' = [notice EXCEPT ![d] = None]
        /\ UNCHANGED <<errand, log>>
    BY <1>1, <1>4, NoNoticeAssumption
    DEF Mirror, Leave, Forget, TInv, DriversHold
  <2>2. notice'[d] = None /\ \A c \in Drivers : c # d => notice'[c] = notice[c]
    BY <1>1, <2>1
  <2>3. TellsOf(t)
    BY <2>1 DEF MInv
  <2>4. \A x : TellsOf(x)' <=> TellsOf(x)
    BY <2>1 DEF TellsOf
  <2>5. \A c \in Drivers : notice'[c] # None => TellsOf(notice[c])'
    BY <2>1, <2>2 DEF MInv, TellsOf
  <2>6. \A i \in DOMAIN mirror' : mirror'[i].to \notin Early /\ TellsOf(mirror[i])'
    <3>1. CASE t.to \in MirroredStates
      <4>1. /\ DOMAIN mirror' = DOMAIN mirror \cup {Len(mirror) + 1}
            /\ mirror'[Len(mirror) + 1] = t
            /\ \A i \in DOMAIN mirror : mirror'[i] = mirror[i]
        BY <1>1, <2>1, <3>1
      <4>2. t.to \notin Early
        BY <3>1 DEF MirroredStates, Early
      <4> QED
        BY <2>1, <2>3, <4>1, <4>2 DEF MInv, TellsOf
    <3>2. CASE t.to \notin MirroredStates
      BY <2>1, <3>2 DEF MInv, TellsOf
    <3> QED
      BY <3>1, <3>2
  <2>7. ASSUME NEW from \in States, NEW onto \in States
        PROVE  \E told \in SUBSET Drivers :
                 /\ told = Telling(from, onto)' /\ IsFiniteSet(told)
                 /\ Cardinality(Places(mirror', from, onto)) + Cardinality(told)
                      <= Cardinality(Places(log', from, onto))
    <3> PICK told \in SUBSET Drivers :
          /\ told = Telling(from, onto) /\ IsFiniteSet(told)
          /\ Cardinality(Places(mirror, from, onto)) + Cardinality(told)
               <= Cardinality(Places(log, from, onto))
      BY DEF MInv
    <3> PICK next : next = told \ {d}
      OBVIOUS
    <3>1. /\ Cardinality(told) \in Nat
          /\ Cardinality(Places(mirror, from, onto)) \in Nat
          /\ Cardinality(Places(log, from, onto)) \in Nat
      BY <1>1, FS_CardinalityType, PlacesCount
    <3>2. next = Telling(from, onto)'
      BY <2>2 DEF Telling
    <3>3. /\ IsFiniteSet(next) /\ next \in SUBSET Drivers
          /\ Cardinality(next) = IF d \in told THEN Cardinality(told) - 1 ELSE Cardinality(told)
      BY FS_RemoveElement
    <3>4. d \in told <=> t.from = from /\ t.to = onto
      BY <2>1 DEF Telling
    <3>5. Cardinality(Places(mirror', from, onto)) =
            IF t.to \in MirroredStates /\ t.from = from /\ t.to = onto
            THEN Cardinality(Places(mirror, from, onto)) + 1
            ELSE Cardinality(Places(mirror, from, onto))
      BY <1>1, <2>1, PlacesGrow
    <3>6. Cardinality(Places(mirror', from, onto)) + Cardinality(next)
            <= Cardinality(Places(log', from, onto))
      BY <2>1, <3>1, <3>3, <3>4, <3>5
    <3> QED
      BY <3>2, <3>3, <3>6
  <2> QED
    BY <2>5, <2>6, <2>7 DEF MInv, TellsOf
<1>5. CASE ~\E d \in Drivers : RecordTransition(d) \/ Mirror(d)
  <2>1. /\ UNCHANGED <<errand, log, mirror>>
        /\ \A d \in Drivers : notice'[d] = notice[d] \/ notice'[d] = None
    BY <1>5, OneTeller
  <2>2. ASSUME NEW from \in States, NEW onto \in States
        PROVE  \E told \in SUBSET Drivers :
                 /\ told = Telling(from, onto)' /\ IsFiniteSet(told)
                 /\ Cardinality(Places(mirror', from, onto)) + Cardinality(told)
                      <= Cardinality(Places(log', from, onto))
    <3> PICK told \in SUBSET Drivers :
          /\ told = Telling(from, onto) /\ IsFiniteSet(told)
          /\ Cardinality(Places(mirror, from, onto)) + Cardinality(told)
               <= Cardinality(Places(log, from, onto))
      BY DEF MInv
    <3> PICK next : next = Telling(from, onto)'
      OBVIOUS
    <3>1. next \subseteq told
      BY <2>1 DEF Telling
    <3>2. IsFiniteSet(next) /\ Cardinality(next) <= Cardinality(told)
      BY <3>1, FS_Subset
    <3>3. /\ Cardinality(told) \in Nat /\ Cardinality(next) \in Nat
          /\ Cardinality(Places(mirror, from, onto)) \in Nat
          /\ Cardinality(Places(log, from, onto)) \in Nat
      BY <1>1, <3>2, FS_CardinalityType, PlacesCount
    <3>4. Cardinality(Places(mirror', from, onto)) + Cardinality(next)
            <= Cardinality(Places(log', from, onto))
      BY <2>1, <3>2, <3>3
    <3>5. next \in SUBSET Drivers
      BY <3>1
    <3> QED
      BY <3>2, <3>4, <3>5
  <2> QED
    BY <2>1, <2>2 DEF MInv, TellsOf
<1> QED
  BY <1>3, <1>4, <1>5

\* The ledger is told of a transition no more often than it happened, and of
\* the quote the errand runs on, for any number of drivers that race and die.
THEOREM MirrorIsTrue == Spec => []MirrorTellsTheTruth
<1>1. Spec => [](TInv /\ MInv)
  BY InitTInv, InitMInv, NextTInv, NextMInv, PTL DEF Spec
<1>2. TInv /\ MInv => MirrorTellsTheTruth
  <2> SUFFICES ASSUME TInv, MInv, NEW i \in DOMAIN mirror
               PROVE  /\ Occurrences(mirror, mirror[i]) <= Occurrences(log, mirror[i])
                      /\ mirror[i].quote = errand.quote
    BY DEF MirrorTellsTheTruth
  <2>1. mirror \in Seq(Transitions) /\ log \in Seq(Entries)
    BY DEF TInv, TypeOK
  <2>2. mirror[i] \in Transitions
    BY <2>1
  <2> PICK from, to \in States : from = mirror[i].from /\ to = mirror[i].to
    BY <2>2 DEF Transitions
  <2> PICK told \in SUBSET Drivers :
        /\ IsFiniteSet(told)
        /\ Cardinality(Places(mirror, from, to)) + Cardinality(told)
             <= Cardinality(Places(log, from, to))
    BY DEF MInv
  <2>3. /\ Cardinality(told) \in Nat
        /\ Cardinality(Places(mirror, from, to)) \in Nat
        /\ Cardinality(Places(log, from, to)) \in Nat
    BY <2>1, FS_CardinalityType, PlacesCount
  <2>4. Cardinality(Places(mirror, from, to)) <= Cardinality(Places(log, from, to))
    BY <2>3
  <2>5. mirror[i].quote = errand.quote
    BY DEF MInv, TellsOf
  <2> QED
    BY <2>4, <2>5 DEF Occurrences, Places
<1> QED
  BY <1>1, <1>2, PTL


=============================================================================
