----------------------------- MODULE Wallet_proofs -----------------------------
(***************************************************************************)
(* Proofs about Wallet: for any number of callers, consumers, quotes and   *)
(* mandates, and any patches, what is approved is within every grant it    *)
(* rests on, a key has one answer, a decision is final and the ledger      *)
(* tells each row once.                                                    *)
(***************************************************************************)
EXTENDS Wallet, TLAPS

-----------------------------------------------------------------------------
(* Types.                                                                  *)

\* Where a call in flight may be.
Labels ==
  {"granted", "insert", "revoked", "lookup", "gate", "find", "record", "approved", "key",
   "mint", "store", "deliver", "push", "notify", "persist", "already", "declining",
   "record_declined"}

CallRecords ==
  [op : {"grant", "attenuate", "revoke", "create", "approve", "decline"},
   consumer : Consumers \cup {None}, quote : Quotes \cup {None},
   mandate : MandateIds \cup {None}, key : Keys \cup {None}, pc : Labels,
   gate : {"explicit", "pre_authorised"}, reply : ReplyRecords \cup {None},
   row : MandateRows \cup RequestRows \cup {None}]

\* What a call carries at each label.
Carries(call) ==
  /\ call.pc \in {"lookup", "gate", "find", "record", "approved", "key", "mint", "store",
                  "deliver", "push", "notify", "persist", "already", "declining",
                  "record_declined"} => call.quote \in Quotes
  /\ call.pc \in {"granted", "revoked", "lookup", "gate", "find", "record", "approved",
                  "key", "mint"} => call.mandate \in MandateIds
  /\ call.pc \in {"gate", "find", "record", "approved", "key", "mint", "store", "deliver"}
       => call.consumer \in Consumers
  /\ call.pc \in {"key", "store"} => call.key \in Keys
  /\ call.pc = "key" => call.gate = "explicit"
  /\ call.pc # "idle" =>
       /\ call.pc = "lookup" \/ call.gate = "pre_authorised" => call.op = "create"
       /\ call.op = "create" => call.key \in Keys
  /\ call.pc \in {"store", "deliver"} => call.reply \in ReplyRecords
  /\ call.pc = "persist" => call.row \in RequestRows
  /\ call.pc = "insert" => call.row \in MandateRows

WalletTypeOK ==
  /\ now \in Nat /\ made \in Nat /\ crashes \in Nat
  /\ mandates \in [MandateIds -> MandateRows \cup {None}]
  /\ approvals \in [Quotes -> ApprovalRows \cup {None}]
  /\ idempotency_keys \in [Keys -> KeyRows \cup {None}]
  /\ approval_requests \in [Quotes -> RequestRows \cup {None}]
  /\ minted \in Seq([quote : Quotes, mandate : MandateIds])
  /\ ledger \in [Events -> Nat]
  /\ calls \in [Callers -> CallRecords \cup {Idle}]
  /\ answered \subseteq [key : Keys, consumer : Consumers, reply : ReplyRecords]

-----------------------------------------------------------------------------
(* The inductive invariant.                                                *)

\* Rows are given the ids in order.
IdsInOrder ==
  \E n \in 0..MaxMandates : \A i \in MandateIds : mandates[i] # None <=> i <= n

\* A row that was attenuated from one that is there, and is within it.
WithinParent(row) ==
  row.parent # None =>
    /\ row.parent \in MandateIds /\ mandates[row.parent] # None
    /\ Narrows(row.authority, mandates[row.parent].authority)
    /\ row.agent = mandates[row.parent].agent

MandatesOK ==
  IdsInOrder /\ \A i \in MandateIds : mandates[i] # None => WithinParent(mandates[i])

\* A mandate covers a quote, and one for which it asks nobody.
Allows(mandate, q) ==
  Quote[q].amount <= mandate.authority.per_txn /\ "checkout:execute" \in mandate.authority.scopes
Foresees(mandate, q) ==
  Quote[q].amount <= mandate.authority.pre_authorised_up_to /\ Quote[q].agent = mandate.agent
Covers(m, q, mode) ==
  /\ mandates[m] # None
  /\ Allows(mandates[m], q)
  /\ mode = "pre_authorised" => Foresees(mandates[m], q)

ApprovalsOK ==
  \A q \in Quotes : approvals[q] # None => Covers(approvals[q].mandate, q, approvals[q].mode)

\* The answer under a key is the stored one, for the consumer it is stored for.
StoredIs(key, consumer, reply) ==
  /\ idempotency_keys[key] # None
  /\ idempotency_keys[key].consumer = consumer => reply = idempotency_keys[key].response

\* What a call knows of the tables at each label, and no other call can undo.
Knows(call) ==
  /\ call.pc = "insert" => WithinParent(call.row)
  /\ call.pc = "gate" /\ call.gate = "pre_authorised" =>
       mandates[call.mandate] # None /\ Foresees(mandates[call.mandate], call.quote)
  /\ call.pc \in {"find", "record"} => Covers(call.mandate, call.quote, call.gate)
  /\ call.pc \in {"approved", "mint"} => approvals[call.quote] # None
  /\ call.pc = "deliver" /\ call.key # None => StoredIs(call.key, call.consumer, call.reply)

CallOK(p) == Carries(calls[p]) /\ Knows(calls[p])
CallsOK == \A p \in Callers : CallOK(p)

MintedOK == \A i \in DOMAIN minted : approvals[minted[i].quote] # None
AnswersOK == \A a \in answered : StoredIs(a.key, a.consumer, a.reply)

\* What the ledger does not say yet: a call in flight is about to, and it alone.
Untold(call) ==
  /\ call.pc = "granted" =>
       /\ mandates[call.mandate] # None
       /\ ledger[Event("MandateGranted", call.mandate)] = 0
  /\ call.pc = "revoked" =>
       /\ mandates[call.mandate] # None /\ mandates[call.mandate].status = "revoked"
       /\ ledger[Event("MandateRevoked", call.mandate)] = 0
  /\ call.pc = "approved" =>
       /\ approvals[call.quote] # None
       /\ ledger[Event("ApprovalGranted", call.quote)] = 0

Apart(one, other) ==
  /\ one.pc = "granted" /\ other.pc = "granted" => one.mandate # other.mandate
  /\ one.pc = "revoked" /\ other.pc = "revoked" => one.mandate # other.mandate
  /\ one.pc = "approved" /\ other.pc = "approved" => one.quote # other.quote

LedgerOK ==
  /\ LedgerFollowsTables
  /\ \A p \in Callers : Untold(calls[p])
  /\ \A p, o \in Callers : p # o => Apart(calls[p], calls[o])

WalletInv ==
  /\ WalletTypeOK /\ MandatesOK /\ ApprovalsOK /\ CallsOK /\ MintedOK /\ AnswersOK
  /\ LedgerOK

-----------------------------------------------------------------------------
(* Lemmas about mandates.                                                  *)

\* Within is what it says in the three dimensions a gate looks at.
LEMMA NarrowsMeans ==
  ASSUME NEW child, NEW parent, Narrows(child, parent)
  PROVE  /\ child.scopes \subseteq parent.scopes
         /\ child.per_txn <= parent.per_txn
         /\ child.pre_authorised_up_to <= parent.pre_authorised_up_to
<1> DEFINE within ==
      [scopes       |-> child.scopes \subseteq parent.scopes,
       per_txn      |-> child.per_txn <= parent.per_txn,
       per_month    |-> child.per_month <= parent.per_month,
       categories   |-> child.categories \subseteq parent.categories,
       merchants    |-> MerchantsSubset(child.merchants, parent.merchants),
       pre_authorised_up_to |->
         child.pre_authorised_up_to <= parent.pre_authorised_up_to,
       data_sharing |-> child.data_sharing \subseteq parent.data_sharing,
       exp          |-> child.exp <= parent.exp]
<1>1. {dimension \in DOMAIN within : ~within[dimension]} = {}
  BY DEF Narrows, attenuationViolations
<1>2. "scopes" \in DOMAIN within /\ "per_txn" \in DOMAIN within
      /\ "pre_authorised_up_to" \in DOMAIN within
  OBVIOUS
<1>3. /\ within.scopes = (child.scopes \subseteq parent.scopes)
      /\ within.per_txn = (child.per_txn <= parent.per_txn)
      /\ within.pre_authorised_up_to =
           (child.pre_authorised_up_to <= parent.pre_authorised_up_to)
  BY Zenon
<1> HIDE DEF within
<1>4. within.scopes /\ within.per_txn /\ within.pre_authorised_up_to
  BY <1>1, <1>2, Zenon
<1> QED
  BY <1>3, <1>4, Zenon

\* A patched authority is one.
LEMMA OverlayType ==
  ASSUME NEW parent \in Authority, NEW patch \in Patches
  PROVE  Overlay(parent, patch) \in Authority
<1> DEFINE child == Overlay(parent, patch)
<1>1. DOMAIN parent = DOMAIN Dimension
  BY DEF Authority, Dimension
<1>2. \A f \in DOMAIN Dimension : parent[f] \in Dimension[f]
  BY DEF Authority, Dimension
<1>3. \A f \in DOMAIN patch : patch[f] \in Dimension[f]
  BY WalletAssumption
<1>4. DOMAIN child = DOMAIN Dimension
  BY <1>1 DEF Overlay
<1>5. \A f \in DOMAIN Dimension : child[f] \in Dimension[f]
  BY <1>1, <1>2, <1>3 DEF Overlay
<1>6. child = [f \in DOMAIN Dimension |-> child[f]]
  BY <1>1 DEF Overlay
<1> HIDE DEF child
<1>7. child = [scopes |-> child.scopes, per_txn |-> child.per_txn, per_month |-> child.per_month,
               categories |-> child.categories, merchants |-> child.merchants,
               data_sharing |-> child.data_sharing,
               pre_authorised_up_to |-> child.pre_authorised_up_to, exp |-> child.exp]
  BY <1>6 DEF Dimension
<1>8. /\ child.scopes \in SUBSET Scopes /\ child.per_txn \in Nat /\ child.per_month \in Nat
      /\ child.categories \in SUBSET Categories
      /\ child.merchants \in SUBSET (Merchants \cup {AnyMerchant})
      /\ child.data_sharing \in SUBSET Flags
      /\ child.pre_authorised_up_to \in Nat /\ child.exp \in Nat
  BY <1>5 DEF Dimension
<1> QED
  BY <1>7, <1>8 DEF child, Authority

\* The fresh id is the one after those in use.
LEMMA FreshIsNext ==
  ASSUME MandatesOK, HasFreshMandate
  PROVE  /\ FreshMandate \in MandateIds /\ mandates[FreshMandate] = None
         /\ \A i \in MandateIds : mandates[i] # None <=> i < FreshMandate
<1>1. PICK n \in 0..MaxMandates : \A i \in MandateIds : mandates[i] # None <=> i <= n
  BY DEF MandatesOK, IdsInOrder
<1>2. n + 1 \in MandateIds /\ mandates[n + 1] = None /\ \A j \in 1..n : mandates[j] # None
  BY <1>1, WalletAssumption DEF HasFreshMandate, MandateIds
<1>3. /\ FreshMandate \in MandateIds /\ mandates[FreshMandate] = None
      /\ \A j \in 1..(FreshMandate - 1) : mandates[j] # None
  BY <1>2 DEF FreshMandate
<1>4. FreshMandate = n + 1
  BY <1>1, <1>2, <1>3 DEF MandateIds
<1> QED
  BY <1>1, <1>3, <1>4 DEF MandateIds

-----------------------------------------------------------------------------
(* A call moves on, and the tables it knows of stay as they are.           *)

Telling == {"granted", "revoked", "approved"}
TableEvents == {"MandateGranted", "MandateRevoked", "ApprovalGranted"}

\* The call of p becomes new, which carries and knows what its label asks for.
Moves(p, new) ==
  /\ calls' = [calls EXCEPT ![p] = new]
  /\ new \in CallRecords \cup {Idle}
  /\ Carries(new) /\ Knows(new)
  /\ new.pc \notin Telling

\* Nothing that a call can know of is written.
Quiet ==
  /\ UNCHANGED <<mandates, approvals, idempotency_keys>>
  /\ minted' \in Seq([quote : Quotes, mandate : MandateIds])
  /\ \A i \in DOMAIN minted' : approvals[minted'[i].quote] # None
  /\ now' \in Nat /\ made' \in Nat /\ crashes' \in Nat
  /\ approval_requests' \in [Quotes -> RequestRows \cup {None}]
  /\ ledger' \in [Events -> Nat]
  /\ \A e \in Events : e.type \in TableEvents => ledger'[e] = ledger[e]
  /\ answered' \subseteq [key : Keys, consumer : Consumers, reply : ReplyRecords]
  /\ \A a \in answered' : StoredIs(a.key, a.consumer, a.reply)

\* What a call in flight is.
LEMMA InFlight ==
  ASSUME WalletInv, NEW p \in Callers, ~At(p, "idle")
  PROVE  /\ calls[p] \in CallRecords /\ calls[p].pc \in Labels
         /\ Carries(calls[p]) /\ Knows(calls[p])
BY DEF WalletInv, WalletTypeOK, CallsOK, CallOK, At, Idle, CallRecords

\* A resting call asks for nothing.
LEMMA IdleAsksNothing == Idle.pc = "idle" /\ Carries(Idle) /\ Knows(Idle) /\ Idle.pc \notin Telling
<1>1. Idle.pc = "idle"
  BY DEF Idle
<1> QED
  BY <1>1 DEF Knows, Telling, Carries

\* The ledger still follows the tables when no event of theirs is appended.
LEMMA LedgerKeeps ==
  ASSUME WalletInv, UNCHANGED <<mandates, approvals>>,
         \A e \in Events : e.type \in TableEvents => ledger'[e] = ledger[e],
         \A p \in Callers : calls'[p] = calls[p] \/ calls'[p].pc \notin Telling
  PROVE  LedgerOK'
<1>1. /\ \A i \in MandateIds : /\ ledger'[Event("MandateGranted", i)] = ledger[Event("MandateGranted", i)]
                               /\ ledger'[Event("MandateRevoked", i)] = ledger[Event("MandateRevoked", i)]
      /\ \A q \in Quotes :
           ledger'[Event("ApprovalGranted", q)] = ledger[Event("ApprovalGranted", q)]
  BY DEF Events, Event, TableEvents
<1>2. LedgerFollowsTables'
  BY <1>1 DEF WalletInv, LedgerOK, LedgerFollowsTables
<1>3. \A p \in Callers : Untold(calls[p])'
  <2> SUFFICES ASSUME NEW p \in Callers, calls'[p].pc \in Telling
               PROVE  Untold(calls[p])'
    BY DEF Untold, Telling
  <2>1. calls'[p] = calls[p] /\ Untold(calls[p]) /\ Carries(calls[p])
    BY DEF WalletInv, LedgerOK, CallsOK, CallOK
  <2> QED
    BY <1>1, <2>1 DEF Untold, Carries
<1>4. \A p, o \in Callers : p # o => Apart(calls[p], calls[o])'
  <2> SUFFICES ASSUME NEW p \in Callers, NEW o \in Callers, p # o,
                      calls'[p].pc \in Telling, calls'[o].pc \in Telling
               PROVE  Apart(calls[p], calls[o])'
    BY DEF Apart, Telling
  <2>1. calls'[p] = calls[p] /\ calls'[o] = calls[o] /\ Apart(calls[p], calls[o])
    BY DEF WalletInv, LedgerOK
  <2> QED
    BY <2>1 DEF Apart
<1> QED
  BY <1>2, <1>3, <1>4 DEF LedgerOK

\* A step of one call keeps the invariant.
LEMMA CallStep ==
  ASSUME WalletInv, NEW p \in Callers, NEW new, Moves(p, new), Quiet
  PROVE  WalletInv'
<1>1. WalletTypeOK'
  BY DEF WalletInv, WalletTypeOK, Moves, Quiet
<1>2. \A o \in Callers : calls'[o] = IF o = p THEN new ELSE calls[o]
  BY DEF WalletInv, WalletTypeOK, Moves
<1>3. MandatesOK' /\ ApprovalsOK' /\ MintedOK' /\ AnswersOK'
  BY DEF WalletInv, Quiet, MandatesOK, IdsInOrder, WithinParent, ApprovalsOK, Covers, Allows,
     Foresees, MintedOK, AnswersOK, StoredIs
<1>4. CallsOK'
  <2> SUFFICES ASSUME NEW o \in Callers PROVE (Carries(calls[o]) /\ Knows(calls[o]))'
    BY DEF CallsOK, CallOK
  <2>1. Carries(calls'[o]) /\ Knows(calls'[o])
    BY <1>2 DEF WalletInv, CallsOK, CallOK, Moves
  <2> QED
    BY <2>1 DEF Quiet, Carries, Knows, WithinParent, Covers, Allows, Foresees, StoredIs
<1>5. LedgerOK'
  BY <1>2, LedgerKeeps DEF Quiet, Moves
<1> QED
  BY <1>1, <1>3, <1>4, <1>5 DEF WalletInv

\* A step that leaves every call alone as well.
LEMMA QuietStep ==
  ASSUME WalletInv, UNCHANGED calls, Quiet
  PROVE  WalletInv'
<1>1. WalletTypeOK'
  BY DEF WalletInv, WalletTypeOK, Quiet
<1>2. MandatesOK' /\ ApprovalsOK' /\ MintedOK' /\ AnswersOK'
  BY DEF WalletInv, Quiet, MandatesOK, IdsInOrder, WithinParent, ApprovalsOK, Covers, Allows,
     Foresees, MintedOK, AnswersOK, StoredIs
<1>3. CallsOK'
  BY SMTT(30) DEF WalletInv, Quiet, CallsOK, CallOK, Carries, Knows, WithinParent, Covers, Allows, Foresees,
     StoredIs
<1>4. LedgerOK'
  BY LedgerKeeps DEF Quiet
<1> QED
  BY <1>1, <1>2, <1>3, <1>4 DEF WalletInv

\* A step that writes nothing but the call is quiet.
LEMMA OnlyTheCall ==
  ASSUME WalletInv, UNCHANGED <<now, tables, minted, ledger, crashes, answered>>, made' \in Nat
  PROVE  Quiet
BY DEF Quiet, WalletInv, WalletTypeOK, AnswersOK, MintedOK, tables

\* A call that goes on to a later label asks for what that label asks for.
LEMMA MovesOn ==
  ASSUME WalletInv, NEW p \in Callers, ~At(p, "idle"), NEW label \in Labels \ Telling, Goto(p, label),
         Carries([calls[p] EXCEPT !.pc = label]), Knows([calls[p] EXCEPT !.pc = label]), Quiet
  PROVE  WalletInv'
<1> DEFINE new == [calls[p] EXCEPT !.pc = label]
<1>1. calls[p] \in CallRecords
  BY InFlight
<1>2. new \in CallRecords /\ new.pc = label
  BY <1>1 DEF CallRecords
<1>3. calls' = [calls EXCEPT ![p] = new]
  BY DEF Goto
<1>4. Moves(p, new)
  BY <1>2, <1>3 DEF Moves
<1> QED
  BY <1>4, CallStep

\* A call that is over knows of nothing.
LEMMA EndsWell ==
  ASSUME WalletInv, NEW p \in Callers, Finish(p), Quiet
  PROVE  WalletInv'
<1>1. Moves(p, Idle)
  BY IdleAsksNothing DEF Moves, Finish
<1> QED
  BY <1>1, CallStep

\* A row is put down to be written; a call that has one knows of nothing else.
LEMMA RowInHand ==
  ASSUME WalletInv, NEW p \in Callers, ~At(p, "idle"), calls[p].quote \in Quotes,
         NEW row \in RequestRows, WriteRow(p, row), Quiet
  PROVE  WalletInv'
<1> DEFINE new == [calls[p] EXCEPT !.row = row, !.pc = "persist"]
<1>1. calls[p] \in CallRecords /\ Carries(calls[p])
  BY InFlight
<1>2. /\ new \in CallRecords /\ new.pc = "persist" /\ new.row = row
      /\ new.quote = calls[p].quote /\ new.op = calls[p].op /\ new.gate = calls[p].gate
      /\ new.key = calls[p].key
  BY <1>1, ZenonT(30) DEF CallRecords, Labels
<1>3. calls[p].pc # "idle"
  BY DEF At
<1>4. Carries(new) /\ Knows(new)
  BY <1>1, <1>2, <1>3 DEF Carries, Knows
<1>5. calls' = [calls EXCEPT ![p] = new]
  BY DEF WriteRow
<1>6. Moves(p, new)
  BY <1>2, <1>4, <1>5 DEF Moves, Telling
<1> QED
  BY <1>6, CallStep

\* The rows an approval request can become.
LEMMA RowsAreRows ==
  /\ Row("expired", "APPROVAL_EXPIRED", 0) \in RequestRows
  /\ Row("pending", None, 0) \in RequestRows
  /\ Row("declined", None, 0) \in RequestRows
  /\ \A reason \in Refusals : Row("refused", reason, 0) \in RequestRows
  /\ \A token \in Nat : Row("approved", None, token) \in RequestRows
BY DEF Row, RequestRows, Refusals

\* What the gate says is one of the refusals the contract names, or nothing.
LEMMA RefusalType ==
  ASSUME NEW mandate, NEW q PROVE Refusal(mandate, q) \in Refusals \cup {None}
BY DEF Refusal, Refusals

\* The gate lets a mandate through that covers the quote.
LEMMA GateAllows ==
  ASSUME WalletTypeOK, NEW m \in MandateIds, NEW q \in Quotes, Refusal(mandates[m], q) = None
  PROVE  mandates[m] \in MandateRows /\ Allows(mandates[m], q)
<1>1. None \notin Refusals
  BY NoneIsNoRow
<1>2. mandates[m] # None
  BY <1>1 DEF Refusal, Refusals
<1>3. mandates[m] \in MandateRows
  BY <1>2 DEF WalletTypeOK
<1>4. "checkout:execute" \in mandates[m].authority.scopes
      /\ ~(Quote[q].amount > mandates[m].authority.per_txn)
  BY <1>1 DEF Refusal, Refusals
<1>5. Quote[q].amount \in Nat /\ mandates[m].authority.per_txn \in Nat
  BY <1>3, WalletAssumption DEF MandateRows, Authority
<1> QED
  BY <1>3, <1>4, <1>5 DEF Allows

-----------------------------------------------------------------------------
(* Calls that only read.                                                   *)

\* A key is known or it is not: the pages' and the agents' keys are all there are.
LEMMA KeysOfQuotes == \A q \in Quotes : AgentKey(q) \in Keys /\ PageKey(q) \in Keys
BY DEF Keys

\* Attenuate keeps the invariant: the child it puts down is within its parent.
LEMMA AttenuateKeeps ==
  ASSUME WalletInv, NEW p \in Callers, NEW c \in Consumers, NEW parent \in MandateIds,
         NEW patch \in Patches, Attenuate(p, c, parent, patch)
  PROVE  WalletInv'
<1> DEFINE child == Overlay(mandates[parent].authority, patch)
           row == [mandates[parent] EXCEPT !.parent = parent, !.authority = child]
           new == [Call("attenuate", c, None, parent, None, "insert") EXCEPT !.row = row]
<1>1. mandates[parent] \in MandateRows
  BY DEF Attenuate, MandateRow, WalletInv, WalletTypeOK
<1>2. child \in Authority
  BY <1>1, OverlayType DEF MandateRows
<1>3. Narrows(child, mandates[parent].authority)
  BY DEF Attenuate, MandateRow
<1>4. /\ row \in MandateRows /\ row.parent = parent /\ row.authority = child
      /\ row.agent = mandates[parent].agent
  <2> HIDE DEF child
  <2> QED
    BY <1>1, <1>2 DEF MandateRows
<1>5. WithinParent(row)
  <2>1. mandates[parent] # None
    BY <1>1, NoneIsNoRow
  <2> HIDE DEF row, child
  <2> QED
    BY <1>3, <1>4, <2>1 DEF WithinParent
<1>6. /\ new \in CallRecords /\ new.pc = "insert" /\ new.row = row
      /\ new.op = "attenuate" /\ new.gate = "explicit"
  <2> HIDE DEF row
  <2> QED
    BY <1>4 DEF Call, CallRecords, Labels
<1> HIDE DEF row, child
<1>7. calls' = [calls EXCEPT ![p] = new]
  BY DEF Attenuate, Begin, MandateRow, row, child
<1> HIDE DEF new
<1>8. Carries(new) /\ Knows(new)
  BY <1>4, <1>5, <1>6 DEF Carries, Knows
<1>9. Moves(p, new)
  BY <1>6, <1>7, <1>8 DEF Moves, Telling
<1>10. Quiet
  BY OnlyTheCall DEF Attenuate, Begin, WalletInv, WalletTypeOK, tables
<1> QED
  BY <1>9, <1>10, CallStep

\* A call that is being answered, or begins, leaves what the others know alone.
LEMMA BeginsWell ==
  ASSUME WalletInv, NEW p \in Callers, NEW new \in CallRecords, Begin(p, new),
         Carries(new), Knows(new), new.pc \notin Telling,
         UNCHANGED <<now, tables, minted, ledger, crashes, answered>>
  PROVE  WalletInv'
<1>1. Moves(p, new)
  BY DEF Moves, Begin
<1>2. Quiet
  BY OnlyTheCall DEF Begin, WalletInv, WalletTypeOK
<1> QED
  BY <1>1, <1>2, CallStep

\* A call answered within its first statement keeps the invariant.
LEMMA AnsweredAtOnce ==
  ASSUME WalletInv, NEW p \in Callers, BeginAndEnd(p),
         UNCHANGED <<now, mandates, approvals, idempotency_keys, approval_requests, minted, ledger,
                     crashes, answered>>
  PROVE  WalletInv'
<1>1. made' \in Nat /\ UNCHANGED calls
  BY DEF BeginAndEnd, WalletInv, WalletTypeOK
<1>2. Quiet
  BY <1>1 DEF Quiet, WalletInv, WalletTypeOK, AnswersOK, MintedOK
<1> QED
  BY <1>1, <1>2, QuietStep

\* A request, an approve and a decline begin.
LEMMA ArrivalsKeep ==
  ASSUME WalletInv, NEW p \in Callers, NEW q \in Quotes
  PROVE  /\ \A m \in MandateIds : RequestApproval(p, q, m) => WalletInv'
         /\ \A c \in Consumers, m \in MandateIds, key \in {None, PageKey(q)} :
              Approve(p, c, q, m, key) => WalletInv'
         /\ \A c \in Consumers : Decline(p, c, q) => WalletInv'
<1>1. ASSUME NEW m \in MandateIds, RequestApproval(p, q, m) PROVE WalletInv'
  <2>1. CASE StandingRow(q) # None
    BY <1>1, <2>1, AnsweredAtOnce DEF RequestApproval, tables
  <2>2. CASE StandingRow(q) = None
    <3> DEFINE new == Call("create", None, q, m, AgentKey(q), "lookup")
    <3>1. new \in CallRecords /\ Carries(new) /\ Knows(new) /\ new.pc \notin Telling
      BY KeysOfQuotes DEF Call, CallRecords, Carries, Knows, Labels, Telling
    <3> QED
      BY <1>1, <2>2, <3>1, BeginsWell DEF RequestApproval
  <2> QED
    BY <2>1, <2>2
<1>2. ASSUME NEW c \in Consumers, NEW m \in MandateIds, NEW key \in {None, PageKey(q)},
             Approve(p, c, q, m, key)
      PROVE  WalletInv'
  <2> DEFINE new == Call("approve", c, q, m, key, IF key = None THEN "gate" ELSE "key")
  <2>1. key \in Keys \cup {None} /\ (key # None => key \in Keys)
    BY KeysOfQuotes
  <2>2. /\ new \in CallRecords /\ new.quote = q /\ new.mandate = m /\ new.consumer = c
        /\ new.key = key /\ new.gate = "explicit" /\ new.op = "approve"
        /\ new.pc = IF key = None THEN "gate" ELSE "key"
    BY <2>1 DEF Call, CallRecords, Labels
  <2> HIDE DEF new
  <2>3. Carries(new) /\ Knows(new) /\ new.pc \notin Telling
    BY <2>1, <2>2 DEF Carries, Knows, Telling
  <2> QED
    BY <1>2, <2>2, <2>3, BeginsWell DEF Approve, new
<1>3. ASSUME NEW c \in Consumers, Decline(p, c, q) PROVE WalletInv'
  <2> DEFINE new == Call("decline", c, q, None, None,
                         IF Quote[q].consumer = c THEN "already" ELSE "record_declined")
  <2>1. /\ new \in CallRecords /\ new.quote = q /\ new.gate = "explicit" /\ new.op = "decline"
        /\ new.pc \in {"already", "record_declined"}
    BY DEF Call, CallRecords, Labels
  <2> HIDE DEF new
  <2>2. Carries(new) /\ Knows(new) /\ new.pc \notin Telling
    BY <2>1 DEF Carries, Knows, Telling
  <2> QED
    BY <1>3, <2>1, <2>2, BeginsWell DEF Decline, new
<1> QED
  BY <1>1, <1>2, <1>3

\* The mandate and the quote are looked up: a request that goes on to the implicit
\* gate asks for no more than the mandate foresees.
LEMMA LookUpKeeps ==
  ASSUME WalletInv, NEW p \in Callers, LookUp(p) PROVE WalletInv'
<1> DEFINE call == calls[p]  mandate == mandates[call.mandate]
<1>1. /\ ~At(p, "idle") /\ call \in CallRecords /\ Carries(call) /\ Knows(call)
      /\ call.pc = "lookup"
  BY InFlight DEF LookUp, At
<1>2. call.quote \in Quotes /\ call.mandate \in MandateIds /\ call.op = "create" /\ call.key \in Keys
  BY <1>1 DEF Carries
<1>3. Quiet
  BY OnlyTheCall DEF LookUp, WalletInv, WalletTypeOK
<1>4. CASE mandate = None \/ ~Matches(call.quote, mandate)
  BY <1>3, <1>4, EndsWell DEF LookUp, MandateRow
<1>5. CASE mandate # None /\ Matches(call.quote, mandate) /\ Quote[call.quote].expires_at <= now
  BY <1>1, <1>2, <1>3, <1>5, RowInHand, RowsAreRows DEF LookUp, MandateRow
<1>6. CASE /\ mandate # None /\ Matches(call.quote, mandate)
           /\ ~(Quote[call.quote].expires_at <= now)
  <2> DEFINE label == IF Quote[call.quote].amount <= mandate.authority.pre_authorised_up_to
                        THEN "gate" ELSE "push"
             new == [call EXCEPT !.consumer = mandate.consumer, !.pc = label,
                                 !.gate = "pre_authorised"]
  <2>1. mandate \in MandateRows
    BY <1>2, <1>6 DEF WalletInv, WalletTypeOK
  <2>2. /\ new \in CallRecords /\ new.consumer \in Consumers /\ new.pc = label
        /\ new.quote = call.quote /\ new.mandate = call.mandate /\ new.op = "create"
        /\ new.key = call.key /\ new.gate = "pre_authorised"
    <3> HIDE DEF mandate
    <3> QED BY <1>1, <1>2, <2>1, ZenonT(30) DEF CallRecords, MandateRows, Labels
  <2>3. calls' = [calls EXCEPT ![p] = new]
    BY <1>6 DEF LookUp, MandateRow
  <2> HIDE DEF new
  <2>4. Quote[call.quote].agent = mandate.agent
    BY <1>6 DEF Matches
  <2>5. new.pc = "gate" => Foresees(mandate, call.quote)
    BY <2>2, <2>4 DEF Foresees
  <2>6. new.pc \in {"gate", "push"}
    BY <2>2
  <2>7. Carries(new)
    BY <1>2, <2>2, <2>6 DEF Carries
  <2>8. Knows(new)
    BY <1>6, <2>2, <2>5, <2>6 DEF Knows
  <2>9. Moves(p, new)
    BY <2>2, <2>3, <2>6, <2>7, <2>8 DEF Moves, Telling
  <2> QED
    BY <1>3, <2>9, CallStep
<1> QED
  BY <1>4, <1>5, <1>6

-----------------------------------------------------------------------------
(* The gates and the answers.                                              *)

\* A call that has its reply stores it under its key, or delivers it where it has none.
LEMMA ConcludeKeeps ==
  ASSUME WalletInv, NEW p \in Callers, ~At(p, "idle"), calls[p].quote \in Quotes,
         calls[p].consumer \in Consumers, NEW reply \in ReplyRecords, Conclude(p, reply), Quiet
  PROVE  WalletInv'
<1> DEFINE call == calls[p]
           label == IF call.key = None THEN "deliver" ELSE "store"
           new == [call EXCEPT !.reply = reply, !.pc = label]
<1>1. call \in CallRecords /\ Carries(call) /\ call.pc # "idle"
  BY InFlight DEF At
<1>2. /\ new \in CallRecords /\ new.pc = label /\ new.reply = reply
      /\ new.quote = call.quote /\ new.consumer = call.consumer /\ new.key = call.key
      /\ new.gate = call.gate /\ new.op = call.op
  BY <1>1, ZenonT(30) DEF CallRecords, Labels
<1>3. calls' = [calls EXCEPT ![p] = new]
  BY DEF Conclude
<1> HIDE DEF new
<1>4. label \in {"deliver", "store"} /\ (label = "store" => call.key \in Keys)
  BY <1>1 DEF CallRecords
<1>5. Carries(new)
  <2> HIDE DEF label
  <2> QED
    BY <1>1, <1>2, <1>4 DEF Carries
<1>6. Knows(new)
  BY <1>2 DEF Knows
<1>7. Moves(p, new)
  BY <1>2, <1>3, <1>4, <1>5, <1>6 DEF Moves, Telling
<1> QED
  BY <1>7, CallStep

\* The refusals are replies.
LEMMA RefusedType == \A reason \in Refusals : Refused(reason) \in ReplyRecords
BY DEF Refused, Reply, ReplyRecords, Refusals

\* The gate of the agent's own approve lets a call through whose mandate covers it.
LEMMA GateImplicitKeeps ==
  ASSUME WalletInv, NEW p \in Callers, GateImplicit(p) PROVE WalletInv'
<1> DEFINE call == calls[p]  refusal == Refusal(mandates[call.mandate], call.quote)
<1>1. /\ ~At(p, "idle") /\ call \in CallRecords /\ Carries(call) /\ Knows(call)
      /\ call.pc = "gate" /\ call.gate = "pre_authorised"
  BY InFlight DEF GateImplicit, At
<1>2. call.quote \in Quotes /\ call.mandate \in MandateIds /\ call.consumer \in Consumers
  BY <1>1 DEF Carries
<1>3. Quiet
  BY OnlyTheCall DEF GateImplicit, WalletInv, WalletTypeOK
<1>4. CASE refusal = None
  <2> DEFINE new == [call EXCEPT !.pc = "find"]
  <2>1. /\ new.pc = "find" /\ new.quote = call.quote /\ new.mandate = call.mandate
        /\ new.consumer = call.consumer /\ new.op = call.op /\ new.gate = call.gate
        /\ new.key = call.key
    BY <1>1 DEF CallRecords
  <2> HIDE DEF new
  <2>2. Allows(mandates[call.mandate], call.quote) /\ mandates[call.mandate] # None
    BY <1>2, <1>4, GateAllows, NoneIsNoRow DEF WalletInv
  <2>3. Covers(call.mandate, call.quote, call.gate)
    BY <1>1, <2>2 DEF Covers, Knows
  <2>4. Carries(new)
    BY <1>1, <1>2, <2>1 DEF Carries
  <2>5. Knows(new)
    BY <2>1, <2>3 DEF Knows
  <2>6. Goto(p, "find")
    BY <1>4 DEF GateImplicit, MandateRow
  <2> QED
    BY <1>1, <1>3, <2>4, <2>5, <2>6, MovesOn DEF Labels, Telling, new
<1>5. CASE refusal # None
  <2>1. refusal \in Refusals
    BY <1>5, RefusalType
  <2>2. Row("refused", refusal, 0) \in RequestRows /\ WriteRow(p, Row("refused", refusal, 0))
    BY <1>5, <2>1, RowsAreRows DEF GateImplicit, MandateRow
  <2> QED
    BY <1>1, <1>2, <1>3, <2>2, RowInHand
<1> QED
  BY <1>4, <1>5

\* So does the consumer's.
LEMMA GateExplicitKeeps ==
  ASSUME WalletInv, NEW p \in Callers, GateExplicit(p) PROVE WalletInv'
<1> DEFINE call == calls[p]  mandate == mandates[call.mandate]
           refusal == IF mandate # None /\ mandate.consumer # call.consumer
                        THEN "MANDATE_REVOKED" ELSE Refusal(mandate, call.quote)
<1>1. /\ ~At(p, "idle") /\ call \in CallRecords /\ Carries(call) /\ Knows(call)
      /\ call.pc = "gate" /\ call.gate = "explicit"
  BY InFlight DEF GateExplicit, At
<1>2. call.quote \in Quotes /\ call.mandate \in MandateIds /\ call.consumer \in Consumers
  BY <1>1 DEF Carries
<1>3. Quiet
  BY OnlyTheCall DEF GateExplicit, WalletInv, WalletTypeOK
<1>4. refusal \in Refusals \cup {None} /\ "APPROVAL_EXPIRED" \in Refusals
  BY RefusalType DEF Refusals
<1>5. CASE Quote[call.quote].expires_at <= now
  BY <1>1, <1>2, <1>3, <1>4, <1>5, ConcludeKeeps, RefusedType DEF GateExplicit, MandateRow
<1>6. CASE ~(Quote[call.quote].expires_at <= now) /\ refusal = None
  <2> DEFINE new == [call EXCEPT !.pc = "find"]
  <2>1. /\ new.pc = "find" /\ new.quote = call.quote /\ new.mandate = call.mandate
        /\ new.consumer = call.consumer /\ new.op = call.op /\ new.gate = call.gate
        /\ new.key = call.key
    BY <1>1 DEF CallRecords
  <2> HIDE DEF new
  <2>2. Refusal(mandate, call.quote) = None
    BY <1>6, NoneIsNoRow DEF Refusals
  <2>3. Allows(mandate, call.quote) /\ mandate # None
    BY <1>2, <2>2, GateAllows, NoneIsNoRow DEF WalletInv
  <2>4. Covers(call.mandate, call.quote, call.gate)
    BY <1>1, <2>3 DEF Covers
  <2>5. Carries(new)
    BY <1>1, <1>2, <2>1 DEF Carries
  <2>6. Knows(new)
    BY <2>1, <2>4 DEF Knows
  <2>7. Goto(p, "find")
    BY <1>6 DEF GateExplicit, MandateRow
  <2> QED
    BY <1>1, <1>3, <2>5, <2>6, <2>7, MovesOn DEF Labels, Telling, new
<1>7. CASE ~(Quote[call.quote].expires_at <= now) /\ refusal # None
  <2>1. refusal \in Refusals /\ Conclude(p, Refused(refusal))
    BY <1>4, <1>7 DEF GateExplicit, MandateRow
  <2> HIDE DEF refusal
  <2> QED
    BY <1>1, <1>2, <1>3, <2>1, ConcludeKeeps, RefusedType
<1> QED
  BY <1>5, <1>6, <1>7

\* With an approval in the table a call goes on to its key or to the mint.
LEMMA ApprovedGoesOn ==
  ASSUME WalletInv, NEW p \in Callers, calls[p].pc \in {"find", "record", "approved"},
         HaveApproval(p)
  PROVE  \E new \in CallRecords :
           /\ calls' = [calls EXCEPT ![p] = new]
           /\ Carries(new) /\ new.pc \in {"mint", "key"} /\ new.quote = calls[p].quote
<1> DEFINE call == calls[p]
           label == IF call.gate = "explicit" THEN "mint" ELSE "key"
           new == [call EXCEPT !.pc = label, !.gate = "explicit"]
<1>1. call \in CallRecords /\ Carries(call) /\ call.pc # "idle"
  BY InFlight DEF At
<1>2. /\ new \in CallRecords /\ new.pc = label /\ new.gate = "explicit" /\ new.op = call.op
      /\ new.quote = call.quote /\ new.mandate = call.mandate /\ new.consumer = call.consumer
      /\ new.key = call.key
  <2>1. label \in Labels
    BY DEF Labels
  <2> HIDE DEF label
  <2> QED
    BY <1>1, <2>1, ZenonT(30) DEF CallRecords
<1>3. calls' = [calls EXCEPT ![p] = new]
  BY DEF HaveApproval
<1> HIDE DEF new
<1>4. label \in {"mint", "key"} /\ (label = "key" => call.key \in Keys)
  BY <1>1 DEF Carries, CallRecords
<1>5. Carries(new)
  <2> HIDE DEF label
  <2> QED
    BY <1>1, <1>2, <1>4 DEF Carries
<1> QED
  BY <1>2, <1>3, <1>4, <1>5

\* An approval is looked for; a call that finds one minds no other.
LEMMA FindApprovalKeeps ==
  ASSUME WalletInv, NEW p \in Callers, FindApproval(p) PROVE WalletInv'
<1> DEFINE call == calls[p]
<1>1. /\ ~At(p, "idle") /\ call \in CallRecords /\ Carries(call) /\ Knows(call) /\ call.pc = "find"
  BY InFlight DEF FindApproval, At
<1>2. Quiet
  BY OnlyTheCall DEF FindApproval, WalletInv, WalletTypeOK
<1>3. CASE ApprovalFor(call.quote) # None
  <2>1. PICK new \in CallRecords :
          /\ calls' = [calls EXCEPT ![p] = new]
          /\ Carries(new) /\ new.pc \in {"mint", "key"} /\ new.quote = call.quote
    BY <1>1, <1>3, ApprovedGoesOn DEF FindApproval
  <2>2. Knows(new)
    BY <1>3, <2>1 DEF Knows, ApprovalFor
  <2>3. Moves(p, new)
    BY <2>1, <2>2 DEF Moves, Telling
  <2> QED
    BY <1>2, <2>3, CallStep
<1>4. CASE ApprovalFor(call.quote) = None
  <2> DEFINE new == [call EXCEPT !.pc = "record"]
  <2>1. /\ new.pc = "record" /\ new.quote = call.quote /\ new.mandate = call.mandate
        /\ new.consumer = call.consumer /\ new.op = call.op /\ new.gate = call.gate
        /\ new.key = call.key
    BY <1>1 DEF CallRecords
  <2> HIDE DEF new
  <2>2. Carries(new) /\ Knows(new)
    BY <1>1, <2>1 DEF Carries, Knows
  <2>3. Goto(p, "record")
    BY <1>4 DEF FindApproval
  <2> QED
    BY <1>1, <1>2, <2>2, <2>3, MovesOn DEF Labels, Telling, new
<1> QED
  BY <1>3, <1>4

\* A call reads its key: what it finds there for its consumer is its answer.
LEMMA ReadKeyKeeps ==
  ASSUME WalletInv, NEW p \in Callers, ReadKey(p) PROVE WalletInv'
<1> DEFINE call == calls[p]
<1>1. /\ ~At(p, "idle") /\ call \in CallRecords /\ Carries(call) /\ call.pc = "key"
  BY InFlight DEF ReadKey, At
<1>2. /\ call.quote \in Quotes /\ call.mandate \in MandateIds /\ call.consumer \in Consumers
      /\ call.key \in Keys
  BY <1>1 DEF Carries
<1>3. Quiet
  BY OnlyTheCall DEF ReadKey, WalletInv, WalletTypeOK
<1>4. CASE StoredFor(call.key, call.consumer)
  <2> DEFINE reply == idempotency_keys[call.key].response
             new == [call EXCEPT !.reply = reply, !.pc = "deliver"]
  <2>1. idempotency_keys[call.key] \in KeyRows
    BY <1>2, <1>4 DEF StoredFor, WalletInv, WalletTypeOK
  <2>2. reply \in ReplyRecords
    BY <2>1 DEF KeyRows
  <2>3. /\ new \in CallRecords /\ new.pc = "deliver" /\ new.reply = reply
        /\ new.quote = call.quote /\ new.consumer = call.consumer /\ new.key = call.key
        /\ new.gate = call.gate /\ new.op = call.op
    <3> HIDE DEF reply
    <3> QED
      BY <1>1, <2>2, ZenonT(30) DEF CallRecords, Labels
  <2>4. calls' = [calls EXCEPT ![p] = new]
    BY <1>4 DEF ReadKey
  <2> HIDE DEF new
  <2>5. Carries(new)
    BY <1>1, <1>2, <2>2, <2>3 DEF Carries
  <2>6. Knows(new)
    BY <1>4, <2>3 DEF Knows, StoredIs, StoredFor
  <2>7. Moves(p, new)
    BY <2>3, <2>4, <2>5, <2>6 DEF Moves, Telling
  <2> QED
    BY <1>3, <2>7, CallStep
<1>5. CASE ~StoredFor(call.key, call.consumer)
  <2> DEFINE new == [call EXCEPT !.pc = "gate"]
  <2>1. /\ new.pc = "gate" /\ new.quote = call.quote /\ new.mandate = call.mandate
        /\ new.consumer = call.consumer /\ new.op = call.op /\ new.gate = call.gate
        /\ new.key = call.key
    BY <1>1 DEF CallRecords
  <2> HIDE DEF new
  <2>2. call.gate = "explicit"
    BY <1>1 DEF Carries
  <2>3. Carries(new) /\ Knows(new)
    BY <1>1, <1>2, <2>1, <2>2 DEF Carries, Knows
  <2>4. Goto(p, "gate")
    BY <1>5 DEF ReadKey
  <2> QED
    BY <1>1, <1>3, <2>3, <2>4, MovesOn DEF Labels, Telling, new
<1> QED
  BY <1>4, <1>5

\* A token is minted for a quote that has its approval.
LEMMA ReMintKeeps ==
  ASSUME WalletInv, NEW p \in Callers, ReMint(p) PROVE WalletInv'
<1> DEFINE call == calls[p]
<1>1. /\ ~At(p, "idle") /\ call \in CallRecords /\ Carries(call) /\ Knows(call) /\ call.pc = "mint"
  BY InFlight DEF ReMint, At
<1>2. call.quote \in Quotes /\ call.mandate \in MandateIds /\ approvals[call.quote] # None
  BY <1>1 DEF Carries, Knows
<1>3. minted \in Seq([quote : Quotes, mandate : MandateIds])
  BY DEF WalletInv, WalletTypeOK
<1>4. call.consumer \in Consumers
  BY <1>1 DEF Carries
<1>5. CASE minted' = Append(minted, [quote |-> call.quote, mandate |-> call.mandate])
           /\ Conclude(p, Reply("approved", Len(minted')))
  <2>1. minted' \in Seq([quote : Quotes, mandate : MandateIds]) /\ Len(minted') \in Nat
    BY <1>2, <1>3, <1>5
  <2>2. \A i \in DOMAIN minted' : approvals[minted'[i].quote] # None
    <3> SUFFICES ASSUME NEW i \in DOMAIN minted' PROVE approvals[minted'[i].quote] # None
      OBVIOUS
    <3>1. CASE i \in DOMAIN minted
      BY <1>3, <1>5, <3>1 DEF WalletInv, MintedOK
    <3>2. CASE i \notin DOMAIN minted
      <4>1. minted'[i] = [quote |-> call.quote, mandate |-> call.mandate]
        BY <1>3, <1>5, <3>2
      <4> QED
        BY <1>2, <4>1
    <3> QED
      BY <3>1, <3>2
  <2>3. Reply("approved", Len(minted')) \in ReplyRecords
    BY <2>1 DEF Reply, ReplyRecords
  <2>4. Quiet
    BY <2>1, <2>2 DEF ReMint, Quiet, WalletInv, WalletTypeOK, AnswersOK, tables
  <2> QED
    BY <1>1, <1>2, <1>4, <1>5, <2>3, <2>4, ConcludeKeeps
<1>6. CASE Conclude(p, Refused("REMINT_FAILED")) /\ UNCHANGED minted
  <2>1. Refused("REMINT_FAILED") \in ReplyRecords
    BY RefusedType DEF Refusals
  <2>2. Quiet
    BY <1>6, OnlyTheCall DEF ReMint, WalletInv, WalletTypeOK
  <2> QED
    BY <1>1, <1>2, <1>4, <1>6, <2>1, <2>2, ConcludeKeeps
<1> QED
  BY <1>5, <1>6 DEF ReMint

\* The answer to the agent is the stored one, and becomes its row.
LEMMA DeliverToRequestKeeps ==
  ASSUME WalletInv, NEW p \in Callers, DeliverToRequest(p) PROVE WalletInv'
<1> DEFINE call == calls[p]
           row == IF call.reply.outcome = "approved" THEN Row("approved", None, call.reply.token)
                  ELSE Row("refused", call.reply.outcome, 0)
<1>1. /\ ~At(p, "idle") /\ call \in CallRecords /\ Carries(call) /\ Knows(call)
      /\ call.pc = "deliver" /\ call.op = "create"
  BY InFlight DEF DeliverToRequest, At
<1>2. /\ call.quote \in Quotes /\ call.consumer \in Consumers /\ call.reply \in ReplyRecords
      /\ call.key \in Keys
  BY <1>1 DEF Carries
<1>3. row \in RequestRows
  BY <1>2, RowsAreRows DEF ReplyRecords
<1>4. Answer(call) \in [key : Keys, consumer : Consumers, reply : ReplyRecords]
  BY <1>2 DEF Answer
<1>5. StoredIs(call.key, call.consumer, call.reply)
  BY <1>1, <1>2, NoneIsNoRow DEF Knows
<1>6. answered' = answered \cup {Answer(call)}
  BY DEF DeliverToRequest
<1>7. \A a \in answered' : StoredIs(a.key, a.consumer, a.reply)
  BY <1>5, <1>6 DEF WalletInv, AnswersOK, Answer
<1>8. Quiet
  BY <1>4, <1>6, <1>7 DEF DeliverToRequest, Quiet, WalletInv, WalletTypeOK, MintedOK, tables
<1>9. WriteRow(p, row)
  BY DEF DeliverToRequest
<1> QED
  BY <1>1, <1>2, <1>3, <1>8, <1>9, RowInHand

\* A decision is a row of the table.
LEMMA DecidedType ==
  ASSUME WalletTypeOK, NEW q \in Quotes, NEW status, NEW token, Row(status, None, token) \in RequestRows
  PROVE  Decided(q, status, token) \in [Quotes -> RequestRows \cup {None}]
BY DEF WalletTypeOK, Decided

\* The answer to the consumer is the stored one under a key.
LEMMA DeliverToConsumerKeeps ==
  ASSUME WalletInv, NEW p \in Callers, DeliverToConsumer(p) PROVE WalletInv'
<1> DEFINE call == calls[p]
<1>1. /\ ~At(p, "idle") /\ call \in CallRecords /\ Carries(call) /\ Knows(call)
      /\ call.pc = "deliver"
  BY InFlight DEF DeliverToConsumer, At
<1>2. /\ call.quote \in Quotes /\ call.consumer \in Consumers /\ call.reply \in ReplyRecords
      /\ call.key \in Keys \cup {None}
  BY <1>1 DEF Carries, CallRecords
<1>3. approval_requests' \in [Quotes -> RequestRows \cup {None}]
  <2>1. Row("approved", None, call.reply.token) \in RequestRows
    BY <1>2, RowsAreRows DEF ReplyRecords
  <2>2. Decided(call.quote, "approved", call.reply.token) \in [Quotes -> RequestRows \cup {None}]
    BY <1>2, <2>1, DecidedType DEF WalletInv
  <2> QED
    BY <2>2 DEF DeliverToConsumer, WalletInv, WalletTypeOK
<1>4. /\ answered' \subseteq [key : Keys, consumer : Consumers, reply : ReplyRecords]
      /\ \A a \in answered' : StoredIs(a.key, a.consumer, a.reply)
  <2>1. CASE call.key = None
    BY <2>1 DEF DeliverToConsumer, WalletInv, WalletTypeOK, AnswersOK
  <2>2. CASE call.key # None
    <3>1. answered' = answered \cup {Answer(call)}
      BY <2>2 DEF DeliverToConsumer
    <3>2. Answer(call) \in [key : Keys, consumer : Consumers, reply : ReplyRecords]
      BY <1>2, <2>2 DEF Answer
    <3>3. StoredIs(call.key, call.consumer, call.reply)
      BY <1>1, <2>2 DEF Knows
    <3> QED
      BY <3>1, <3>2, <3>3 DEF WalletInv, WalletTypeOK, AnswersOK, Answer
  <2> QED
    BY <2>1, <2>2
<1>5. Quiet
  BY <1>3, <1>4 DEF DeliverToConsumer, Quiet, WalletInv, WalletTypeOK, MintedOK
<1>6. Finish(p)
  BY DEF DeliverToConsumer
<1> QED
  BY <1>5, <1>6, EndsWell

\* Persist writes the row the call has in hand, unless one stands.
LEMMA PersistKeeps ==
  ASSUME WalletInv, NEW p \in Callers, Persist(p) PROVE WalletInv'
<1>1. calls[p].quote \in Quotes /\ calls[p].row \in RequestRows
  BY InFlight DEF Persist, At, Carries
<1>2. approval_requests' \in [Quotes -> RequestRows \cup {None}]
  BY <1>1 DEF Persist, WalletInv, WalletTypeOK
<1>3. Quiet
  BY <1>2 DEF Persist, Quiet, WalletInv, WalletTypeOK, MintedOK, AnswersOK
<1>4. Finish(p)
  BY DEF Persist
<1> QED
  BY <1>3, <1>4, EndsWell

\* The push and the event that tells of it.
LEMMA PushKeeps ==
  ASSUME WalletInv, NEW p \in Callers, Push(p) \/ AppendNotification(p) PROVE WalletInv'
<1> DEFINE call == calls[p]
<1>1. /\ ~At(p, "idle") /\ call \in CallRecords /\ Carries(call) /\ call.pc \in {"push", "notify"}
      /\ call.quote \in Quotes
  BY InFlight DEF Push, AppendNotification, At, Carries
<1>2. CASE Push(p)
  <2> DEFINE new == [call EXCEPT !.pc = "notify"]
  <2>1. /\ new.pc = "notify" /\ new.quote = call.quote /\ new.op = call.op /\ new.gate = call.gate
        /\ new.key = call.key
    BY <1>1 DEF CallRecords
  <2> HIDE DEF new
  <2>2. Carries(new) /\ Knows(new)
    BY <1>1, <2>1 DEF Carries, Knows
  <2>3. Quiet /\ Goto(p, "notify")
    BY <1>2 DEF Push, Quiet, WalletInv, WalletTypeOK, MintedOK, AnswersOK
  <2> QED
    BY <1>1, <2>2, <2>3, MovesOn DEF Labels, Telling, new
<1>3. CASE AppendNotification(p)
  <2>1. Event("NotificationSent", call.quote) \in Events
    BY <1>1 DEF Events
  <2>2. /\ ledger' \in [Events -> Nat]
        /\ \A e \in Events : e.type \in TableEvents => ledger'[e] = ledger[e]
    BY <1>3, <2>1 DEF AppendNotification, Append1, Event, TableEvents, WalletInv, WalletTypeOK
  <2>3. Quiet
    BY <1>3, <2>2 DEF AppendNotification, Quiet, WalletInv, WalletTypeOK, MintedOK, AnswersOK, tables
  <2> QED
    BY <1>1, <1>3, <2>3, RowInHand, RowsAreRows DEF AppendNotification
<1> QED
  BY <1>2, <1>3

\* The statements of a decline.
LEMMA DeclineKeeps ==
  ASSUME WalletInv, NEW p \in Callers,
         LookForDecline(p) \/ AppendDeclined(p) \/ RecordDeclined(p)
  PROVE  WalletInv'
<1> DEFINE call == calls[p]
<1>1. /\ ~At(p, "idle") /\ call \in CallRecords /\ Carries(call)
      /\ call.pc \in {"already", "declining", "record_declined"} /\ call.quote \in Quotes
  BY InFlight DEF LookForDecline, AppendDeclined, RecordDeclined, At, Carries
<1>2. ASSUME NEW label \in {"declining", "record_declined"}
      PROVE  Carries([call EXCEPT !.pc = label]) /\ Knows([call EXCEPT !.pc = label])
  <2> DEFINE new == [call EXCEPT !.pc = label]
  <2>1. /\ new.pc = label /\ new.quote = call.quote /\ new.op = call.op /\ new.gate = call.gate
        /\ new.key = call.key
    BY <1>1 DEF CallRecords
  <2> HIDE DEF new
  <2>2. Carries(new) /\ Knows(new)
    BY <1>1, <2>1 DEF Carries, Knows
  <2> QED
    BY <2>2 DEF new
<1>3. CASE LookForDecline(p)
  <2>1. Quiet
    BY <1>3, OnlyTheCall DEF LookForDecline, WalletInv, WalletTypeOK
  <2> QED
    BY <1>1, <1>2, <1>3, <2>1, MovesOn DEF LookForDecline, Labels, Telling
<1>4. CASE AppendDeclined(p)
  <2>1. Event("ApprovalDeclined", call.quote) \in Events
    BY <1>1 DEF Events
  <2>2. /\ ledger' \in [Events -> Nat]
        /\ \A e \in Events : e.type \in TableEvents => ledger'[e] = ledger[e]
    BY <1>4, <2>1 DEF AppendDeclined, Append1, Event, TableEvents, WalletInv, WalletTypeOK
  <2>3. Quiet
    BY <1>4, <2>2 DEF AppendDeclined, Quiet, WalletInv, WalletTypeOK, MintedOK, AnswersOK, tables
  <2> QED
    BY <1>1, <1>2, <1>4, <2>3, MovesOn DEF AppendDeclined, Labels, Telling
<1>5. CASE RecordDeclined(p)
  <2>1. approval_requests' \in [Quotes -> RequestRows \cup {None}]
    BY <1>1, <1>5, DecidedType, RowsAreRows DEF RecordDeclined, WalletInv
  <2>2. Quiet
    BY <1>5, <2>1 DEF RecordDeclined, Quiet, WalletInv, WalletTypeOK, MintedOK, AnswersOK
  <2> QED
    BY <1>5, <2>2, EndsWell DEF RecordDeclined
<1> QED
  BY <1>3, <1>4, <1>5

-----------------------------------------------------------------------------
(* Steps that write a table a call may know of.                            *)

\* A row that is there stays, and goes on to say what it said; a mandate's status
\* alone may change.
Grown ==
  /\ \A m \in MandateIds : mandates[m] # None =>
       /\ mandates'[m] # None
       /\ mandates'[m].authority = mandates[m].authority
       /\ mandates'[m].agent = mandates[m].agent
  /\ \A q \in Quotes : approvals[q] # None => approvals'[q] = approvals[q]
  /\ \A k \in Keys : idempotency_keys[k] # None => idempotency_keys'[k] = idempotency_keys[k]

\* A call's knowledge survives when the tables grow.
LEMMA KnowledgeSurvives ==
  ASSUME WalletInv, Grown, NEW o \in Callers, calls'[o] = calls[o]
  PROVE  CallOK(o)'
<1> DEFINE call == calls[o]
<1>1. call \in CallRecords \cup {Idle} /\ Carries(call) /\ Knows(call)
  BY DEF WalletInv, WalletTypeOK, CallsOK, CallOK
<1>2. Carries(calls'[o])
  BY <1>1
<1>3. CASE call = Idle
  <2>1. calls'[o].pc = "idle"
    BY <1>3 DEF Idle
  <2> QED
    BY <1>2, <2>1 DEF Knows, Carries, CallOK
<1>4. CASE call \in CallRecords
  <2>1. call.pc = "insert" =>
          (call.row.parent # None =>
             /\ call.row.parent \in MandateIds /\ mandates'[call.row.parent] # None
             /\ Narrows(call.row.authority, mandates'[call.row.parent].authority)
             /\ call.row.agent = mandates'[call.row.parent].agent)
    BY <1>1 DEF Knows, Grown, WithinParent
  <2>2. call.pc = "gate" /\ call.gate = "pre_authorised" =>
          mandates'[call.mandate] # None /\ Foresees(mandates'[call.mandate], call.quote)
    BY <1>1 DEF Carries, Knows, Grown, Foresees
  <2>3. call.pc \in {"find", "record"} =>
          /\ mandates'[call.mandate] # None
          /\ Allows(mandates'[call.mandate], call.quote)
          /\ call.gate = "pre_authorised" => Foresees(mandates'[call.mandate], call.quote)
    BY <1>1 DEF Carries, Knows, Grown, Covers, Foresees, Allows
  <2>4. call.pc \in {"approved", "mint"} => approvals'[call.quote] # None
    BY <1>1 DEF Carries, Knows, Grown
  <2>5. call.pc = "deliver" /\ call.key # None =>
          /\ idempotency_keys'[call.key] # None
          /\ idempotency_keys'[call.key].consumer = call.consumer
                => call.reply = idempotency_keys'[call.key].response
    BY <1>1, <1>4 DEF Knows, StoredIs, Grown, CallRecords
  <2>6. Knows(calls[o])'
    <3>1. (call.pc = "insert" => WithinParent(call.row))'
      BY <2>1 DEF WithinParent
    <3>2. (call.pc = "gate" /\ call.gate = "pre_authorised" =>
             mandates[call.mandate] # None /\ Foresees(mandates[call.mandate], call.quote))'
      BY <2>2 DEF Foresees
    <3>3. (call.pc \in {"find", "record"} => Covers(call.mandate, call.quote, call.gate))'
      BY <2>3 DEF Covers, Foresees, Allows
    <3>4. (call.pc \in {"approved", "mint"} => approvals[call.quote] # None)'
      BY <2>4
    <3>5. (call.pc = "deliver" /\ call.key # None
             => StoredIs(call.key, call.consumer, call.reply))'
      BY <2>5 DEF StoredIs
    <3> QED
      BY <3>1, <3>2, <3>3, <3>4, <3>5 DEF Knows
  <2> QED
    BY <1>2, <2>6 DEF Carries, CallOK
<1> QED
  BY <1>1, <1>3, <1>4

\* So the calls, the tokens and the answers stand when one call writes a row.
LEMMA OthersSurvive ==
  ASSUME WalletInv, NEW p \in Callers, Grown, UNCHANGED <<minted, answered>>,
         \A o \in Callers : o # p => calls'[o] = calls[o],
         CallOK(p)'
  PROVE  CallsOK' /\ MintedOK' /\ AnswersOK'
<1>1. CallsOK'
  <2> SUFFICES ASSUME NEW o \in Callers, o # p PROVE CallOK(o)'
    BY DEF CallsOK
  <2>1. calls'[o] = calls[o]
    OBVIOUS
  <2> QED
    BY <2>1, KnowledgeSurvives
<1>2. MintedOK'
  <2>1. \A i \in DOMAIN minted : minted[i].quote \in Quotes
    <3> DEFINE Token == [quote : Quotes, mandate : MandateIds]
    <3>1. minted \in Seq(Token)
      BY DEF WalletInv, WalletTypeOK
    <3> HIDE DEF Token
    <3>2. \A i \in DOMAIN minted : minted[i] \in Token
      BY <3>1
    <3> QED
      BY <3>2 DEF Token
  <2> QED
    BY <2>1 DEF WalletInv, MintedOK, Grown
<1>3. AnswersOK'
  <2>1. \A a \in answered : a.key \in Keys /\ a.consumer \in Consumers /\ a.reply \in ReplyRecords
    BY DEF WalletInv, WalletTypeOK
  <2> QED
    BY <2>1 DEF WalletInv, AnswersOK, Grown, StoredIs
<1> QED
  BY <1>1, <1>2, <1>3

\* The types stand when one call writes rows of the right kind.
LEMMA TypesSurvive ==
  ASSUME WalletInv, NEW p \in Callers, UNCHANGED <<now, minted, answered, crashes, approval_requests>>,
         made' \in Nat, ledger' \in [Events -> Nat],
         mandates' \in [MandateIds -> MandateRows \cup {None}],
         approvals' \in [Quotes -> ApprovalRows \cup {None}],
         idempotency_keys' \in [Keys -> KeyRows \cup {None}],
         NEW new \in CallRecords \cup {Idle}, calls' = [calls EXCEPT ![p] = new]
  PROVE  /\ WalletTypeOK'
         /\ calls'[p] = new /\ \A o \in Callers : o # p => calls'[o] = calls[o]
BY DEF WalletInv, WalletTypeOK

\* The events of the tables' rows are events.
LEMMA EventsOfRows ==
  /\ \A i \in MandateIds : /\ Event("MandateGranted", i) \in Events
                            /\ Event("MandateRevoked", i) \in Events
  /\ \A q \in Quotes : Event("ApprovalGranted", q) \in Events
BY DEF Events

\* An event tells its kind and whose it is.
LEMMA EventFields == \A type, id : Event(type, id).type = type /\ Event(type, id).id = id
BY DEF Event

\* A mandate is inserted by a call that is about to tell of it.
LEMMA InsertKeeps ==
  ASSUME WalletInv, NEW p \in Callers, HasFreshMandate, NEW row \in MandateRows, WithinParent(row),
         InsertMandate(FreshMandate, row), NEW new \in CallRecords,
         new.pc = "granted", new.mandate = FreshMandate, Carries(new),
         calls' = [calls EXCEPT ![p] = new], made' \in Nat,
         UNCHANGED <<now, approvals, idempotency_keys, approval_requests, minted, ledger,
                     crashes, answered>>
  PROVE  WalletInv'
<1> DEFINE m == FreshMandate
<1>1. /\ m \in MandateIds /\ mandates[m] = None
      /\ \A i \in MandateIds : mandates[i] # None <=> i < m
  BY FreshIsNext DEF WalletInv
<1> HIDE DEF m
<1>2. /\ mandates' \in [MandateIds -> MandateRows \cup {None}]
      /\ mandates' = [mandates EXCEPT ![m] = row] /\ row # None
      /\ \A i \in MandateIds : mandates'[i] = IF i = m THEN row ELSE mandates[i]
  BY <1>1, NoneIsNoRow DEF InsertMandate, WalletInv, WalletTypeOK, m
<1>3. Grown
  BY <1>1, <1>2 DEF Grown
<1>4. /\ WalletTypeOK'
      /\ calls'[p] = new /\ \A o \in Callers : o # p => calls'[o] = calls[o]
  <2>1. /\ ledger' \in [Events -> Nat] /\ approvals' \in [Quotes -> ApprovalRows \cup {None}]
        /\ idempotency_keys' \in [Keys -> KeyRows \cup {None}]
    BY DEF WalletInv, WalletTypeOK
  <2> QED
    BY <1>2, <2>1, TypesSurvive
<1>5. CallOK(p)'
  BY <1>4 DEF CallOK, Carries, Knows
<1>6. CallsOK' /\ MintedOK' /\ AnswersOK'
  BY <1>3, <1>4, <1>5, OthersSurvive
<1>7. MandatesOK'
  <2>1. IdsInOrder'
    <3>1. \A i \in MandateIds : mandates'[i] # None <=> i <= m
      BY <1>1, <1>2 DEF MandateIds
    <3>2. m \in 0..MaxMandates
      BY <1>1 DEF MandateIds
    <3> QED
      BY <3>1, <3>2 DEF IdsInOrder
  <2>2. ASSUME NEW i \in MandateIds, mandates'[i] # None PROVE WithinParent(mandates[i])'
    <3>1. CASE i = m
      BY <1>2, <1>3, <3>1 DEF WithinParent, Grown
    <3>2. CASE i # m
      <4>1. mandates'[i] = mandates[i] /\ WithinParent(mandates[i])
        BY <1>2, <2>2, <3>2 DEF WalletInv, MandatesOK
      <4> QED
        BY <1>3, <4>1 DEF WithinParent, Grown
    <3> QED
      BY <3>1, <3>2
  <2> QED
    BY <2>1, <2>2 DEF MandatesOK
<1>8. ApprovalsOK'
  <2>1. \A q \in Quotes : approvals[q] # None => approvals[q].mandate \in MandateIds
    BY DEF WalletInv, WalletTypeOK, ApprovalRows
  <2> QED
    BY <1>3, <2>1 DEF WalletInv, ApprovalsOK, Covers, Allows, Foresees, Grown
<1>9. LedgerOK'
  <2>1. LedgerFollowsTables'
    BY <1>1, <1>2, EventsOfRows DEF WalletInv, WalletTypeOK, LedgerOK, LedgerFollowsTables
  <2>2. Untold(calls[p])'
    <3>1. ledger[Event("MandateGranted", m)] = 0
      BY <1>1, EventsOfRows DEF WalletInv, WalletTypeOK, LedgerOK, LedgerFollowsTables
    <3> QED
      BY <1>1, <1>2, <1>4, <3>1 DEF Untold, m
  <2>3. ASSUME NEW o \in Callers, o # p
        PROVE  /\ Untold(calls[o])' /\ (calls[o].pc = "granted" => calls[o].mandate # m)
               /\ calls'[o] = calls[o]
    <3>1. Untold(calls[o]) /\ Carries(calls[o]) /\ calls'[o] = calls[o]
      BY <1>4, <2>3 DEF WalletInv, LedgerOK, CallsOK, CallOK
    <3> QED
      BY <1>1, <1>2, <3>1 DEF Untold, Carries
  <2>4. ASSUME NEW o \in Callers, NEW r \in Callers, o # r PROVE Apart(calls[o], calls[r])'
    <3>1. Apart(calls[o], calls[r])
      BY <2>4 DEF WalletInv, LedgerOK
    <3>2. CASE o # p /\ r # p
      BY <2>3, <3>1, <3>2 DEF Apart
    <3>3. CASE o = p
      BY <1>4, <2>3, <2>4, <3>3 DEF Apart, m
    <3>4. CASE r = p
      BY <1>4, <2>3, <2>4, <3>4 DEF Apart, m
    <3> QED
      BY <3>2, <3>3, <3>4
  <2> QED
    BY <2>1, <2>2, <2>3, <2>4 DEF LedgerOK
<1> QED
  BY <1>4, <1>6, <1>7, <1>8, <1>9 DEF WalletInv

\* A grant is inserted; so is a child, when its row was within its parent.
LEMMA GrantKeeps ==
  ASSUME WalletInv, NEW p \in Callers, NEW c \in Consumers, NEW request \in Grants, Grant(p, c, request)
  PROVE  WalletInv'
<1> DEFINE row == [consumer |-> c, agent |-> request.agent, parent |-> None,
                   authority |-> request.authority, status |-> "active"]
           new == Call("grant", c, None, FreshMandate, None, "granted")
<1>1. HasFreshMandate /\ FreshMandate \in MandateIds
  BY FreshIsNext DEF Grant, WalletInv
<1>2. request.agent \in Agents /\ request.authority \in Authority
  BY WalletAssumption
<1>3. row \in MandateRows /\ WithinParent(row)
  BY <1>2 DEF MandateRows, WithinParent
<1>4. /\ new \in CallRecords /\ new.pc = "granted" /\ new.mandate = FreshMandate
      /\ Carries(new)
  BY <1>1 DEF Call, CallRecords, Carries, Labels
<1>5. /\ InsertMandate(FreshMandate, row) /\ calls' = [calls EXCEPT ![p] = new] /\ made' \in Nat
      /\ UNCHANGED <<now, approvals, idempotency_keys, approval_requests, minted, ledger,
                     crashes, answered>>
  BY DEF Grant, Begin, WalletInv, WalletTypeOK
<1> HIDE DEF row, new
<1> QED
  BY <1>1, <1>3, <1>4, <1>5, InsertKeeps

LEMMA InsertChildKeeps ==
  ASSUME WalletInv, NEW p \in Callers, InsertChild(p) PROVE WalletInv'
<1> DEFINE call == calls[p]  row == call.row
           new == [call EXCEPT !.mandate = FreshMandate, !.pc = "granted"]
<1>1. HasFreshMandate /\ FreshMandate \in MandateIds
  BY FreshIsNext DEF InsertChild, WalletInv
<1>2. call \in CallRecords /\ Carries(call) /\ Knows(call) /\ call.pc = "insert"
  BY InFlight DEF InsertChild, At
<1>3. row \in MandateRows /\ WithinParent(row)
  BY <1>2 DEF Carries, Knows
<1>4. /\ new \in CallRecords /\ new.pc = "granted" /\ new.mandate = FreshMandate
      /\ new.gate = call.gate /\ new.op = call.op /\ new.key = call.key
  BY <1>1, <1>2 DEF CallRecords, Labels
<1>5. /\ InsertMandate(FreshMandate, row) /\ calls' = [calls EXCEPT ![p] = new] /\ made' \in Nat
      /\ UNCHANGED <<now, approvals, idempotency_keys, approval_requests, minted, ledger,
                     crashes, answered>>
  BY DEF InsertChild, WalletInv, WalletTypeOK
<1> HIDE DEF row, new
<1>6. Carries(new)
  BY <1>1, <1>2, <1>4 DEF Carries
<1> QED
  BY <1>1, <1>3, <1>4, <1>5, <1>6, InsertKeeps

\* An event of a row is appended by the one call that is about to tell of it.
LEMMA AppendKeeps ==
  ASSUME WalletInv, NEW p \in Callers, NEW e \in Events,
         \/ calls[p].pc = "granted" /\ e = Event("MandateGranted", calls[p].mandate)
         \/ calls[p].pc = "revoked" /\ e = Event("MandateRevoked", calls[p].mandate)
         \/ calls[p].pc = "approved" /\ e = Event("ApprovalGranted", calls[p].quote),
         Append1(e), NEW new \in CallRecords \cup {Idle}, Carries(new), Knows(new),
         new.pc \notin Telling, calls' = [calls EXCEPT ![p] = new],
         UNCHANGED <<now, mandates, approvals, idempotency_keys, approval_requests, minted, made,
                     crashes, answered>>
  PROVE  WalletInv'
<1>1. /\ ledger' = [ledger EXCEPT ![e] = ledger[e] + 1] /\ ledger \in [Events -> Nat]
      /\ ledger' \in [Events -> Nat]
  BY DEF Append1, WalletInv, WalletTypeOK
<1>2. /\ WalletTypeOK'
      /\ calls'[p] = new /\ \A o \in Callers : o # p => calls'[o] = calls[o]
  BY <1>1 DEF WalletInv, WalletTypeOK
<1>3. Grown
  BY DEF Grown
<1>4. CallOK(p)'
  BY <1>2 DEF CallOK, Carries, Knows, WithinParent, Covers, Allows, Foresees, StoredIs
<1>5. CallsOK' /\ MintedOK' /\ AnswersOK'
  BY <1>2, <1>3, <1>4, OthersSurvive
<1>6. MandatesOK' /\ ApprovalsOK'
  BY DEF WalletInv, MandatesOK, IdsInOrder, WithinParent, ApprovalsOK, Covers, Allows, Foresees
<1>7. LedgerOK'
  <2>1. /\ Untold(calls[p]) /\ Carries(calls[p]) /\ LedgerFollowsTables
        /\ \A o \in Callers : o # p => /\ Untold(calls[o]) /\ Carries(calls[o])
                                     /\ Apart(calls[p], calls[o])
        /\ \A o, r \in Callers : o # r => Apart(calls[o], calls[r])
    BY DEF WalletInv, LedgerOK, CallsOK, CallOK
  <2>2. \A f \in Events : ledger'[f] = IF f = e THEN ledger[e] + 1 ELSE ledger[f]
    BY <1>1
  <2>3. ledger[e] = 0
    BY <2>1 DEF Untold
  <2>4. LedgerFollowsTables'
    <3>1. ASSUME NEW i \in MandateIds
          PROVE  /\ ledger'[Event("MandateGranted", i)] <= IF mandates[i] = None THEN 0 ELSE 1
                 /\ ledger'[Event("MandateRevoked", i)] <=
                      IF mandates[i] # None /\ mandates[i].status = "revoked" THEN 1 ELSE 0
      <4>1. CASE e = Event("MandateGranted", i)
        <5>1. calls[p].pc = "granted" /\ calls[p].mandate = i
          BY <4>1 DEF Event
        <5>2. mandates[i] # None /\ Event("MandateRevoked", i) # e
          BY <2>1, <4>1, <5>1 DEF Untold, Event
        <5> QED
          BY <1>1, <2>1, <2>2, <2>3, <4>1, <5>2, EventsOfRows DEF LedgerFollowsTables
      <4>2. CASE e = Event("MandateRevoked", i)
        <5>1. calls[p].pc = "revoked" /\ calls[p].mandate = i
          BY <4>2 DEF Event
        <5>2. /\ mandates[i] # None /\ mandates[i].status = "revoked"
              /\ Event("MandateGranted", i) # e
          BY <2>1, <4>2, <5>1 DEF Untold, Event
        <5> QED
          BY <1>1, <2>1, <2>2, <2>3, <4>2, <5>2, EventsOfRows DEF LedgerFollowsTables
      <4>3. CASE e # Event("MandateGranted", i) /\ e # Event("MandateRevoked", i)
        BY <2>1, <2>2, <4>3, EventsOfRows DEF LedgerFollowsTables
      <4> QED
        BY <4>1, <4>2, <4>3
    <3>2. ASSUME NEW q \in Quotes
          PROVE  ledger'[Event("ApprovalGranted", q)] <= IF approvals[q] = None THEN 0 ELSE 1
      <4>1. CASE e = Event("ApprovalGranted", q)
        <5>1. calls[p].pc = "approved" /\ calls[p].quote = q
          BY <4>1 DEF Event
        <5>2. approvals[q] # None
          BY <2>1, <5>1 DEF Untold
        <5> QED
          BY <1>1, <2>2, <2>3, <4>1, <5>2
      <4>2. CASE e # Event("ApprovalGranted", q)
        BY <2>1, <2>2, <4>2, EventsOfRows DEF LedgerFollowsTables
      <4> QED
        BY <4>1, <4>2
    <3> QED
      BY <3>1, <3>2 DEF LedgerFollowsTables
  <2>5. Untold(calls[p])'
    BY <1>2 DEF Untold, Telling
  <2>6. ASSUME NEW o \in Callers, o # p PROVE Untold(calls[o])'
    <3>1. calls'[o] = calls[o]
      BY <1>2, <2>6
    <3>2. ASSUME calls[o].pc = "granted"
          PROVE  /\ mandates[calls[o].mandate] # None
                 /\ ledger'[Event("MandateGranted", calls[o].mandate)] = 0
      <4> DEFINE f == Event("MandateGranted", calls[o].mandate)
      <4>1. f \in Events
        BY <2>1, <2>6, <3>2, EventsOfRows DEF Carries
      <4>2. f # e
        BY <2>1, <2>6, <3>2, EventFields DEF Apart
      <4> QED
        BY <2>1, <2>2, <2>6, <3>2, <4>1, <4>2 DEF Untold
    <3>3. ASSUME calls[o].pc = "revoked"
          PROVE  /\ mandates[calls[o].mandate] # None
                 /\ mandates[calls[o].mandate].status = "revoked"
                 /\ ledger'[Event("MandateRevoked", calls[o].mandate)] = 0
      <4> DEFINE f == Event("MandateRevoked", calls[o].mandate)
      <4>1. f \in Events
        BY <2>1, <2>6, <3>3, EventsOfRows DEF Carries
      <4>2. f # e
        BY <2>1, <2>6, <3>3, EventFields DEF Apart
      <4> QED
        BY <2>1, <2>2, <2>6, <3>3, <4>1, <4>2 DEF Untold
    <3>4. ASSUME calls[o].pc = "approved"
          PROVE  /\ approvals[calls[o].quote] # None
                 /\ ledger'[Event("ApprovalGranted", calls[o].quote)] = 0
      <4> DEFINE f == Event("ApprovalGranted", calls[o].quote)
      <4>1. f \in Events
        BY <2>1, <2>6, <3>4, EventsOfRows DEF Carries
      <4>2. f # e
        BY <2>1, <2>6, <3>4, EventFields DEF Apart
      <4> QED
        BY <2>1, <2>2, <2>6, <3>4, <4>1, <4>2 DEF Untold
    <3> QED
      BY <3>1, <3>2, <3>3, <3>4 DEF Untold
  <2>7. ASSUME NEW o \in Callers, NEW r \in Callers, o # r PROVE Apart(calls[o], calls[r])'
    BY <1>2, <2>1, <2>7 DEF Apart, Telling
  <2> QED
    BY <2>4, <2>5, <2>6, <2>7 DEF LedgerOK
<1> QED
  BY <1>2, <1>5, <1>6, <1>7 DEF WalletInv

\* The three appends of the consent path.
LEMMA AppendsKeep ==
  ASSUME WalletInv, NEW p \in Callers, AppendGranted(p) \/ AppendRevoked(p) \/ AppendApproved(p)
  PROVE  WalletInv'
<1> DEFINE call == calls[p]
<1>1. /\ ~At(p, "idle") /\ call \in CallRecords /\ Carries(call) /\ Knows(call)
      /\ call.pc \in Telling
  BY InFlight DEF AppendGranted, AppendRevoked, AppendApproved, At, Telling
<1>2. /\ call.pc \in {"granted", "revoked"} => call.mandate \in MandateIds
      /\ call.pc = "approved" => call.quote \in Quotes
  BY <1>1 DEF Carries
<1>3. CASE AppendGranted(p) \/ AppendRevoked(p)
  <2>1. PICK e \in Events :
          /\ \/ call.pc = "granted" /\ e = Event("MandateGranted", call.mandate)
             \/ call.pc = "revoked" /\ e = Event("MandateRevoked", call.mandate)
          /\ Append1(e)
    BY <1>2, <1>3, EventsOfRows DEF AppendGranted, AppendRevoked, At
  <2>2. calls' = [calls EXCEPT ![p] = Idle]
    BY <1>3 DEF AppendGranted, AppendRevoked, Finish
  <2>3. UNCHANGED <<now, mandates, approvals, idempotency_keys, approval_requests, minted, made,
                    crashes, answered>>
    BY <1>3 DEF AppendGranted, AppendRevoked, tables
  <2> QED
    BY <2>1, <2>2, <2>3, IdleAsksNothing, AppendKeeps
<1>4. CASE AppendApproved(p)
  <2>1. /\ call.pc = "approved" /\ Append1(Event("ApprovalGranted", call.quote))
        /\ Event("ApprovalGranted", call.quote) \in Events
        /\ approvals[call.quote] # None /\ HaveApproval(p)
        /\ UNCHANGED <<now, mandates, approvals, idempotency_keys, approval_requests, minted, made,
                       crashes, answered>>
    BY <1>1, <1>2, <1>4, EventsOfRows DEF AppendApproved, At, Knows, tables
  <2>2. PICK new \in CallRecords :
          /\ calls' = [calls EXCEPT ![p] = new]
          /\ Carries(new) /\ new.pc \in {"mint", "key"} /\ new.quote = call.quote
    BY <2>1, ApprovedGoesOn
  <2>3. Knows(new) /\ new.pc \notin Telling
    BY <2>1, <2>2 DEF Knows, Telling
  <2> QED
    BY <2>1, <2>2, <2>3, AppendKeeps
<1> QED
  BY <1>3, <1>4

\* A mandate is revoked once: the statement flips an active row only.
LEMMA RevokeKeeps ==
  ASSUME WalletInv, NEW p \in Callers, NEW c \in Consumers, NEW m \in MandateIds, Revoke(p, c, m)
  PROVE  WalletInv'
<1>1. mandates[m] # None /\ mandates[m] \in MandateRows
  BY DEF Revoke, WalletInv, WalletTypeOK
<1>2. CASE ~(mandates[m].consumer = c /\ mandates[m].status = "active")
  BY <1>2, AnsweredAtOnce DEF Revoke
<1>3. CASE mandates[m].consumer = c /\ mandates[m].status = "active"
  <2> DEFINE new == Call("revoke", c, None, m, None, "revoked")
             row == [mandates[m] EXCEPT !.status = "revoked"]
  <2>1. /\ calls' = [calls EXCEPT ![p] = new] /\ made' \in Nat
        /\ mandates' = [mandates EXCEPT ![m] = row]
        /\ UNCHANGED <<now, approvals, idempotency_keys, approval_requests, minted, ledger,
                       crashes, answered>>
    BY <1>3 DEF Revoke, Begin, WalletInv, WalletTypeOK
  <2>2. /\ row \in MandateRows /\ row.status = "revoked" /\ row.authority = mandates[m].authority
        /\ row.agent = mandates[m].agent /\ row.parent = mandates[m].parent
    BY <1>1 DEF MandateRows
  <2>3. /\ new \in CallRecords /\ new.pc = "revoked" /\ new.mandate = m /\ Carries(new)
    BY DEF Call, CallRecords, Carries, Labels
  <2> HIDE DEF new, row
  <2>4. /\ row # None
        /\ mandates' \in [MandateIds -> MandateRows \cup {None}]
        /\ \A i \in MandateIds : mandates'[i] = IF i = m THEN row ELSE mandates[i]
    BY <2>1, <2>2, NoneIsNoRow DEF WalletInv, WalletTypeOK
  <2>5. Grown
    BY <2>1, <2>2, <2>4 DEF Grown
  <2>6. /\ WalletTypeOK'
        /\ calls'[p] = new /\ \A o \in Callers : o # p => calls'[o] = calls[o]
    <3>1. /\ ledger' \in [Events -> Nat] /\ approvals' \in [Quotes -> ApprovalRows \cup {None}]
          /\ idempotency_keys' \in [Keys -> KeyRows \cup {None}]
      BY <2>1 DEF WalletInv, WalletTypeOK
    <3> QED
      BY <2>1, <2>3, <2>4, <3>1, TypesSurvive
  <2>7. CallOK(p)'
    BY <2>3, <2>6 DEF CallOK, Carries, Knows
  <2>8. CallsOK' /\ MintedOK' /\ AnswersOK'
    BY <2>1, <2>5, <2>6, <2>7, OthersSurvive
  <2>9. MandatesOK'
    <3>1. IdsInOrder'
      BY <1>1, <2>4 DEF WalletInv, MandatesOK, IdsInOrder
    <3>2. ASSUME NEW i \in MandateIds, mandates'[i] # None PROVE WithinParent(mandates[i])'
      <4>1. /\ mandates[i] # None /\ WithinParent(mandates[i])
            /\ mandates'[i].authority = mandates[i].authority
            /\ mandates'[i].agent = mandates[i].agent
            /\ mandates'[i].parent = mandates[i].parent
        BY <1>1, <2>2, <2>4, <3>2 DEF WalletInv, MandatesOK
      <4> QED
        BY <2>5, <4>1 DEF WithinParent, Grown
    <3> QED
      BY <3>1, <3>2 DEF MandatesOK
  <2>10. ApprovalsOK'
    <3>1. \A q \in Quotes : approvals[q] # None => approvals[q].mandate \in MandateIds
      BY DEF WalletInv, WalletTypeOK, ApprovalRows
    <3> QED
      BY <2>1, <2>5, <3>1 DEF WalletInv, ApprovalsOK, Covers, Allows, Foresees, Grown
  <2>11. LedgerOK'
    <3>1. LedgerFollowsTables /\ ledger \in [Events -> Nat]
      BY DEF WalletInv, WalletTypeOK, LedgerOK
    <3>2. LedgerFollowsTables'
      BY <1>1, <2>1, <2>4, <2>2, <3>1, EventsOfRows DEF LedgerFollowsTables
    <3>3. Untold(calls[p])'
      <4>1. ledger[Event("MandateRevoked", m)] = 0
        BY <1>3, <3>1, EventsOfRows DEF LedgerFollowsTables
      <4> QED
        BY <2>1, <2>2, <2>3, <2>4, <2>6, <4>1 DEF Untold
    <3>4. ASSUME NEW o \in Callers, o # p
          PROVE  /\ Untold(calls[o])' /\ (calls[o].pc = "revoked" => calls[o].mandate # m)
                 /\ calls'[o] = calls[o]
      <4>1. Untold(calls[o]) /\ Carries(calls[o]) /\ calls'[o] = calls[o]
        BY <2>6, <3>4 DEF WalletInv, LedgerOK, CallsOK, CallOK
      <4> QED
        BY <1>3, <2>1, <2>2, <2>4, <4>1 DEF Untold, Carries
    <3>5. ASSUME NEW o \in Callers, NEW r \in Callers, o # r PROVE Apart(calls[o], calls[r])'
      <4>1. Apart(calls[o], calls[r])
        BY <3>5 DEF WalletInv, LedgerOK
      <4>2. CASE o # p /\ r # p
        BY <3>4, <4>1, <4>2 DEF Apart
      <4>3. CASE o = p
        BY <2>3, <2>6, <3>4, <3>5, <4>3 DEF Apart
      <4>4. CASE r = p
        BY <2>3, <2>6, <3>4, <3>5, <4>4 DEF Apart
      <4> QED
        BY <4>2, <4>3, <4>4
    <3> QED
      BY <3>2, <3>3, <3>4, <3>5 DEF LedgerOK
  <2> QED
    BY <2>6, <2>8, <2>9, <2>10, <2>11 DEF WalletInv
<1> QED
  BY <1>2, <1>3

\* An approval is recorded once: the loser of the insert takes the winner's row.
LEMMA RecordApprovalKeeps ==
  ASSUME WalletInv, NEW p \in Callers, RecordApproval(p) PROVE WalletInv'
<1> DEFINE call == calls[p]  q == call.quote
<1>1. /\ ~At(p, "idle") /\ call \in CallRecords /\ Carries(call) /\ Knows(call)
      /\ call.pc = "record"
  BY InFlight DEF RecordApproval, At
<1>2. /\ q \in Quotes /\ call.mandate \in MandateIds /\ call.consumer \in Consumers
      /\ call.gate \in {"explicit", "pre_authorised"}
      /\ Covers(call.mandate, q, call.gate)
  BY <1>1 DEF Carries, Knows, CallRecords
<1>3. CASE approvals[q] # None
  <2>1. HaveApproval(p) /\ UNCHANGED approvals
    BY <1>3 DEF RecordApproval
  <2>2. PICK new \in CallRecords :
          /\ calls' = [calls EXCEPT ![p] = new]
          /\ Carries(new) /\ new.pc \in {"mint", "key"} /\ new.quote = q
    BY <1>1, <2>1, ApprovedGoesOn
  <2>3. Knows(new)
    BY <1>3, <2>2 DEF Knows
  <2>4. Moves(p, new)
    BY <2>2, <2>3 DEF Moves, Telling
  <2>5. Quiet
    BY <2>1 DEF RecordApproval, Quiet, WalletInv, WalletTypeOK, MintedOK, AnswersOK
  <2> QED
    BY <2>4, <2>5, CallStep
<1>4. CASE approvals[q] = None
  <2> DEFINE row == [mandate |-> call.mandate, mode |-> call.gate]
             new == [call EXCEPT !.pc = "approved"]
  <2>1. /\ calls' = [calls EXCEPT ![p] = new]
        /\ approvals' = [approvals EXCEPT ![q] = row]
        /\ UNCHANGED <<now, mandates, idempotency_keys, approval_requests, minted, ledger, made,
                       crashes, answered>>
    BY <1>4 DEF RecordApproval, Goto
  <2>2. row \in ApprovalRows /\ row.mandate = call.mandate /\ row.mode = call.gate
    BY <1>2 DEF ApprovalRows
  <2>3. /\ new \in CallRecords /\ new.pc = "approved" /\ new.quote = q
        /\ new.mandate = call.mandate /\ new.consumer = call.consumer /\ new.op = call.op
        /\ new.gate = call.gate /\ new.key = call.key
    BY <1>1 DEF CallRecords, Labels
  <2> HIDE DEF new, row
  <2>4. Carries(new)
    BY <1>1, <1>2, <2>3 DEF Carries
  <2>5. /\ row # None
        /\ approvals' \in [Quotes -> ApprovalRows \cup {None}]
        /\ \A r \in Quotes : approvals'[r] = IF r = q THEN row ELSE approvals[r]
    BY <1>2, <2>1, <2>2, NoneIsNoRow DEF WalletInv, WalletTypeOK
  <2>6. Grown
    BY <1>4, <2>1, <2>5 DEF Grown
  <2>7. /\ WalletTypeOK'
        /\ calls'[p] = new /\ \A o \in Callers : o # p => calls'[o] = calls[o]
    <3>1. /\ ledger' \in [Events -> Nat] /\ mandates' \in [MandateIds -> MandateRows \cup {None}]
          /\ idempotency_keys' \in [Keys -> KeyRows \cup {None}] /\ made' \in Nat
      BY <2>1 DEF WalletInv, WalletTypeOK
    <3> QED
      BY <2>1, <2>3, <2>5, <3>1, TypesSurvive
  <2>8. CallOK(p)'
    BY <1>2, <2>3, <2>4, <2>5, <2>7 DEF CallOK, Carries, Knows
  <2>9. CallsOK' /\ MintedOK' /\ AnswersOK'
    BY <2>1, <2>6, <2>7, <2>8, OthersSurvive
  <2>10. MandatesOK'
    BY <2>1 DEF WalletInv, MandatesOK, IdsInOrder, WithinParent
  <2>11. ApprovalsOK'
    <3>1. ASSUME NEW r \in Quotes, approvals'[r] # None
          PROVE  Covers(approvals[r].mandate, r, approvals[r].mode)'
      <4>1. CASE r = q
        BY <1>2, <2>1, <2>2, <2>5, <4>1 DEF Covers, Allows, Foresees
      <4>2. CASE r # q
        BY <2>1, <2>5, <3>1, <4>2 DEF WalletInv, ApprovalsOK, Covers, Allows, Foresees
      <4> QED
        BY <4>1, <4>2
    <3> QED
      BY <3>1 DEF ApprovalsOK
  <2>12. LedgerOK'
    <3>1. LedgerFollowsTables /\ ledger \in [Events -> Nat]
      BY DEF WalletInv, WalletTypeOK, LedgerOK
    <3>2. LedgerFollowsTables'
      BY <1>4, <2>1, <2>5, <3>1, EventsOfRows DEF LedgerFollowsTables
    <3>3. Untold(calls[p])'
      <4>1. ledger[Event("ApprovalGranted", q)] = 0
        BY <1>2, <1>4, <3>1, EventsOfRows DEF LedgerFollowsTables
      <4> QED
        BY <1>2, <2>1, <2>3, <2>5, <2>7, <4>1 DEF Untold
    <3>4. ASSUME NEW o \in Callers, o # p
          PROVE  /\ Untold(calls[o])' /\ (calls[o].pc = "approved" => calls[o].quote # q)
                 /\ calls'[o] = calls[o]
      <4>1. Untold(calls[o]) /\ Carries(calls[o]) /\ calls'[o] = calls[o]
        BY <2>7, <3>4 DEF WalletInv, LedgerOK, CallsOK, CallOK
      <4> QED
        BY <1>4, <2>1, <2>5, <4>1 DEF Untold, Carries
    <3>5. ASSUME NEW o \in Callers, NEW r \in Callers, o # r PROVE Apart(calls[o], calls[r])'
      <4>1. Apart(calls[o], calls[r])
        BY <3>5 DEF WalletInv, LedgerOK
      <4>2. CASE o # p /\ r # p
        BY <3>4, <4>1, <4>2 DEF Apart
      <4>3. CASE o = p
        BY <2>3, <2>7, <3>4, <3>5, <4>3 DEF Apart
      <4>4. CASE r = p
        BY <2>3, <2>7, <3>4, <3>5, <4>4 DEF Apart
      <4> QED
        BY <4>2, <4>3, <4>4
    <3> QED
      BY <3>2, <3>3, <3>4, <3>5 DEF LedgerOK
  <2> QED
    BY <2>7, <2>9, <2>10, <2>11, <2>12 DEF WalletInv
<1> QED
  BY <1>3, <1>4

\* A response is stored once: the loser of the insert answers with the winner's.
LEMMA StoreKeyKeeps ==
  ASSUME WalletInv, NEW p \in Callers, StoreKey(p) PROVE WalletInv'
<1> DEFINE call == calls[p]  k == call.key
<1>1. /\ ~At(p, "idle") /\ call \in CallRecords /\ Carries(call) /\ Knows(call)
      /\ call.pc = "store"
  BY InFlight DEF StoreKey, At
<1>2. /\ call.quote \in Quotes /\ call.consumer \in Consumers /\ call.reply \in ReplyRecords
      /\ k \in Keys /\ k # None
  BY <1>1, NoneIsNoRow DEF Carries
<1>3. CASE idempotency_keys[k] = None
  <2> DEFINE row == [consumer |-> call.consumer, response |-> call.reply]
             new == [call EXCEPT !.pc = "deliver"]
  <2>1. /\ calls' = [calls EXCEPT ![p] = new]
        /\ idempotency_keys' = [idempotency_keys EXCEPT ![k] = row]
        /\ UNCHANGED <<now, mandates, approvals, approval_requests, minted, ledger, made,
                       crashes, answered>>
    BY <1>3 DEF StoreKey, Goto
  <2>2. row \in KeyRows /\ row.consumer = call.consumer /\ row.response = call.reply
    BY <1>2 DEF KeyRows
  <2>3. /\ new \in CallRecords /\ new.pc = "deliver" /\ new.quote = call.quote
        /\ new.consumer = call.consumer /\ new.op = call.op /\ new.reply = call.reply
        /\ new.gate = call.gate /\ new.key = k
    BY <1>1 DEF CallRecords, Labels
  <2> HIDE DEF new, row
  <2>4. Carries(new)
    BY <1>1, <1>2, <2>3 DEF Carries
  <2>5. /\ row # None
        /\ idempotency_keys' \in [Keys -> KeyRows \cup {None}]
        /\ \A j \in Keys : idempotency_keys'[j] = IF j = k THEN row ELSE idempotency_keys[j]
    BY <1>2, <2>1, <2>2, NoneIsNoRow DEF WalletInv, WalletTypeOK
  <2>6. Grown
    BY <1>3, <2>1, <2>5 DEF Grown
  <2>7. /\ WalletTypeOK'
        /\ calls'[p] = new /\ \A o \in Callers : o # p => calls'[o] = calls[o]
    <3>1. /\ ledger' \in [Events -> Nat] /\ mandates' \in [MandateIds -> MandateRows \cup {None}]
          /\ approvals' \in [Quotes -> ApprovalRows \cup {None}] /\ made' \in Nat
      BY <2>1 DEF WalletInv, WalletTypeOK
    <3> QED
      BY <2>1, <2>3, <2>5, <3>1, TypesSurvive
  <2>8. CallOK(p)'
    BY <1>2, <2>2, <2>3, <2>4, <2>5, <2>7 DEF CallOK, Carries, Knows, StoredIs
  <2>9. CallsOK' /\ MintedOK' /\ AnswersOK'
    BY <2>1, <2>6, <2>7, <2>8, OthersSurvive
  <2>10. MandatesOK' /\ ApprovalsOK'
    BY <2>1 DEF WalletInv, MandatesOK, IdsInOrder, WithinParent, ApprovalsOK, Covers, Allows,
       Foresees
  <2>11. LedgerOK'
    <3>1. \A o \in Callers : calls'[o] = calls[o] \/ calls'[o].pc \notin Telling
      BY <2>3, <2>7 DEF Telling
    <3> QED
      BY <2>1, <3>1, LedgerKeeps
  <2> QED
    BY <2>7, <2>9, <2>10, <2>11 DEF WalletInv
<1>4. CASE idempotency_keys[k] # None
  <2> DEFINE reply == IF StoredFor(k, call.consumer) THEN idempotency_keys[k].response ELSE call.reply
             new == [call EXCEPT !.reply = reply, !.pc = "deliver"]
  <2>1. calls' = [calls EXCEPT ![p] = new] /\ UNCHANGED idempotency_keys
    BY <1>4 DEF StoreKey
  <2>2. idempotency_keys[k] \in KeyRows
    BY <1>2, <1>4 DEF WalletInv, WalletTypeOK
  <2>3. reply \in ReplyRecords /\ StoredIs(k, call.consumer, reply)
    BY <1>2, <1>4, <2>2 DEF KeyRows, StoredIs, StoredFor
  <2> HIDE DEF reply
  <2>4. /\ new \in CallRecords /\ new.pc = "deliver" /\ new.quote = call.quote
        /\ new.consumer = call.consumer /\ new.op = call.op /\ new.reply = reply
        /\ new.gate = call.gate /\ new.key = k
    BY <1>1, <2>3 DEF CallRecords, Labels
  <2> HIDE DEF new
  <2>5. Carries(new)
    BY <1>1, <1>2, <2>3, <2>4 DEF Carries
  <2>6. Knows(new)
    BY <2>3, <2>4 DEF Knows
  <2>7. Moves(p, new)
    BY <2>1, <2>4, <2>5, <2>6 DEF Moves, Telling
  <2>8. Quiet
    BY <2>1 DEF StoreKey, Quiet, WalletInv, WalletTypeOK, MintedOK, AnswersOK
  <2> QED
    BY <2>7, <2>8, CallStep
<1> QED
  BY <1>3, <1>4

-----------------------------------------------------------------------------
(* The invariant.                                                          *)

\* The process dies with its calls, and what they knew.
LEMMA CrashKeeps ==
  ASSUME WalletInv, Crash PROVE WalletInv'
<1>1. /\ UNCHANGED <<now, mandates, approvals, idempotency_keys, approval_requests, minted, ledger,
                     made, answered>>
      /\ crashes' = crashes + 1 /\ calls' = [p \in Callers |-> Idle]
  BY DEF Crash, tables
<1>2. WalletTypeOK'
  BY <1>1 DEF WalletInv, WalletTypeOK
<1>3. MandatesOK' /\ ApprovalsOK' /\ MintedOK' /\ AnswersOK'
  BY <1>1 DEF WalletInv, MandatesOK, IdsInOrder, WithinParent, ApprovalsOK, Covers, Allows,
     Foresees, MintedOK, AnswersOK, StoredIs
<1>4. \A p \in Callers : calls'[p].pc = "idle"
  BY <1>1 DEF Idle
<1>5. CallsOK'
  BY <1>4 DEF CallsOK, CallOK, Carries, Knows
<1>6. LedgerOK'
  BY <1>1, <1>4, LedgerKeeps DEF Telling
<1> QED
  BY <1>2, <1>3, <1>5, <1>6 DEF WalletInv

\* In the beginning there is nothing.
LEMMA WalletInvInit == WalletInit => WalletInv
<1> SUFFICES ASSUME WalletInit PROVE WalletInv
  OBVIOUS
<1>1. WalletTypeOK
  BY DEF WalletInit, WalletTypeOK
<1>2. MandatesOK
  <2>1. 0 \in 0..MaxMandates /\ \A i \in MandateIds : mandates[i] = None /\ ~(i <= 0)
    BY WalletAssumption DEF WalletInit, MandateIds
  <2> QED
    BY <2>1 DEF MandatesOK, IdsInOrder
<1>3. ApprovalsOK /\ MintedOK /\ AnswersOK
  BY DEF WalletInit, ApprovalsOK, MintedOK, AnswersOK
<1>4. \A p \in Callers : calls[p].pc = "idle"
  BY DEF WalletInit, Idle
<1>5. CallsOK
  BY <1>4 DEF CallsOK, CallOK, Carries, Knows
<1>6. LedgerOK
  <2>1. \A e \in Events : ledger[e] = 0
    BY DEF WalletInit
  <2>2. LedgerFollowsTables
    BY <2>1, EventsOfRows DEF LedgerFollowsTables, WalletInit
  <2> QED
    BY <1>4, <2>2 DEF LedgerOK, Untold, Apart
<1> QED
  BY <1>1, <1>2, <1>3, <1>5, <1>6 DEF WalletInv

\* Every step of the consent path keeps the invariant.
LEMMA WalletStep == WalletInv /\ [WalletNext]_walletVars => WalletInv'
<1> SUFFICES ASSUME WalletInv, [WalletNext]_walletVars PROVE WalletInv'
  OBVIOUS
<1>1. ASSUME NEW p \in Callers, Arrival(p) PROVE WalletInv'
  <2>1. ASSUME NEW c \in Consumers, NEW e \in Endpoints, Subscribe(p, c, e) PROVE WalletInv'
    BY <2>1, AnsweredAtOnce DEF Subscribe
  <2> QED
    BY <1>1, <2>1, GrantKeeps, RevokeKeeps, AttenuateKeeps, ArrivalsKeep DEF Arrival
<1>2. ASSUME NEW p \in Callers, Statement(p) PROVE WalletInv'
  BY <1>2, InsertChildKeeps, AppendsKeep, LookUpKeeps, GateImplicitKeeps, GateExplicitKeeps,
     FindApprovalKeeps, RecordApprovalKeeps, ReadKeyKeeps, ReMintKeeps, StoreKeyKeeps,
     DeliverToRequestKeeps, DeliverToConsumerKeeps, PushKeeps, PersistKeeps, DeclineKeeps
     DEF Statement
<1>3. ASSUME Tick \/ (\E e \in Endpoints : EndpointDies(e)) \/ UNCHANGED walletVars PROVE WalletInv'
  <2>1. UNCHANGED <<mandates, approvals, idempotency_keys, approval_requests, minted, ledger, calls,
                    made, crashes, answered>>
    BY <1>3 DEF Tick, EndpointDies, walletVars, tables
  <2>2. now' \in Nat
    BY <1>3 DEF Tick, EndpointDies, walletVars, WalletInv, WalletTypeOK
  <2>3. Quiet
    BY <2>1, <2>2 DEF Quiet, WalletInv, WalletTypeOK, MintedOK, AnswersOK
  <2> QED
    BY <2>1, <2>3, QuietStep
<1> QED
  BY <1>1, <1>2, <1>3, CrashKeeps DEF WalletNext

\* What a key, an approval, a token and an event rest on holds in every state.
THEOREM WalletInvCorrect == WalletSpec => []WalletInv
<1> QED
  BY WalletInvInit, WalletStep, PTL DEF WalletSpec

\* Every state of the consent path has its type.
THEOREM WalletTypeCorrect == WalletSpec => []WalletTypeOK
<1>1. WalletInv => WalletTypeOK
  BY DEF WalletInv
<1> QED
  BY <1>1, WalletInvCorrect, PTL

-----------------------------------------------------------------------------
(* What follows from it.                                                   *)

\* What covers a quote is covered by the mandate it was attenuated from.
LEMMA ParentCovers ==
  ASSUME WalletInv, NEW j \in MandateIds, NEW q \in Quotes, NEW mode, Covers(j, q, mode),
         mandates[j].parent # None
  PROVE  mandates[j].parent \in MandateIds /\ Covers(mandates[j].parent, q, mode)
<1> DEFINE parent == mandates[j].parent
           below == mandates[j].authority
           above == mandates[parent].authority
<1>1. /\ parent \in MandateIds /\ mandates[parent] # None /\ Narrows(below, above)
      /\ mandates[j].agent = mandates[parent].agent
  BY DEF WalletInv, MandatesOK, WithinParent, Covers
<1>2. below \in Authority /\ above \in Authority
  BY <1>1 DEF WalletInv, WalletTypeOK, MandateRows, Covers
<1>3. /\ below.scopes \subseteq above.scopes /\ below.per_txn <= above.per_txn
      /\ below.pre_authorised_up_to <= above.pre_authorised_up_to
  BY <1>1, NarrowsMeans
<1>4. /\ below.per_txn \in Nat /\ above.per_txn \in Nat /\ below.pre_authorised_up_to \in Nat
      /\ above.pre_authorised_up_to \in Nat /\ Quote[q].amount \in Nat
  BY <1>2, WalletAssumption DEF Authority
<1>5. /\ Quote[q].amount <= below.per_txn /\ "checkout:execute" \in below.scopes
      /\ mode = "pre_authorised" => /\ Quote[q].amount <= below.pre_authorised_up_to
                                    /\ Quote[q].agent = mandates[j].agent
  BY DEF Covers, Allows, Foresees
<1> HIDE DEF below, above, parent
<1>6. /\ Quote[q].amount <= above.per_txn /\ "checkout:execute" \in above.scopes
      /\ mode = "pre_authorised" => /\ Quote[q].amount <= above.pre_authorised_up_to
                                    /\ Quote[q].agent = mandates[parent].agent
  BY <1>1, <1>3, <1>4, <1>5
<1>7. Covers(parent, q, mode)
  BY <1>1, <1>6 DEF Covers, Allows, Foresees, above
<1> QED
  BY <1>1, <1>7 DEF parent

\* An approval is within every grant it rests on, whatever was attenuated or
\* revoked in between, and no token is minted again without one.
LEMMA WithinEveryGrant == WalletInv => ApprovedWithinEveryGrant
<1> SUFFICES ASSUME WalletInv PROVE ApprovedWithinEveryGrant
  OBVIOUS
<1>1. ASSUME NEW q \in Quotes, approvals[q] # None
      PROVE  /\ approvals[q].mandate \in MandateIds
             /\ Covers(approvals[q].mandate, q, approvals[q].mode)
  BY <1>1 DEF WalletInv, WalletTypeOK, ApprovalRows, ApprovalsOK
<1>2. ASSUME NEW q \in Quotes, approvals[q] # None, NEW m \in Lineage(approvals[q].mandate)
      PROVE  Covers(m, q, approvals[q].mode)
  <2> DEFINE S == {i \in MandateIds : Covers(i, q, approvals[q].mode)}
  <2>1. S \in SUBSET MandateIds /\ approvals[q].mandate \in S
    BY <1>1, <1>2
  <2>2. WithParents(S)
    BY ParentCovers DEF WithParents
  <2>3. m \in S
    BY <2>1, <2>2 DEF Lineage
  <2> QED
    BY <2>3
<1>3. ASSUME NEW i \in DOMAIN minted
      PROVE  /\ approvals[minted[i].quote] # None
             /\ Quote[minted[i].quote].amount
                  <= mandates[approvals[minted[i].quote].mandate].authority.per_txn
  <2> DEFINE Token == [quote : Quotes, mandate : MandateIds]
  <2>1. minted \in Seq(Token)
    BY DEF WalletInv, WalletTypeOK
  <2> HIDE DEF Token
  <2>2. minted[i] \in Token
    BY <2>1
  <2>3. minted[i].quote \in Quotes
    BY <2>2 DEF Token
  <2>4. approvals[minted[i].quote] # None
    BY DEF WalletInv, MintedOK
  <2> QED
    BY <1>1, <2>3, <2>4 DEF Covers, Allows
<1> QED
  BY <1>2, <1>3 DEF ApprovedWithinEveryGrant, Covers, Allows, Foresees, approvalById, attestedCurrent

\* An approval is within every grant it rests on (attenuation and both gates).
THEOREM GrantsCorrect == WalletSpec => []ApprovedWithinEveryGrant
<1> QED
  BY WithinEveryGrant, WalletInvCorrect, PTL

\* A consumer has one answer under a key of hers, whoever raced to store it.
THEOREM RepliesCorrect == WalletSpec => []OneReplyPerKey
<1>1. WalletInv => OneReplyPerKey
  BY DEF WalletInv, AnswersOK, StoredIs, OneReplyPerKey
<1> QED
  BY <1>1, WalletInvCorrect, PTL

\* The ledger says of a grant, a revocation and an approval what the tables do,
\* and says it once.
THEOREM WalletLedgerCorrect == WalletSpec => []LedgerFollowsTables
<1>1. WalletInv => LedgerFollowsTables
  BY DEF WalletInv, LedgerOK
<1> QED
  BY <1>1, WalletInvCorrect, PTL

\* A decision is final, whatever the race between the agent's answer and hers.
THEOREM DecisionCorrect == WalletSpec => DecisionIsFinal
<1> DEFINE Final ==
      \A q \in Quotes :
        approval_requests[q] # None /\ approval_requests[q].status # "pending"
          => approval_requests'[q] = approval_requests[q]
<1>1. WalletInv /\ [WalletNext]_walletVars => [Final]_walletVars
  <2> SUFFICES ASSUME WalletInv, WalletNext PROVE Final
    OBVIOUS
  <2>1. approval_requests \in [Quotes -> RequestRows \cup {None}]
    BY DEF WalletInv, WalletTypeOK
  <2>2. ASSUME NEW p \in Callers, Arrival(p) PROVE UNCHANGED approval_requests
    BY <2>2 DEF Arrival, Grant, Revoke, Attenuate, Decline, Approve, Subscribe, RequestApproval, tables
  <2>3. ASSUME NEW p \in Callers, DeliverToConsumer(p) \/ RecordDeclined(p) \/ Persist(p) PROVE Final
    BY <2>1, <2>3 DEF DeliverToConsumer, RecordDeclined, Persist, Decided, StandingRow
  <2>4. ASSUME NEW p \in Callers, Statement(p),
               ~(DeliverToConsumer(p) \/ RecordDeclined(p) \/ Persist(p))
        PROVE  UNCHANGED approval_requests
    BY <2>4 DEF Statement, InsertChild, AppendGranted, AppendRevoked, LookUp, GateImplicit,
       GateExplicit, FindApproval, RecordApproval, AppendApproved, ReadKey, ReMint, StoreKey,
       DeliverToRequest, Push, AppendNotification, LookForDecline, AppendDeclined, tables
  <2>5. ASSUME Tick \/ Crash \/ (\E e \in Endpoints : EndpointDies(e)) PROVE UNCHANGED approval_requests
    BY <2>5 DEF Tick, Crash, EndpointDies, tables
  <2> QED
    BY <2>2, <2>3, <2>4, <2>5 DEF WalletNext
<1> QED
  BY <1>1, WalletInvCorrect, PTL DEF WalletSpec, DecisionIsFinal

=============================================================================
