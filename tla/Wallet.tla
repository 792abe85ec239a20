-------------------------------- MODULE Wallet --------------------------------
(***************************************************************************)
(* The wallet's consent path: mandates (mandates/mandate-service.ts), the  *)
(* approval requests of agents (notifications/approval-requests.ts), the   *)
(* consumer's approve and decline (notifications/approvals.ts) and the     *)
(* push that tells her (notifications/push.ts), behind the routes of       *)
(* server.ts.                                                              *)
(*                                                                         *)
(* A caller is one request in flight.  Every statement the handler sends   *)
(* to Postgres, the call to the trio's mint and the pushes are steps of    *)
(* their own, because each is awaited and no transaction spans two of      *)
(* them; the append of an event runs in a transaction of its own.          *)
(***************************************************************************)
EXTENDS Mandates, FiniteSets, Sequences

CONSTANTS
  Callers,
  Consumers,
  Agents,
  Quotes,        \* core.quotes, written by the core and immutable
  Quote,         \* the row of each: amount, agent, consumer or None, expires_at
  Grants,        \* what a consumer may ask for in a grant: agent and authority
  Patches,       \* what she may ask for in an attenuation
  MaxMandates,   \* bound: rows of wallet.mandates; a row's number is its id
  Endpoints,     \* push endpoints of the browsers
  MaxCalls,      \* bound: how many calls and crashes there are altogether
  MaxCrashes,    \* bound: how often the process dies
  MaxTime,       \* bound of the clock
  None

ASSUME WalletAssumption ==
  /\ MaxMandates \in Nat /\ MaxCalls \in Nat /\ MaxCrashes \in Nat /\ MaxTime \in Nat
  /\ Quote \in [Quotes -> [amount : Nat, agent : Agents \cup {None},
                          consumer : Consumers \cup {None}, expires_at : Nat]]
  /\ Grants \subseteq [agent : Agents, authority : Authority]
  /\ \A p \in Patches : /\ DOMAIN p \subseteq DOMAIN Dimension
                        /\ \A f \in DOMAIN p : p[f] \in Dimension[f]

VARIABLES
  now,
  mandates,           \* wallet.mandates by id; None where there is no row yet
  approvals,          \* wallet.approvals by quote (UNIQUE quote_id)
  idempotency_keys,   \* wallet.idempotency_keys: whose and which response, by key
  approval_requests,  \* wallet.approval_requests by quote
  subscriptions,      \* wallet.push_subscriptions
  dead,               \* the endpoints the push service no longer knows
  minted,             \* trio.minted_tokens: what each re-minted token carries
  ledger,             \* how many events of each kind the ledger holds
  calls,              \* the requests in flight
  made,               \* how many calls were made
  crashes,
  answered            \* history: the key and the reply of every approve answered

tables == <<mandates, approvals, idempotency_keys, approval_requests, subscriptions>>
walletVars == <<now, tables, dead, minted, ledger, calls, made, crashes, answered>>

MandateIds == 1..MaxMandates
\* The key of the agent's own approve, and the key the wallet's pages send.
AgentKey(q) == <<"aprq", q>>
PageKey(q) == <<"ui", q>>
Keys == {AgentKey(q) : q \in Quotes} \cup {PageKey(q) : q \in Quotes}

Refusals == {"APPROVAL_EXPIRED", "MANDATE_REVOKED", "CHECKOUT_SCOPE_MISSING",
             "LIMIT_EXCEEDED", "REMINT_FAILED"}
Reply(outcome, token) == [outcome |-> outcome, token |-> token]
Refused(reason) == Reply(reason, 0)
Row(status, reason, token) == [status |-> status, reason |-> reason, token |-> token]

\* The rows of the tables.
MandateRows ==
  [consumer : Consumers, agent : Agents, parent : MandateIds \cup {None},
   authority : Authority, status : {"active", "revoked"}]
ApprovalRows == [mandate : MandateIds, mode : {"explicit", "pre_authorised"}]
ReplyRecords == [outcome : Refusals \cup {"approved"}, token : Nat]
KeyRows == [consumer : Consumers, response : ReplyRecords]
RequestRows ==
  [status : {"pending", "approved", "refused", "declined", "expired"},
   reason : Refusals \cup {None}, token : Nat]

ASSUME NoneIsNoRow ==
  /\ None \notin MandateRows /\ None \notin ApprovalRows /\ None \notin KeyRows
  /\ None \notin RequestRows /\ None \notin Keys /\ None \notin Refusals

Event(type, id) == [type |-> type, id |-> id]
Events == {Event(t, i) : t \in {"MandateGranted", "MandateRevoked"}, i \in MandateIds}
     \cup {Event(t, q) : t \in {"ApprovalGranted", "ApprovalDeclined", "NotificationSent"},
                         q \in Quotes}
Append1(event) == ledger' = [ledger EXCEPT ![event] = @ + 1]

Idle == [pc |-> "idle"]
Call(op, c, q, m, key, label) ==
  [op |-> op, consumer |-> c, quote |-> q, mandate |-> m, key |-> key, pc |-> label,
   gate |-> "explicit", reply |-> None, row |-> None]

At(p, label) == calls[p].pc = label
Goto(p, label) == calls' = [calls EXCEPT ![p].pc = label]
Finish(p) == calls' = [calls EXCEPT ![p] = Idle]
Begin(p, call) ==
  /\ At(p, "idle") /\ made + crashes < MaxCalls
  /\ made' = made + 1
  /\ calls' = [calls EXCEPT ![p] = call]
\* The call is answered within its first statement.
BeginAndEnd(p) ==
  /\ At(p, "idle") /\ made + crashes < MaxCalls
  /\ made' = made + 1
  /\ UNCHANGED calls
Conclude(p, reply) ==
  calls' = [calls EXCEPT ![p].reply = reply,
                         ![p].pc = IF calls[p].key = None THEN "deliver" ELSE "store"]
WriteRow(p, row) == calls' = [calls EXCEPT ![p].row = row, ![p].pc = "persist"]

-----------------------------------------------------------------------------
\* Mandates.

FreshMandate == CHOOSE i \in MandateIds :
                  mandates[i] = None /\ \A j \in 1..(i - 1) : mandates[j] # None
HasFreshMandate == \E i \in MandateIds : mandates[i] = None

\* get: the row now, nothing of it is remembered from one statement to the next.
MandateRow(m) == mandates[m]

\* insert: a row under a fresh id, in one statement.
InsertMandate(i, row) == mandates' = [mandates EXCEPT ![i] = row]

\* approvalFor: the one approval a quote may have.
ApprovalFor(q) == approvals[q]

\* What the trio's directory answers of a token the wallet had minted again: the
\* approval it carries, which has the quote for its key, and a mandate as it is
\* now, attested anew.
approvalById(token) == approvals[token.quote]
attestedCurrent(m) == mandates[m]

\* status: the one request a quote may have.
StandingRow(q) == approval_requests[q]

\* grant: the row, and then its event in a transaction of its own.
Grant(p, c, request) ==
  /\ WellFormed(request.authority)
  /\ HasFreshMandate
  /\ Begin(p, Call("grant", c, None, FreshMandate, None, "granted"))
  /\ InsertMandate(FreshMandate,
       [consumer |-> c, agent |-> request.agent, parent |-> None,
        authority |-> request.authority, status |-> "active"])
  /\ UNCHANGED <<now, approvals, idempotency_keys, approval_requests, subscriptions,
                 dead, minted, ledger, crashes, answered>>

\* attenuate reads the parent, lays the patch over it and refuses a child that
\* is malformed or wider; the row is written by a later statement.
Attenuate(p, c, parent, patch) ==
  /\ MandateRow(parent) # None
  /\ MandateRow(parent).consumer = c /\ MandateRow(parent).status = "active"
  /\ LET child == Overlay(MandateRow(parent).authority, patch)
     IN  /\ WellFormed(child)
         /\ Narrows(child, MandateRow(parent).authority)
         /\ Begin(p, [Call("attenuate", c, None, parent, None, "insert") EXCEPT
                        !.row = [mandates[parent] EXCEPT !.parent = parent,
                                                         !.authority = child]])
  /\ UNCHANGED <<now, tables, dead, minted, ledger, crashes, answered>>

InsertChild(p) ==
  /\ At(p, "insert") /\ HasFreshMandate
  /\ InsertMandate(FreshMandate, calls[p].row)
  /\ calls' = [calls EXCEPT ![p].mandate = FreshMandate, ![p].pc = "granted"]
  /\ UNCHANGED <<now, approvals, idempotency_keys, approval_requests, subscriptions,
                 dead, minted, ledger, made, crashes, answered>>

AppendGranted(p) ==
  /\ At(p, "granted")
  /\ Append1(Event("MandateGranted", calls[p].mandate))
  /\ Finish(p)
  /\ UNCHANGED <<now, tables, dead, minted, made, crashes, answered>>

\* revoke: one statement flips the owner's active mandate; a mandate that is
\* not hers, or no longer active, is left alone and nothing is appended.
Revoke(p, c, m) ==
  /\ mandates[m] # None
  /\ IF mandates[m].consumer = c /\ mandates[m].status = "active"
       THEN /\ Begin(p, Call("revoke", c, None, m, None, "revoked"))
            /\ mandates' = [mandates EXCEPT ![m].status = "revoked"]
       ELSE BeginAndEnd(p) /\ UNCHANGED mandates
  /\ UNCHANGED <<now, approvals, idempotency_keys, approval_requests, subscriptions,
                 dead, minted, ledger, crashes, answered>>

AppendRevoked(p) ==
  /\ At(p, "revoked")
  /\ Append1(Event("MandateRevoked", calls[p].mandate))
  /\ Finish(p)
  /\ UNCHANGED <<now, tables, dead, minted, made, crashes, answered>>

-----------------------------------------------------------------------------
\* An agent's approval request.

\* create looks for a standing row, which is the answer.
RequestApproval(p, q, m) ==
  /\ IF StandingRow(q) # None
       THEN BeginAndEnd(p)
       ELSE Begin(p, Call("create", None, q, m, AgentKey(q), "lookup"))
  /\ UNCHANGED <<now, tables, dead, minted, ledger, crashes, answered>>

Matches(q, mandate) ==
  /\ Quote[q].agent = mandate.agent
  /\ Quote[q].consumer \in {None, mandate.consumer}

\* The quote and the mandate: one that does not match is not found; an expired
\* quote is recorded as such; the amount decides whether the mandate is enough.
LookUp(p) ==
  LET call == calls[p]  mandate == MandateRow(call.mandate)
  IN  /\ At(p, "lookup")
      /\ IF mandate = None
           THEN Finish(p)
         ELSE IF ~Matches(call.quote, mandate)
           THEN Finish(p)
         ELSE IF Quote[call.quote].expires_at <= now
           THEN WriteRow(p, Row("expired", "APPROVAL_EXPIRED", 0))
         ELSE calls' = [calls EXCEPT
                ![p].consumer = mandate.consumer,
                ![p].pc = IF Quote[call.quote].amount <= mandate.authority.pre_authorised_up_to
                            THEN "gate" ELSE "push",
                ![p].gate = "pre_authorised"]
      /\ UNCHANGED <<now, tables, dead, minted, ledger, made, crashes, answered>>

\* What the gate finds wrong with a mandate's row.
Refusal(mandate, q) ==
  IF mandate = None \/ mandate.status # "active" \/ mandate.authority.exp <= now
    THEN "MANDATE_REVOKED"
  ELSE IF "checkout:execute" \notin mandate.authority.scopes
    THEN "CHECKOUT_SCOPE_MISSING"
  ELSE IF Quote[q].amount > mandate.authority.per_txn
    THEN "LIMIT_EXCEEDED" ELSE None

\* authoriseForQuote reads the mandate's row now; LookUp saw to the quote.
GateImplicit(p) ==
  LET call == calls[p]  refusal == Refusal(MandateRow(call.mandate), call.quote)
  IN  /\ At(p, "gate") /\ call.gate = "pre_authorised"
      /\ IF refusal = None THEN Goto(p, "find") ELSE WriteRow(p, Row("refused", refusal, 0))
      /\ UNCHANGED <<now, tables, dead, minted, ledger, made, crashes, answered>>

\* approveExplicitForQuote, entered with a quote that has not expired, asks for
\* the same and whose mandate it is, which it does not tell.
GateExplicit(p) ==
  LET call == calls[p]
      mandate == MandateRow(call.mandate)
      refusal == IF mandate # None /\ mandate.consumer # call.consumer
                   THEN "MANDATE_REVOKED" ELSE Refusal(mandate, call.quote)
  IN  /\ At(p, "gate") /\ call.gate = "explicit"
      /\ IF Quote[call.quote].expires_at <= now
           THEN Conclude(p, Refused("APPROVAL_EXPIRED"))
         ELSE IF refusal = None THEN Goto(p, "find") ELSE Conclude(p, Refused(refusal))
      /\ UNCHANGED <<now, tables, dead, minted, ledger, made, crashes, answered>>

\* With an approval in hand the implicit path enters approve() under its own
\* key, and the explicit one goes to the mint.
HaveApproval(p) ==
  calls' = [calls EXCEPT
    ![p].pc = IF calls[p].gate = "explicit" THEN "mint" ELSE "key",
    ![p].gate = "explicit"]

FindApproval(p) ==
  /\ At(p, "find")
  /\ IF ApprovalFor(calls[p].quote) # None THEN HaveApproval(p) ELSE Goto(p, "record")
  /\ UNCHANGED <<now, tables, dead, minted, ledger, made, crashes, answered>>

\* Mutant of RecordApproval: the loser of the insert tells the ledger as well.
RecordApprovalToldTwice(p) ==
  LET call == calls[p]
  IN  /\ At(p, "record")
      /\ approvals' = IF approvals[call.quote] # None THEN approvals
           ELSE [approvals EXCEPT ![call.quote] = [mandate |-> call.mandate, mode |-> call.gate]]
      /\ Goto(p, "approved")
      /\ UNCHANGED <<now, mandates, idempotency_keys, approval_requests, subscriptions,
                     dead, minted, ledger, made, crashes, answered>>

\* INSERT .. ON CONFLICT (quote_id) DO NOTHING: another writer's row is taken
\* as it is.
RecordApproval(p) ==
  LET call == calls[p]
  IN  /\ At(p, "record")
      /\ IF approvals[call.quote] = None
           THEN /\ approvals' = [approvals EXCEPT ![call.quote] =
                                   [mandate |-> call.mandate, mode |-> call.gate]]
                /\ Goto(p, "approved")
           ELSE HaveApproval(p) /\ UNCHANGED approvals
      /\ UNCHANGED <<now, mandates, idempotency_keys, approval_requests, subscriptions,
                     dead, minted, ledger, made, crashes, answered>>

AppendApproved(p) ==
  /\ At(p, "approved")
  /\ Append1(Event("ApprovalGranted", calls[p].quote))
  /\ HaveApproval(p)
  /\ UNCHANGED <<now, tables, dead, minted, made, crashes, answered>>

-----------------------------------------------------------------------------
\* The consumer's decision.

\* approve of a quote that exists, with or without an idempotency key.
Approve(p, c, q, m, key) ==
  /\ Begin(p, Call("approve", c, q, m, key, IF key = None THEN "gate" ELSE "key"))
  /\ UNCHANGED <<now, tables, dead, minted, ledger, crashes, answered>>

StoredFor(key, c) == idempotency_keys[key] # None /\ idempotency_keys[key].consumer = c

\* A replayed key returns the stored response.
ReadKey(p) ==
  LET call == calls[p]
  IN  /\ At(p, "key")
      /\ IF StoredFor(call.key, call.consumer)
           THEN calls' = [calls EXCEPT ![p].reply = idempotency_keys[call.key].response,
                                       ![p].pc = "deliver"]
           ELSE Goto(p, "gate")
      /\ UNCHANGED <<now, tables, dead, minted, ledger, made, crashes, answered>>

\* The trio mints a fresh token of the quote, or the call to it fails; a quote
\* without an agent has nobody to carry it.
ReMint(p) ==
  LET call == calls[p]
  IN  /\ At(p, "mint")
      /\ \/ /\ Quote[call.quote].agent # None
            /\ minted' = Append(minted, [quote |-> call.quote, mandate |-> call.mandate])
            /\ Conclude(p, Reply("approved", Len(minted')))
         \/ Conclude(p, Refused("REMINT_FAILED")) /\ UNCHANGED minted
      /\ UNCHANGED <<now, tables, dead, ledger, made, crashes, answered>>

\* Mutant of StoreKey: the loser of the insert answers with its own result.
StoreKeyKeepingOwn(p) ==
  LET call == calls[p]
  IN  /\ At(p, "store")
      /\ idempotency_keys' = IF idempotency_keys[call.key] = None
           THEN [idempotency_keys EXCEPT ![call.key] =
                   [consumer |-> call.consumer, response |-> call.reply]]
           ELSE idempotency_keys
      /\ Goto(p, "deliver")
      /\ UNCHANGED <<now, mandates, approvals, approval_requests, subscriptions,
                     dead, minted, ledger, made, crashes, answered>>

\* The response is stored under the key whatever it is; the loser of the insert
\* answers with what the winner stored for the same consumer.  The row is never
\* changed or deleted, so reading it back is not a step of its own.
StoreKey(p) ==
  LET call == calls[p]
  IN  /\ At(p, "store")
      /\ IF idempotency_keys[call.key] = None
           THEN /\ idempotency_keys' = [idempotency_keys EXCEPT ![call.key] =
                     [consumer |-> call.consumer, response |-> call.reply]]
                /\ Goto(p, "deliver")
           ELSE /\ calls' = [calls EXCEPT
                     ![p].reply = IF StoredFor(call.key, call.consumer)
                                    THEN idempotency_keys[call.key].response ELSE @,
                     ![p].pc = "deliver"]
                /\ UNCHANGED idempotency_keys
      /\ UNCHANGED <<now, mandates, approvals, approval_requests, subscriptions,
                     dead, minted, ledger, made, crashes, answered>>

\* Mutant of Decided: a row that was decided before is overwritten.
DecidedWhateverItWas(q, status, token) ==
  IF approval_requests[q] # None
    THEN [approval_requests EXCEPT ![q] = Row(status, None, token)]
    ELSE approval_requests

\* recordDecision writes a pending row, and no other.
Decided(q, status, token) ==
  IF approval_requests[q] # None /\ approval_requests[q].status = "pending"
    THEN [approval_requests EXCEPT ![q] = Row(status, None, token)]
    ELSE approval_requests

Answer(call) == [key |-> call.key, consumer |-> call.consumer, reply |-> call.reply]

\* The end of approve(): for the agent's request the answer becomes the row,
\* and the route of the consumer records her decision.
DeliverToRequest(p) ==
  LET reply == calls[p].reply
  IN  /\ At(p, "deliver") /\ calls[p].op = "create"
      /\ WriteRow(p, IF reply.outcome = "approved"
                       THEN Row("approved", None, reply.token)
                       ELSE Row("refused", reply.outcome, 0))
      /\ answered' = answered \cup {Answer(calls[p])}
      /\ UNCHANGED <<now, tables, dead, minted, ledger, made, crashes>>

DeliverToConsumer(p) ==
  LET call == calls[p]
  IN  /\ At(p, "deliver") /\ call.op = "approve"
      /\ IF call.reply.outcome = "approved"
           THEN approval_requests' = Decided(call.quote, "approved", call.reply.token)
           ELSE UNCHANGED approval_requests
      /\ answered' = IF call.key = None THEN answered ELSE answered \cup {Answer(call)}
      /\ Finish(p)
      /\ UNCHANGED <<now, mandates, approvals, idempotency_keys, subscriptions, dead,
                     minted, ledger, made, crashes>>

\* persist: INSERT .. ON CONFLICT DO NOTHING, the standing row wins.
Persist(p) ==
  LET q == calls[p].quote
  IN  /\ At(p, "persist")
      /\ approval_requests' = IF StandingRow(q) = None
                                THEN [approval_requests EXCEPT ![q] = calls[p].row]
                                ELSE approval_requests
      /\ Finish(p)
      /\ UNCHANGED <<now, mandates, approvals, idempotency_keys, subscriptions, dead,
                     minted, ledger, made, crashes, answered>>

\* sendQuoteNotification: every endpoint of the consumer is tried; those the
\* push service no longer knows are pruned, another failure is passed over.
Push(p) ==
  LET call == calls[p]
      own == {s \in subscriptions : s.consumer = call.consumer}
      gone == {s \in own : s.endpoint \in dead}
  IN  /\ At(p, "push")
      /\ subscriptions' = subscriptions \ gone
      /\ Goto(p, "notify")
      /\ UNCHANGED <<now, mandates, approvals, idempotency_keys, approval_requests, dead,
                     minted, ledger, made, crashes, answered>>

AppendNotification(p) ==
  /\ At(p, "notify")
  /\ Append1(Event("NotificationSent", calls[p].quote))
  /\ WriteRow(p, Row("pending", None, 0))
  /\ UNCHANGED <<now, tables, dead, minted, made, crashes, answered>>

\* decline: only the consumer of the quote gets past the first statement, and
\* the route records the decision in any case.
Decline(p, c, q) ==
  /\ Begin(p, Call("decline", c, q, None, None,
              IF Quote[q].consumer = c THEN "already" ELSE "record_declined"))
  /\ UNCHANGED <<now, tables, dead, minted, ledger, crashes, answered>>

LookForDecline(p) ==
  /\ At(p, "already")
  /\ IF ledger[Event("ApprovalDeclined", calls[p].quote)] > 0
       THEN Goto(p, "record_declined")
       ELSE Goto(p, "declining")
  /\ UNCHANGED <<now, tables, dead, minted, ledger, made, crashes, answered>>

\* The statement after the event updates wallet.errands, which no code writes.
AppendDeclined(p) ==
  /\ At(p, "declining")
  /\ Append1(Event("ApprovalDeclined", calls[p].quote))
  /\ Goto(p, "record_declined")
  /\ UNCHANGED <<now, tables, dead, minted, made, crashes, answered>>

RecordDeclined(p) ==
  LET q == calls[p].quote
  IN  /\ At(p, "record_declined")
      /\ approval_requests' = Decided(q, "declined", 0)
      /\ Finish(p)
      /\ UNCHANGED <<now, mandates, approvals, idempotency_keys, subscriptions, dead,
                     minted, ledger, made, crashes, answered>>

-----------------------------------------------------------------------------
\* register: an upsert by consumer and endpoint.
Subscribe(p, c, e) ==
  /\ BeginAndEnd(p)
  /\ subscriptions' = subscriptions \cup {[consumer |-> c, endpoint |-> e]}
  /\ UNCHANGED <<now, mandates, approvals, idempotency_keys, approval_requests, dead,
                 minted, ledger, crashes, answered>>

\* A browser drops its registration; the push service answers 410 from then on.
EndpointDies(e) ==
  /\ e \notin dead
  /\ \E s \in subscriptions : s.endpoint = e
  /\ dead' = dead \cup {e}
  /\ UNCHANGED <<now, tables, minted, ledger, calls, made, crashes, answered>>

Tick ==
  /\ now < MaxTime
  /\ now' = now + 1
  /\ UNCHANGED <<tables, dead, minted, ledger, calls, made, crashes, answered>>

\* The process dies with every call it serves; the tables stay.
Crash ==
  /\ crashes < MaxCrashes
  /\ \E p \in Callers : ~At(p, "idle")
  /\ crashes' = crashes + 1
  /\ calls' = [p \in Callers |-> Idle]
  /\ UNCHANGED <<now, tables, dead, minted, ledger, made, answered>>

WalletInit ==
  /\ now = 0
  /\ mandates = [i \in MandateIds |-> None]
  /\ approvals = [q \in Quotes |-> None]
  /\ idempotency_keys = [k \in Keys |-> None]
  /\ approval_requests = [q \in Quotes |-> None]
  /\ subscriptions = {} /\ dead = {} /\ minted = <<>>
  /\ ledger = [e \in Events |-> 0]
  /\ calls = [p \in Callers |-> Idle]
  /\ made = 0 /\ crashes = 0
  /\ answered = {}

\* A request of a consumer or of an agent arrives.
Arrival(p) ==
  \/ \E c \in Consumers :
       \/ \E request \in Grants : Grant(p, c, request)
       \/ \E m \in MandateIds : Revoke(p, c, m) \/ \E patch \in Patches : Attenuate(p, c, m, patch)
       \/ \E q \in Quotes : \/ Decline(p, c, q)
                            \/ \E m \in MandateIds, key \in {None, PageKey(q)} : Approve(p, c, q, m, key)
       \/ \E e \in Endpoints : Subscribe(p, c, e)
  \/ \E q \in Quotes, m \in MandateIds : RequestApproval(p, q, m)

\* The next statement of a call in flight.
Statement(p) ==
  \/ InsertChild(p) \/ AppendGranted(p) \/ AppendRevoked(p)
  \/ LookUp(p) \/ GateImplicit(p) \/ GateExplicit(p) \/ FindApproval(p) \/ RecordApproval(p) \/ AppendApproved(p)
  \/ ReadKey(p) \/ ReMint(p) \/ StoreKey(p) \/ DeliverToRequest(p) \/ DeliverToConsumer(p)
  \/ Push(p) \/ AppendNotification(p) \/ Persist(p)
  \/ LookForDecline(p) \/ AppendDeclined(p) \/ RecordDeclined(p)

WalletNext ==
  \/ \E p \in Callers : Arrival(p) \/ Statement(p)
  \/ \E e \in Endpoints : EndpointDies(e)
  \/ Tick \/ Crash

WalletSpec == WalletInit /\ [][WalletNext]_walletVars

-----------------------------------------------------------------------------
(* What the consent path promises.                                         *)

\* A mandate and those it was attenuated from: what every set of mandates holds
\* that holds it and, with each of its members, the parent.
WithParents(S) ==
  \A j \in S : mandates[j] # None /\ mandates[j].parent # None => mandates[j].parent \in S
Lineage(m) ==
  {i \in MandateIds : \A S \in SUBSET MandateIds : m \in S /\ WithParents(S) => i \in S}

\* An approval is within the mandate it rests on and within every mandate that
\* one was attenuated from: the amount, the scope and, for an implicit one, the
\* amount the consumer authorised beforehand (attenuation and both gates).  And no
\* token is minted again for a quote whose approval the trio would not be shown,
\* with a mandate that covers it.
ApprovedWithinEveryGrant ==
  /\ \A q \in Quotes : approvals[q] # None =>
       \A m \in Lineage(approvals[q].mandate) :
         LET granted == mandates[m].authority
         IN  /\ Quote[q].amount <= granted.per_txn
             /\ "checkout:execute" \in granted.scopes
             /\ approvals[q].mode = "pre_authorised" =>
                  /\ Quote[q].amount <= granted.pre_authorised_up_to
                  /\ Quote[q].agent = mandates[m].agent
  /\ \A i \in DOMAIN minted :
       /\ approvalById(minted[i]) # None
       /\ LET mandate == attestedCurrent(approvalById(minted[i]).mandate)
          IN  Quote[minted[i].quote].amount <= mandate.authority.per_txn

\* Every answer given under a key to the consumer whose key it is is the same
\* answer: the same token or the same refusal (approve, W10/#27).  A key that
\* another consumer used first is hers, and does nothing for a second one.
OneReplyPerKey ==
  \A a, b \in answered :
    a.key = b.key /\ a.consumer = b.consumer /\ idempotency_keys[a.key].consumer = a.consumer
      => a.reply = b.reply

\* A request that reached a decision keeps it, its reason and its token, and is
\* never pending again (persist against recordDecision).
DecisionIsFinal ==
  [][\A q \in Quotes :
       approval_requests[q] # None /\ approval_requests[q].status # "pending"
         => approval_requests'[q] = approval_requests[q]]_walletVars

\* No event says what no row says, and none is told twice: a grant and a
\* revocation once per mandate, an approval once per quote (grant, attenuate,
\* revoke and recordApproval under crashes and races).
LedgerFollowsTables ==
  /\ \A i \in MandateIds :
       /\ ledger[Event("MandateGranted", i)] <= IF mandates[i] = None THEN 0 ELSE 1
       /\ ledger[Event("MandateRevoked", i)] <=
            IF mandates[i] # None /\ mandates[i].status = "revoked" THEN 1 ELSE 0
  /\ \A q \in Quotes :
       ledger[Event("ApprovalGranted", q)] <= IF approvals[q] = None THEN 0 ELSE 1

===============================================================================
