----------------------------- MODULE ClaimIntake -----------------------------
(***************************************************************************)
(* The core's claim intake: deliveries of an order (the webhook, UCP, ACP  *)
(* and Shopify) or of a formed claim (POST /v1/claims) under a key         *)
(* (apps/core/src/modules/adapters/idempotency.ts), and the funnel         *)
(* behind the key, which records the claim, asks the trio for a verdict    *)
(* over HTTP with a timeout and records the verdict                        *)
(* (grade-b/processor.ts).                                                 *)
(*                                                                         *)
(* A step is one query, one transaction or one end of the HTTP call.  A    *)
(* delivery is one HTTP request; a sender that retries makes a new one     *)
(* under the same key.  Authentication, rate limit and schema come before  *)
(* all of this and change nothing here.                                    *)
(*                                                                         *)
(* The trio is what the ConversionVerification module says of it: a claim  *)
(* gets one verdict and a token is verified once.  It may handle a request *)
(* whose caller has stopped waiting, or lose it.                           *)
(***************************************************************************)

CONSTANTS
  Deliveries,    \* HTTP requests to the intake
  Keys,          \* (merchant, idempotency key) pairs
  Bodies,        \* request bodies: an attribution token, and for a formed
                 \* claim the claim id the merchant chose
  FormedClaims,  \* those claim ids
  Tokens,        \* attribution tokens
  Garbage,       \* the tokens that cannot be decoded
  None           \* null

\* The claim of an order gets a fresh id: it is named after its delivery.
Claims == Deliveries \cup FormedClaims

ASSUME BodiesAssumption ==
  /\ Bodies \subseteq [token : Tokens \cup {None}, claim : FormedClaims \cup {None}]
  /\ \A b \in Bodies : b.claim # None => b.token # None
ASSUME FreshAssumption == Deliveries \cap FormedClaims = {}

Verdicts == {"verified", "rejected"}
Response(claim, outcome) == [claim |-> claim, outcome |-> outcome]
Ignored == Response(None, "ignored")
NoSigningKey == Response(None, "NO_SIGNING_KEY")
Responses ==
  {Ignored, NoSigningKey} \cup {Response(c, v) : c \in Claims, v \in Verdicts}

Conflict == Response(None, "IDEMPOTENCY_CONFLICT")
InProgress == Response(None, "IDEMPOTENCY_IN_PROGRESS")
Failed == Response(None, "INTERNAL_ERROR")
Errors == {Conflict, InProgress, Failed}

KeyRows == [request_hash : Bodies, response : Responses \cup {None}]
IntakeRows == [token : Tokens, verdict : {"pending"} \cup Verdicts]

ASSUME NoneAssumption ==
  /\ None \notin Keys /\ None \notin Bodies /\ None \notin Claims
  /\ None \notin Tokens /\ None \notin Verdicts
  /\ None \notin KeyRows /\ None \notin IntakeRows
  /\ None \notin Responses \cup Errors

VARIABLES
  idempotency_keys,  \* core.idempotency_keys
  claims_intake,     \* core.claims_intake
  claimed,           \* the claims with a ConversionClaimed event
  wire,              \* claims on their way to the trio
  trio,              \* the trio's verdicts, by claim id
  pc,                \* where each delivery stands
  key, body,         \* what it carries
  result,            \* what work() returned to it
  reply              \* what it was told

tables == <<idempotency_keys, claims_intake, claimed>>
vars == <<tables, wire, trio, pc, key, body, result, reply>>

-----------------------------------------------------------------------------
Row(d) == idempotency_keys[key[d]]
ClaimOf(d) == IF body[d].claim = None THEN d ELSE body[d].claim
IsOrder(d) == body[d].claim = None

SetRow(d, row) == idempotency_keys' = [idempotency_keys EXCEPT ![key[d]] = row]

Goto(d, stage) == pc' = [pc EXCEPT ![d] = stage]

\* The request ends with an answer.
Answer(d, response) ==
  /\ reply' = [reply EXCEPT ![d] = response]
  /\ Goto(d, "done")

Receive(d) ==
  /\ pc[d] = "idle"
  /\ \E k \in Keys, b \in Bodies :
       key' = [key EXCEPT ![d] = k] /\ body' = [body EXCEPT ![d] = b]
  /\ Goto(d, "reserve")
  /\ UNCHANGED <<tables, wire, trio, result, reply>>

-----------------------------------------------------------------------------
(***************************************************************************)
(* withIdempotency: reserve the key, or read what its holder left.         *)
(***************************************************************************)

\* INSERT ... ON CONFLICT DO NOTHING RETURNING key
Reserve(d) ==
  /\ pc[d] = "reserve"
  /\ Row(d) = None
  /\ SetRow(d, [request_hash |-> body[d], response |-> None])
  /\ Goto(d, "work")
  /\ UNCHANGED <<claims_intake, claimed, wire, trio, key, body,
                 result, reply>>

LoseReservation(d) ==
  /\ pc[d] = "reserve"
  /\ Row(d) # None
  /\ Goto(d, "read")
  /\ UNCHANGED <<tables, wire, trio, key, body, result, reply>>

\* The reservation vanished: a failed winner released it.
FindReleased(d) ==
  /\ pc[d] = "read"
  /\ Row(d) = None
  /\ Goto(d, "reserve")
  /\ UNCHANGED <<tables, wire, trio, key, body, result, reply>>

RefuseConflict(d) ==
  /\ pc[d] = "read"
  /\ Row(d) # None
  /\ Row(d).request_hash # body[d]
  /\ Answer(d, Conflict)
  /\ UNCHANGED <<tables, wire, trio, key, body, result>>

\* Mutant of Replay: the request hash is not compared.
ReplayAnyBody(d) ==
  /\ pc[d] = "read"
  /\ Row(d) # None
  /\ Row(d).response # None
  /\ Answer(d, Row(d).response)
  /\ UNCHANGED <<tables, wire, trio, key, body, result>>

Replay(d) ==
  /\ pc[d] = "read"
  /\ Row(d) # None
  /\ Row(d).request_hash = body[d]
  /\ Row(d).response # None
  /\ Answer(d, Row(d).response)
  /\ UNCHANGED <<tables, wire, trio, key, body, result>>

Pending(d) ==
  /\ pc[d] = "read"
  /\ Row(d) # None
  /\ Row(d).request_hash = body[d]
  /\ Row(d).response = None

\* Sleep, and from the top of the loop.
WaitForWinner(d) ==
  /\ Pending(d)
  /\ Goto(d, "reserve")
  /\ UNCHANGED <<tables, wire, trio, key, body, result, reply>>

\* Mutant of GiveUp: the deadline moves with every poll.
NeverGiveUp(d) == FALSE

\* The ten seconds are over.
GiveUp(d) ==
  /\ Pending(d)
  /\ Answer(d, InProgress)
  /\ UNCHANGED <<tables, wire, trio, key, body, result>>

\* work() threw: the pending row goes, the caller gets a 500.
Release(d) ==
  /\ pc[d] = "release"
  /\ SetRow(d, IF Row(d) # None /\ Row(d).response = None THEN None ELSE Row(d))
  /\ Answer(d, Failed)
  /\ UNCHANGED <<claims_intake, claimed, wire, trio, key, body,
                 result>>

\* UPDATE ... SET response
StoreResponse(d) ==
  /\ pc[d] = "store"
  /\ SetRow(d, IF Row(d) = None THEN None
               ELSE [Row(d) EXCEPT !.response = result[d]])
  /\ Goto(d, "reply")
  /\ UNCHANGED <<claims_intake, claimed, wire, trio, key, body,
                 result, reply>>

SendReply(d) ==
  /\ pc[d] = "reply"
  /\ Answer(d, result[d])
  /\ UNCHANGED <<tables, wire, trio, key, body, result>>

\* A query of withIdempotency fails, outside any try: a row that is pending
\* stays pending.
FailQuery(d) ==
  /\ pc[d] \in {"reserve", "read", "store", "release"}
  /\ Answer(d, Failed)
  /\ UNCHANGED <<tables, wire, trio, key, body, result>>

-----------------------------------------------------------------------------
(***************************************************************************)
(* The funnel: processConfirmedOrder and submitFormedClaim.                *)
(***************************************************************************)

\* work() returns.
Return(d, response) ==
  /\ result' = [result EXCEPT ![d] = response]
  /\ Goto(d, "store")

\* An order without a token is no claim.
DropTokenless(d) ==
  /\ pc[d] = "work"
  /\ body[d].token = None
  /\ Return(d, Ignored)
  /\ UNCHANGED <<tables, wire, trio, key, body, reply>>

\* The merchant row, read when the order came in, has no signing key.  Keys
\* are the merchants module's business: any order may find either.
RefuseUnsigned(d) ==
  /\ pc[d] = "work"
  /\ IsOrder(d) /\ body[d].token # None
  /\ Return(d, NoSigningKey)
  /\ UNCHANGED <<tables, wire, trio, key, body, reply>>

\* The intake row of a claim is new: claim_id is the primary key.
Recordable(d) ==
  /\ pc[d] = "work"
  /\ body[d].token # None
  /\ claims_intake[ClaimOf(d)] = None

\* Mutant of RecordClaim: the event is left for later.
RecordClaimQuietly(d) ==
  /\ Recordable(d)
  /\ claims_intake' = [claims_intake EXCEPT ![ClaimOf(d)] =
                         [token |-> body[d].token, verdict |-> "pending"]]
  /\ Goto(d, "submit")
  /\ UNCHANGED <<idempotency_keys, claimed, wire, trio, key, body,
                 result, reply>>

\* ConversionClaimed and the intake row, one transaction.  A token that
\* cannot be decoded gets the row only.
RecordClaim(d) ==
  /\ Recordable(d)
  /\ claims_intake' = [claims_intake EXCEPT ![ClaimOf(d)] =
                         [token |-> body[d].token, verdict |-> "pending"]]
  /\ claimed' = claimed \cup (IF body[d].token \in Garbage THEN {}
                              ELSE {ClaimOf(d)})
  /\ Goto(d, "submit")
  /\ UNCHANGED <<idempotency_keys, wire, trio, key, body, result,
                 reply>>

Submit(d) ==
  /\ pc[d] = "submit"
  /\ wire' = wire \cup {ClaimOf(d)}
  /\ Goto(d, "await")
  /\ UNCHANGED <<tables, trio, key, body, result, reply>>

\* Mutant of ReceiveVerdict: the answer goes out, the row is never updated.
ReceiveVerdictOnly(d) ==
  /\ pc[d] = "await"
  /\ trio[ClaimOf(d)] # None
  /\ Return(d, Response(ClaimOf(d), trio[ClaimOf(d)]))
  /\ UNCHANGED <<tables, wire, trio, key, body, reply>>

\* A 200 of the trio in time.
ReceiveVerdict(d) ==
  /\ pc[d] = "await"
  /\ trio[ClaimOf(d)] # None
  /\ result' = [result EXCEPT ![d] = Response(ClaimOf(d), trio[ClaimOf(d)])]
  /\ Goto(d, "record")
  /\ UNCHANGED <<tables, wire, trio, key, body, reply>>

\* UPDATE core.claims_intake SET verdict
RecordVerdict(d) ==
  /\ pc[d] = "record"
  /\ claims_intake' = [claims_intake EXCEPT ![ClaimOf(d)].verdict =
                         result[d].outcome]
  /\ Goto(d, "store")
  /\ UNCHANGED <<idempotency_keys, claimed, wire, trio, key, body,
                 result, reply>>

\* work() throws: the signer or a query fails, a formed claim's id is taken,
\* the call to the trio times out or ends in anything but a 200.
FailWork(d) ==
  /\ pc[d] \in {"work", "submit", "await", "record"}
  /\ Goto(d, "release")
  /\ UNCHANGED <<tables, wire, trio, key, body, result, reply>>

\* The process dies under the request.
Crash(d) ==
  /\ pc[d] \notin {"idle", "done", "crashed"}
  /\ Goto(d, "crashed")
  /\ UNCHANGED <<tables, wire, trio, key, body, result, reply>>

-----------------------------------------------------------------------------
\* A token that the trio has verified for some claim.
Spent(token) ==
  \E c \in Claims : trio[c] = "verified" /\ claims_intake[c].token = token

\* The trio handles a request.
TrioVerifies(c) ==
  /\ c \in wire
  /\ wire' = wire \ {c}
  /\ \E verdict \in Verdicts :
       /\ verdict = "verified" =>
            LET token == claims_intake[c].token
            IN  token \notin Garbage /\ ~Spent(token)
       /\ trio' = [trio EXCEPT ![c] = IF @ = None THEN verdict ELSE @]
  /\ UNCHANGED <<tables, pc, key, body, result, reply>>

Init ==
  /\ idempotency_keys = [k \in Keys |-> None]
  /\ claims_intake = [c \in Claims |-> None]
  /\ claimed = {}
  /\ wire = {}
  /\ trio = [c \in Claims |-> None]
  /\ pc = [d \in Deliveries |-> "idle"]
  /\ key = [d \in Deliveries |-> None]
  /\ body = [d \in Deliveries |-> None]
  /\ result = [d \in Deliveries |-> None]
  /\ reply = [d \in Deliveries |-> None]

\* What a delivery does by itself.
Serve(d) ==
  \/ Reserve(d) \/ LoseReservation(d)
  \/ FindReleased(d) \/ RefuseConflict(d) \/ Replay(d) \/ WaitForWinner(d)
  \/ GiveUp(d)
  \/ DropTokenless(d) \/ RefuseUnsigned(d) \/ RecordClaim(d) \/ Submit(d)
  \/ ReceiveVerdict(d) \/ RecordVerdict(d) \/ FailWork(d)
  \/ Release(d) \/ StoreResponse(d) \/ SendReply(d) \/ FailQuery(d)

Next ==
  \/ \E d \in Deliveries : Receive(d) \/ Serve(d) \/ Crash(d)
  \/ \E c \in Claims : TrioVerifies(c)

Spec == Init /\ [][Next]_vars

\* A request in service goes on, and a request that finds its key pending
\* again and again reaches its deadline.
FairSpec ==
  Spec /\ \A d \in Deliveries : WF_vars(Serve(d)) /\ SF_vars(GiveUp(d))

-----------------------------------------------------------------------------
(***************************************************************************)
(* Properties.                                                             *)
(***************************************************************************)

Stages ==
  {"idle", "reserve", "read", "work", "submit", "await", "record", "store",
   "release", "reply", "done", "crashed"}

\* The type invariant: what is stored under a key is an answer of the funnel,
\* never an error (idempotency.ts:78-87).
TypeOK ==
  /\ idempotency_keys \in [Keys -> KeyRows \cup {None}]
  /\ claims_intake \in [Claims -> IntakeRows \cup {None}]
  /\ claimed \subseteq Claims
  /\ wire \subseteq Claims
  /\ trio \in [Claims -> Verdicts \cup {None}]
  /\ pc \in [Deliveries -> Stages]
  /\ key \in [Deliveries -> Keys \cup {None}]
  /\ body \in [Deliveries -> Bodies \cup {None}]
  /\ result \in [Deliveries -> Responses \cup {None}]
  /\ reply \in [Deliveries -> Responses \cup Errors \cup {None}]

Working(d) == pc[d] \in {"work", "submit", "await", "record", "store", "release"}

\* Concurrent deliveries of one key never run the funnel at the same time,
\* whatever was released or lost before (idempotency.ts:32-34).
OneWorkerPerKey ==
  \A d, e \in Deliveries :
    Working(d) /\ Working(e) /\ key[d] = key[e] => d = e

\* The core's record follows the trio: a verdict has an intake row, which
\* says the same or is still pending, and a verified claim was announced
\* in the ledger (BUILD-PLAN SYN-6), with late verdicts and lost answers.
IntakeFollowsTrio ==
  \A c \in Claims :
    /\ trio[c] # None => claims_intake[c] # None
    /\ claims_intake[c] # None =>
         claims_intake[c].verdict \in {"pending", trio[c]}
    /\ trio[c] = "verified" => c \in claimed

\* Who is told a verdict finds the same verdict under GET /v1/claims/:id, and
\* the trio stands behind it.
AnsweredIsRecorded ==
  \A d \in Deliveries :
    reply[d] \notin {None, Ignored, NoSigningKey} \cup Errors
    =>
      /\ trio[reply[d].claim] = reply[d].outcome
      /\ claims_intake[reply[d].claim].verdict = reply[d].outcome

\* Every delivery is answered, unless its process dies, also when the winner
\* of its key died and left the key pending.
DeliveriesAreAnswered ==
  \A d \in Deliveries : pc[d] = "reserve" ~> pc[d] \in {"done", "crashed"}

-----------------------------------------------------------------------------
Answers ==
  [k \in Keys |->
    IF idempotency_keys[k] = None \/ idempotency_keys[k].response = None
    THEN None ELSE idempotency_keys[k]]

Abstract == INSTANCE OneAnswer WITH answer <- Answers

\* The intake implements what an idempotency key promises: one final answer
\* per key, for one body, and nothing but it or an error for anyone.
ImplementsOneAnswer == Abstract!Spec

=============================================================================
