----------------------------- MODULE AgentRequests -----------------------------
(***************************************************************************)
(* Agents of the core: registration and revocation (agents/service.ts), the *)
(* three ways a request says whose it is (agents/auth.ts), the SDK's signer *)
(* and the verifier of signed requests with its cache of nonces             *)
(* (agents/request-signing.ts, shared/replay-cache.ts).                     *)
(*                                                                         *)
(* An agent has one row of keys, made with it: its API key, and its public  *)
(* key if it gave one.  Nothing in the repository sets agents.status, so an *)
(* agent is always active.  What is signed is sent once, twice, late, or    *)
(* altered.                                                                 *)
(***************************************************************************)
EXTENDS Integers, FiniteSets

CONSTANTS
  Agents,        \* who registers
  Requests,      \* bound: requests that arrive
  RequestSkew,   \* AGENT_SIGNATURE_MAX_SKEW_S
  ClockOffsets,  \* how far a signer's clock is from the server's
  MaxSigned,     \* bound on signatures
  MaxRequestTime,\* bound on the clock
  MaxRequestFailures, \* bound on calls that fail
  Nobody

\* The keys of an agent.
AgentKeyRows == [public : BOOLEAN, revoked : BOOLEAN]

ASSUME RequestsAssumption ==
  /\ RequestSkew \in Nat /\ MaxSigned \in Nat /\ MaxRequestTime \in Nat
  /\ ClockOffsets \subseteq Int
  /\ Nobody \notin Int /\ Nobody \notin Agents /\ Nobody \notin AgentKeyRows

VARIABLES
  request_time,
  agent_keys,   \* core.agents with core.agent_keys
  signed,       \* what the signers have signed, in order: see Sign
  request,      \* where each request stands
  replay,       \* the nonces in Redis, each with its expiry
  mishaps

requestVars == <<request_time, agent_keys, signed, request, replay, mishaps>>

Nonces == 1 .. MaxSigned
Unsent == [step |-> "unsent"]
Stands(r, step) == request[r].step = step
Move(r, step) == request' = [request EXCEPT ![r].step = step]
Reject(r) == request' = [request EXCEPT ![r] = [step |-> "refused"]]

-----------------------------------------------------------------------------
\* One transaction: the agent, its keys and AgentRegistered.
register(a, gavePublicKey) ==
  /\ agent_keys[a] = Nobody
  /\ agent_keys' = [agent_keys EXCEPT ![a] = [public |-> gavePublicKey, revoked |-> FALSE]]
  /\ UNCHANGED <<request_time, signed, request, replay, mishaps>>

revokeKeys(a) ==
  /\ agent_keys[a] # Nobody /\ ~agent_keys[a].revoked
  /\ agent_keys' = [agent_keys EXCEPT ![a].revoked = TRUE]
  /\ UNCHANGED <<request_time, signed, request, replay, mishaps>>

\* The SDK signs with the key of one agent, in the name it was given, over a
\* fresh nonce and its own clock.
headersFor(key, name, offset) ==
  LET nonce == Cardinality(signed) + 1
  IN  /\ nonce \in Nonces
      /\ signed' = signed \cup {[agent |-> name, key |-> key, nonce |-> nonce,
                                 ts |-> request_time + offset]}
      /\ UNCHANGED <<request_time, agent_keys, request, replay, mishaps>>

-----------------------------------------------------------------------------
\* A request presents nothing, an API key (Nobody: of no agent) or a signature,
\* with the bytes it was made over or with others.  dead and checked are
\* history: whether the key was revoked when it came, when its time was looked at.
Revoked(a) == agent_keys[a] # Nobody /\ agent_keys[a].revoked
Present(r, tier, key, envelope, intact) ==
  /\ Stands(r, "unsent")
  /\ request' = [request EXCEPT ![r] =
       [step |-> "arrived", tier |-> tier, key |-> key, envelope |-> envelope, intact |-> intact,
        dead |-> key # Nobody /\ Revoked(key), agent |-> Nobody, checked |-> Nobody,
        admitted |-> Nobody, sure |-> TRUE]]
  /\ UNCHANGED <<request_time, agent_keys, signed, replay, mishaps>>

ArriveRequest(r) ==
  \/ Present(r, "anonymous", Nobody, Nobody, TRUE)
  \/ \E a \in Agents \cup {Nobody} : Present(r, "key", a, Nobody, TRUE)
  \/ \E e \in signed, intact \in BOOLEAN : Present(r, "signed", Nobody, e, intact)

Untouched == UNCHANGED <<request_time, agent_keys, signed, replay, mishaps>>

\* An absent key is the anonymous context, not a 401.
Anonymous(r) ==
  /\ Stands(r, "arrived") /\ request[r].tier = "anonymous"
  /\ Move(r, "identified")
  /\ Untouched

\* Mutant of authenticate: a revoked key still authenticates.
authenticateRevoked(r) ==
  /\ Stands(r, "arrived") /\ request[r].tier = "key"
  /\ LET a == request[r].key
     IN  IF a # Nobody /\ agent_keys[a] # Nobody
           THEN request' = [request EXCEPT ![r].step = "identified", ![r].agent = a]
           ELSE Reject(r)
  /\ Untouched

authenticate(r) ==
  /\ Stands(r, "arrived") /\ request[r].tier = "key"
  /\ LET a == request[r].key
     IN  IF a # Nobody /\ agent_keys[a] # Nobody /\ ~Revoked(a)
           THEN request' = [request EXCEPT ![r].step = "identified", ![r].agent = a]
           ELSE Reject(r)
  /\ Untouched

\* verify: the timestamp first, before any query; a signature that is refused
\* never falls back to a weaker tier.
CheckTimestamp(r) ==
  /\ Stands(r, "arrived") /\ request[r].tier = "signed"
  /\ IF request_time - request[r].envelope.ts \in -RequestSkew .. RequestSkew
       THEN request' = [request EXCEPT ![r].step = "timely", ![r].checked = request_time]
       ELSE Reject(r)
  /\ Untouched

\* The newest row with a public key, whether revoked or not.
registeredPublicKey(a) == agent_keys[a] # Nobody /\ agent_keys[a].public

VerifyRequest(r) ==
  /\ Stands(r, "timely")
  /\ LET e == request[r].envelope
     IN  IF registeredPublicKey(e.agent) /\ e.key = e.agent /\ request[r].intact
           THEN request' = [request EXCEPT ![r].step = "valid", ![r].agent = e.agent]
           ELSE Reject(r)
  /\ Untouched

NonceTtl == 2 * RequestSkew

\* SET NX EX, last: only a valid signature uses its nonce up.
seenBefore(r) ==
  /\ Stands(r, "valid")
  /\ LET n == request[r].envelope.nonce
     IN  IF replay[n] # Nobody
           THEN Reject(r) /\ UNCHANGED replay
           ELSE /\ replay' = [replay EXCEPT ![n] = request_time + NonceTtl]
                /\ request' = [request EXCEPT ![r].step = "identified", ![r].admitted = request_time]
  /\ UNCHANGED <<request_time, agent_keys, signed, mishaps>>

\* Redis does not answer, whatever it did: the cache opens.
CacheFails(r) ==
  /\ Stands(r, "valid") /\ mishaps < MaxRequestFailures
  /\ mishaps' = mishaps + 1
  /\ LET n == request[r].envelope.nonce
     IN  replay' \in {replay, IF replay[n] # Nobody THEN replay
                              ELSE [replay EXCEPT ![n] = request_time + NonceTtl]}
  /\ request' = [request EXCEPT ![r].step = "identified", ![r].admitted = request_time, ![r].sure = FALSE]
  /\ UNCHANGED <<request_time, agent_keys, signed>>

\* The limiter, asked for the agent or the address, answers either way.
LimitRequest(r) ==
  /\ Stands(r, "identified")
  /\ Move(r, "served") \/ Reject(r)
  /\ Untouched

\* A nonce is forgotten when its time is over, to the fraction of a second.
Forget(n) ==
  /\ replay[n] # Nobody /\ replay[n] <= request_time
  /\ replay' = [replay EXCEPT ![n] = Nobody]
  /\ UNCHANGED <<request_time, agent_keys, signed, request, mishaps>>

TimePasses ==
  /\ request_time < MaxRequestTime
  /\ \A n \in Nonces : replay[n] # Nobody => replay[n] > request_time
  /\ request_time' = request_time + 1
  /\ UNCHANGED <<agent_keys, signed, request, replay, mishaps>>

-----------------------------------------------------------------------------
RequestsInit ==
  /\ request_time = 0
  /\ agent_keys = [a \in Agents |-> Nobody]
  /\ signed = {}
  /\ request = [r \in Requests |-> Unsent]
  /\ replay = [n \in Nonces |-> Nobody]
  /\ mishaps = 0

RequestsNext ==
  \/ \E a \in Agents :
       \/ \E gave \in BOOLEAN : register(a, gave)
       \/ revokeKeys(a)
       \/ \E name \in Agents, offset \in ClockOffsets : headersFor(a, name, offset)
  \/ \E r \in Requests :
       \/ ArriveRequest(r) \/ Anonymous(r) \/ authenticate(r) \/ CheckTimestamp(r)
       \/ VerifyRequest(r) \/ seenBefore(r) \/ CacheFails(r) \/ LimitRequest(r)
  \/ \E n \in Nonces : Forget(n)
  \/ TimePasses

RequestsSpec == RequestsInit /\ [][RequestsNext]_requestVars

-----------------------------------------------------------------------------
\* A request is served as an agent's only on that agent's credential: an API
\* key that was not revoked when it arrived, or a signature of the agent's own
\* key over the very bytes, not older than the skew when it came.  And a signed
\* request is let through once: a copy of it gets in again only if the cache
\* did not answer for one of the two, or two skews later, which is when its
\* nonce is forgotten and, for a signer as far ahead as the skew allows, still
\* within the skew (request-signing.ts, "nonce replay").
ServedOncePerCredential ==
  /\ \A r \in Requests :
       Stands(r, "served") /\ request[r].agent # Nobody =>
         LET a == request[r].agent  e == request[r].envelope
         IN  CASE request[r].tier = "key" ->
                    request[r].key = a /\ ~request[r].dead
               [] request[r].tier = "signed" ->
                    /\ e.agent = a /\ e.key = a /\ request[r].intact
                    /\ request[r].checked - e.ts \in -RequestSkew .. RequestSkew
                    /\ request[r].checked <= request[r].admitted
  /\ LET letThrough == {r \in Requests : /\ Stands(r, "served")
                                         /\ request[r].tier = "signed" /\ request[r].sure}
     IN  \A r, q \in letThrough :
           r # q /\ request[r].envelope = request[q].envelope
             /\ request[r].admitted <= request[q].admitted
           => request[q].admitted >= request[r].admitted + 2 * RequestSkew

===============================================================================
